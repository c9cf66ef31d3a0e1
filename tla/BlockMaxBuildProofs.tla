---------------------------- MODULE BlockMaxBuildProofs --------------------------
(***************************************************************************)
(* For every block size and every list, full blocks only or with a short   *)
(* last one, construction leaves each block with its representative and    *)
(* its maximum, and the list with a bound on all of them.                  *)
(***************************************************************************)
EXTENDS BlockMaxBuild, CommonLemmas

-----------------------------------------------------------------------------
(* Counting blocks.                                                        *)

\* A block all of whose postings are in the list is one of its blocks.
LEMMA FullBlock ==
    ASSUME NEW a, IsPostingsList(a), NEW b \in Nat, BlockSize * b + BlockSize <= a.n
    PROVE  /\ b \in 0 .. NumBlocks(a) - 1
           /\ BlockEnd(a, b) = BlockSize * b + BlockSize
           /\ BlockPositions(a, b) = BlockSize * b .. BlockSize * b + BlockSize - 1
<1> DEFINE B == BlockSize  s == B * b  p == s + B - 1
<1>1. B \in Nat \ {0} /\ a.n \in Nat /\ s \in Nat /\ B * (b + 1) = s + B
  BY BlockSizeAssumption DEF IsPostingsList
<1>2. BlockEnd(a, b) = IF B * (b + 1) <= a.n THEN B * (b + 1) ELSE a.n
  BY DEF BlockEnd
<1>3. p = B * b + (B - 1) /\ B - 1 \in 0 .. B - 1
  BY <1>1
<1>4. BlockOf(p) = b
  BY <1>1, <1>3, DivUnique DEF BlockOf
<1>5. p \in 0 .. a.n - 1
  BY <1>1
<1>6. b \in 0 .. NumBlocks(a) - 1
  BY <1>4, <1>5, PositionInBlock
<1> QED
  BY <1>1, <1>2, <1>6 DEF BlockPositions

\* The block the list ends in: there is one more when it ends inside it.
LEMMA LastBlock ==
    ASSUME NEW a, IsPostingsList(a), NEW b \in Nat,
           BlockSize * b <= a.n, a.n < BlockSize * b + BlockSize
    PROVE  /\ a.n % BlockSize = a.n - BlockSize * b
           /\ a.n % BlockSize # 0 => /\ NumBlocks(a) = b + 1
                                     /\ BlockEnd(a, b) = a.n
                                     /\ BlockPositions(a, b) = BlockSize * b .. a.n - 1
           /\ a.n % BlockSize = 0 => NumBlocks(a) = b
<1> DEFINE B == BlockSize  s == B * b  r == a.n - s
<1>1. B \in Nat \ {0} /\ a.n \in Nat /\ s \in Nat /\ B * (b + 1) = s + B
  BY BlockSizeAssumption DEF IsPostingsList
<1>2. r \in 0 .. B - 1 /\ a.n = B * b + r
  BY <1>1
<1> HIDE DEF r
<1>3. a.n \div B = b /\ a.n % B = r
  BY <1>1, <1>2, DivUnique
<1>4. BlockEnd(a, b) = IF B * (b + 1) <= a.n THEN B * (b + 1) ELSE a.n
  BY DEF BlockEnd
<1>5. BlockEnd(a, b) = a.n
  BY <1>1, <1>2, <1>4
<1> QED
  BY <1>3, <1>5 DEF NumBlocks, BlockPositions, r

-----------------------------------------------------------------------------
(* The inductive invariant.                                                *)

\* Where the loops are: l is the last position of block j while the
\* representatives are set, and the i-th of block j while a BMW index is ranked.
Place ==
    /\ pc = "support" => /\ l = BlockSize * j + BlockSize - 1
                         /\ BlockSize * j <= pl.n
                         /\ i = 1 /\ maxScore = 0
                         /\ bmax = [b \in Blocks |-> 0]
    /\ pc = "rank" => /\ l <= pl.n
                      /\ kind = "BMW" => i \in 1 .. BlockSize /\ l = BlockSize * j + (i - 1)
                      /\ kind = "WAND" => j = 0

RepsDone ==
    \A b \in Blocks : (b < j \/ pc # "support") => rep[b] = BlockRep(pl, b)

\* maxScore is the maximum of the postings of the block being filled, of the
\* whole list in a WAND index.
MaxOfRun ==
    pc = "rank" =>
        /\ \A p \in BlockSize * j .. l - 1 : pl.w[p] <= maxScore
        /\ maxScore = 0 \/ \E p \in BlockSize * j .. l - 1 : pl.w[p] = maxScore

BlockBounded(b) ==
    /\ bmax[b] <= listMax
    /\ \A p \in BlockPositions(pl, b) : pl.w[p] <= bmax[b]
    /\ bmax[b] = 0 \/ \E p \in BlockPositions(pl, b) : pl.w[p] = bmax[b]

\* The blocks before j are done.
BlocksDone ==
    (pc = "rank" /\ kind = "BMW") => \A b \in Blocks : b < j => BlockBounded(b)

IInv == /\ TypeOK /\ Place /\ RepsDone /\ MaxOfRun /\ BlocksDone
        /\ BoundsSound /\ BoundsTight

\* Lists, counters and blocks have their types.
LEMMA Facts ==
    ASSUME TypeOK
    PROVE  /\ IsPostingsList(pl) /\ pl.n \in Nat /\ BlockSize \in Nat \ {0}
           /\ \A p \in 0 .. pl.n - 1 : pl.ids[p] \in Nat /\ pl.w[p] \in Nat
           /\ j \in Nat /\ i \in Nat /\ l \in Nat /\ maxScore \in Nat
           /\ NumBlocks(pl) \in Nat /\ j <= NumBlocks(pl)
           /\ BlockSize * j \in Nat
<1>1. /\ IsPostingsList(pl) /\ pl.n \in Nat /\ BlockSize \in Nat \ {0}
      /\ \A p \in 0 .. pl.n - 1 : pl.ids[p] \in Nat /\ pl.w[p] \in Nat
  BY ListsAssumption, BlockSizeAssumption DEF TypeOK, IsPostingsList
<1>2. NumBlocks(pl) \in Nat
  <2>1. pl.n \div BlockSize \in Nat
    BY <1>1, DivMod
  <2> QED
    BY <2>1 DEF NumBlocks
<1>3. j \in Nat /\ j <= NumBlocks(pl)
  BY <1>2 DEF TypeOK
<1>4. BlockSize * j \in Nat
  BY <1>1, <1>3
<1> QED
  BY <1>1, <1>2, <1>3, <1>4 DEF TypeOK

\* The invariant holds at first.
LEMMA InitInv == Init => IInv
<1> SUFFICES ASSUME Init PROVE IInv
  OBVIOUS
<1>1. BlockSize \in Nat \ {0} /\ IsPostingsList(pl) /\ pl.n \in Nat
  BY BlockSizeAssumption, ListsAssumption DEF Init, IsPostingsList
<1>2. NumBlocks(pl) \in Nat
  <2>1. pl.n \div BlockSize \in Nat
    BY <1>1, DivMod
  <2> QED
    BY <2>1 DEF NumBlocks
<1>3. TypeOK
  BY <1>1, <1>2 DEF Init, TypeOK, Lowest
<1>4. BlockSize * 0 = 0
  BY <1>1
<1>5. Place
  BY <1>1, <1>4 DEF Init, Place
<1>6. RepsDone
  BY <1>2 DEF Init, RepsDone, Blocks
<1> QED
  BY <1>3, <1>5, <1>6 DEF Init, IInv, MaxOfRun, BlocksDone, BoundsSound, BoundsTight

\* The representative of a whole block keeps the invariant,
LEMMA SupportBlockKeepsInv == IInv /\ SupportBlock => IInv'
<1> SUFFICES ASSUME IInv, SupportBlock PROVE IInv'
  OBVIOUS
<1>1. /\ IsPostingsList(pl) /\ pl.n \in Nat /\ BlockSize \in Nat \ {0}
      /\ \A p \in 0 .. pl.n - 1 : pl.ids[p] \in Nat
      /\ j \in Nat /\ l \in Nat /\ BlockSize * j \in Nat /\ NumBlocks(pl) \in Nat
  BY Facts DEF IInv
<1>2. /\ pc = "support" /\ l < pl.n
      /\ rep' = [rep EXCEPT ![j] = pl.ids[l]]
      /\ j' = j + 1 /\ l' = l + BlockSize
      /\ pl' = pl /\ kind' = kind /\ pc' = pc /\ i' = i /\ maxScore' = maxScore
      /\ bmax' = bmax /\ listMax' = listMax
  BY DEF SupportBlock
<1>3. l = BlockSize * j + BlockSize - 1
  BY <1>2 DEF IInv, Place
<1>4. /\ j \in 0 .. NumBlocks(pl) - 1
      /\ BlockEnd(pl, j) = BlockSize * j + BlockSize
  <2>1. BlockSize * j + BlockSize <= pl.n
    BY <1>1, <1>2, <1>3
  <2> QED
    BY <2>1, <1>1, FullBlock
<1>5. BlockRep(pl, j) = pl.ids[l] /\ pl.ids[l] \in Nat
  BY <1>1, <1>2, <1>3, <1>4 DEF BlockRep
<1>6. Blocks' = Blocks /\ rep \in [Blocks -> Nat] /\ j \in Blocks
  BY <1>2, <1>4 DEF IInv, TypeOK, Blocks
<1>7. rep' \in [Blocks -> Nat] /\ rep'[j] = pl.ids[l]
      /\ \A b \in Blocks : b # j => rep'[b] = rep[b]
  BY <1>2, <1>5, <1>6
<1>8. TypeOK'
  BY <1>1, <1>2, <1>4, <1>6, <1>7 DEF IInv, TypeOK
<1>9. BlockSize * (j + 1) = BlockSize * j + BlockSize
  BY <1>1
<1>10. Place'
  BY <1>1, <1>2, <1>3, <1>6, <1>9 DEF IInv, Place
<1>11. RepsDone'
  <2>1. ASSUME NEW b \in Blocks, b < j + 1 PROVE rep'[b] = BlockRep(pl, b)
    <3>1. b = j \/ (b # j /\ b < j)
      BY <2>1, <1>1 DEF Blocks
    <3> QED
      BY <3>1, <1>2, <1>5, <1>7 DEF IInv, RepsDone
  <2> QED
    BY <2>1, <1>2, <1>6 DEF RepsDone, BlockRep, BlockEnd
<1> QED
  BY <1>2, <1>8, <1>10, <1>11 DEF IInv, MaxOfRun, BlocksDone, BoundsSound, BoundsTight

\* and that of a short last block.
LEMMA SupportTailKeepsInv == IInv /\ SupportTail => IInv'
<1> SUFFICES ASSUME IInv, SupportTail PROVE IInv'
  OBVIOUS
<1>1. /\ IsPostingsList(pl) /\ pl.n \in Nat /\ BlockSize \in Nat \ {0}
      /\ \A p \in 0 .. pl.n - 1 : pl.ids[p] \in Nat
      /\ j \in Nat /\ l \in Nat /\ BlockSize * j \in Nat /\ NumBlocks(pl) \in Nat
  BY Facts DEF IInv
<1>2. /\ pc = "support" /\ l >= pl.n
      /\ rep' = IF pl.n % BlockSize # 0
                THEN [rep EXCEPT ![j] = pl.ids[pl.n - 1]] ELSE rep
      /\ pc' = "rank" /\ l' = 0 /\ j' = 0
      /\ pl' = pl /\ kind' = kind /\ i' = i /\ maxScore' = maxScore
      /\ bmax' = bmax /\ listMax' = listMax
  BY DEF SupportTail
<1>3. /\ l = BlockSize * j + BlockSize - 1 /\ BlockSize * j <= pl.n
      /\ i = 1 /\ maxScore = 0
  BY <1>2 DEF IInv, Place
<1>4. /\ pl.n % BlockSize = pl.n - BlockSize * j
      /\ pl.n % BlockSize # 0 => NumBlocks(pl) = j + 1 /\ BlockEnd(pl, j) = pl.n
      /\ pl.n % BlockSize = 0 => NumBlocks(pl) = j
  <2>1. pl.n < BlockSize * j + BlockSize
    BY <1>1, <1>2, <1>3
  <2> QED
    BY <2>1, <1>1, <1>3, LastBlock
<1>5. Blocks' = Blocks /\ rep \in [Blocks -> Nat]
  BY <1>2 DEF IInv, TypeOK, Blocks
<1>6. rep' \in [Blocks -> Nat] /\ \A b \in Blocks : rep'[b] = BlockRep(pl, b)
  <2>1. CASE pl.n % BlockSize # 0
    <3>1. pl.n - 1 \in 0 .. pl.n - 1
      BY <2>1, <1>1, <1>4
    <3>2. pl.ids[pl.n - 1] \in Nat /\ BlockRep(pl, j) = pl.ids[pl.n - 1]
      BY <3>1, <2>1, <1>1, <1>4 DEF BlockRep
    <3>3. \A b \in Blocks : b = j \/ (b # j /\ b < j)
      BY <2>1, <1>1, <1>4 DEF Blocks
    <3>4. /\ rep' \in [Blocks -> Nat]
          /\ j \in Blocks => rep'[j] = pl.ids[pl.n - 1]
          /\ \A b \in Blocks : b # j => rep'[b] = rep[b]
      BY <3>2, <2>1, <1>2, <1>5
    <3> QED
      BY <3>2, <3>3, <3>4 DEF IInv, RepsDone
  <2>2. CASE pl.n % BlockSize = 0
    <3>1. \A b \in Blocks : b < j
      BY <2>2, <1>1, <1>4 DEF Blocks
    <3> QED
      BY <3>1, <2>2, <1>2, <1>5 DEF IInv, RepsDone
  <2> QED
    BY <2>1, <2>2
<1>7. TypeOK'
  BY <1>1, <1>2, <1>5, <1>6 DEF IInv, TypeOK
<1>8. BlockSize * 0 = 0
  BY <1>1
<1>9. Place'
  BY <1>1, <1>2, <1>3, <1>8 DEF Place
<1>10. RepsDone'
  BY <1>2, <1>5, <1>6 DEF RepsDone, BlockRep, BlockEnd
<1>11. MaxOfRun'
  BY <1>2, <1>3, <1>8 DEF MaxOfRun
<1>12. BlocksDone'
  BY <1>2, <1>5 DEF BlocksDone, Blocks
<1> QED
  BY <1>2, <1>7, <1>9, <1>10, <1>11, <1>12 DEF IInv, BoundsSound, BoundsTight

\* A count from 1 to the block size is divisible by it at the end only.
LEMMA CountAtEnd ==
    ASSUME NEW c \in 1 .. BlockSize
    PROVE  c % BlockSize = 0 <=> c = BlockSize
<1>1. BlockSize \in Nat \ {0}
  BY BlockSizeAssumption
<1>2. CASE c = BlockSize
  <2>1. (BlockSize * 1 + 0) % BlockSize = 0
    BY <1>1, DivUnique
  <2> QED
    BY <2>1, <1>1, <1>2
<1>3. CASE c # BlockSize
  <2>1. c \in 0 .. BlockSize - 1 /\ c # 0 /\ BlockSize * 0 + c = c
    BY <1>1, <1>3
  <2>2. (BlockSize * 0 + c) % BlockSize = c
    BY <2>1, <1>1, DivUnique
  <2> QED
    BY <2>1, <2>2, <1>3
<1> QED
  BY <1>2, <1>3

\* Higher is the larger of two numbers.
LEMMA HigherIsMax ==
    ASSUME NEW a \in Int, NEW b \in Int
    PROVE  /\ Higher(a, b) >= a /\ Higher(a, b) >= b
           /\ Higher(a, b) = a \/ Higher(a, b) = b
           /\ b \in Nat => Higher(a, b) \in Nat
           /\ Higher(a, b) \in Int
BY DEF Higher

\* One turn of the loop over the postings keeps the invariant.
LEMMA ScorePostingKeepsInv == IInv /\ ScorePosting => IInv'
<1> SUFFICES ASSUME IInv, ScorePosting PROVE IInv'
  OBVIOUS
<1> DEFINE top == Higher(maxScore, pl.w[l])
<1>1. /\ IsPostingsList(pl) /\ pl.n \in Nat /\ BlockSize \in Nat \ {0}
      /\ \A p \in 0 .. pl.n - 1 : pl.w[p] \in Nat
      /\ j \in Nat /\ l \in Nat /\ i \in Nat /\ BlockSize * j \in Nat
      /\ NumBlocks(pl) \in Nat /\ maxScore \in Nat /\ listMax \in Int
      /\ kind \in {"BMW", "WAND"}
  BY Facts DEF IInv, TypeOK, Lowest
<1>2. /\ pc = "rank" /\ l < pl.n
      /\ IF kind = "BMW" /\ i % BlockSize = 0 THEN ScoreBlockEnd(top)
         ELSE /\ maxScore' = top
              /\ i' = IF kind = "BMW" THEN i + 1 ELSE i
              /\ j' = j /\ bmax' = bmax /\ listMax' = listMax
      /\ l' = l + 1
      /\ pl' = pl /\ kind' = kind /\ pc' = pc /\ rep' = rep
  BY DEF ScorePosting
<1>3. /\ kind = "BMW" => i \in 1 .. BlockSize /\ l = BlockSize * j + (i - 1)
      /\ kind = "WAND" => j = 0
  BY <1>2 DEF IInv, Place
<1>4. BlockSize * j <= l
  BY <1>1, <1>3
<1>5. /\ top \in Nat
      /\ \A p \in BlockSize * j .. l : pl.w[p] <= top
      /\ top = 0 \/ \E p \in BlockSize * j .. l : pl.w[p] = top
  <2>1. /\ \A p \in BlockSize * j .. l - 1 : pl.w[p] <= maxScore
        /\ maxScore = 0 \/ \E p \in BlockSize * j .. l - 1 : pl.w[p] = maxScore
    BY <1>2 DEF IInv, MaxOfRun
  <2>2. pl.w[l] \in Nat /\ \A p \in BlockSize * j .. l : pl.w[p] \in Nat
    BY <1>1, <1>2, <1>4
  <2>3. /\ top >= maxScore /\ top >= pl.w[l] /\ top \in Nat
        /\ top = maxScore \/ top = pl.w[l]
    BY <2>2, <1>1 DEF Higher
  <2> HIDE DEF top
  <2>4. \A p \in BlockSize * j .. l : p = l \/ p \in BlockSize * j .. l - 1
    BY <1>1, <1>4
  <2>5. BlockSize * j .. l - 1 \subseteq BlockSize * j .. l /\ l \in BlockSize * j .. l
    BY <1>1, <1>4
  <2>6. ASSUME NEW p \in BlockSize * j .. l PROVE pl.w[p] <= top
    <3>1. CASE p = l
      BY <3>1, <2>3
    <3>2. CASE p \in BlockSize * j .. l - 1
      BY <3>2, <2>1, <2>2, <2>3, <1>1
    <3> QED
      BY <3>1, <3>2, <2>4
  <2>7. top = 0 \/ \E p \in BlockSize * j .. l : pl.w[p] = top
    BY <2>1, <2>3, <2>5
  <2> QED
    BY <2>3, <2>6, <2>7
<1> HIDE DEF top
<1>6. Blocks' = Blocks /\ \A b : BlockPositions(pl, b)' = BlockPositions(pl, b)
  BY <1>2 DEF Blocks, BlockPositions, BlockEnd
<1>7. CASE kind = "BMW" /\ i % BlockSize = 0
  <2>1. /\ bmax' = [bmax EXCEPT ![j] = top] /\ listMax' = Higher(listMax, top)
        /\ i' = 1 /\ j' = j + 1 /\ maxScore' = 0
    BY <1>2, <1>7 DEF ScoreBlockEnd
  <2>2. l = BlockSize * j + BlockSize - 1
    <3>1. i = BlockSize
      BY <1>3, <1>7, CountAtEnd
    <3> QED
      BY <3>1, <1>1, <1>3, <1>7
  <2>3. /\ j \in 0 .. NumBlocks(pl) - 1
        /\ BlockPositions(pl, j) = BlockSize * j .. l
    <3>1. BlockSize * j + BlockSize <= pl.n
      BY <2>2, <1>1, <1>2
    <3> QED
      BY <3>1, <2>2, <1>1, FullBlock
  <2>4. /\ listMax' \in Nat /\ listMax' >= listMax /\ listMax' >= top
    BY <2>1, <1>1, <1>5, HigherIsMax
  <2>5. /\ j \in Blocks /\ bmax' \in [Blocks -> Nat] /\ bmax'[j] = top
        /\ bmax \in [Blocks -> Nat]
        /\ \A b \in Blocks : b # j => bmax'[b] = bmax[b]
    <3>1. j \in Blocks /\ bmax \in [Blocks -> Nat]
      BY <2>3 DEF IInv, TypeOK, Blocks
    <3> QED
      BY <3>1, <2>1, <1>5
  <2>6. TypeOK'
    BY <2>1, <2>3, <2>4, <2>5, <1>1, <1>2, <1>6 DEF IInv, TypeOK
  <2>7. BlockSize * (j + 1) = l + 1
    BY <2>2, <1>1
  <2>8. Place'
    BY <2>1, <2>7, <1>1, <1>2, <1>7 DEF Place
  <2>9. MaxOfRun'
    <3>1. BlockSize * j' .. l' - 1 = {}
      BY <2>1, <2>7, <1>1, <1>2
    <3> QED
      BY <3>1, <2>1, <1>2 DEF MaxOfRun
  <2>10. ASSUME NEW b \in Blocks, b < j + 1 PROVE BlockBounded(b)'
    <3>1. CASE b = j
      BY <3>1, <2>3, <2>4, <2>5, <1>2, <1>5, <1>6 DEF BlockBounded
    <3>2. CASE b # j
      <4>1. BlockBounded(b) /\ bmax'[b] = bmax[b] /\ bmax[b] \in Nat
        <5>1. b < j
          BY <3>2, <2>10, <1>1 DEF Blocks
        <5> QED
          BY <5>1, <3>2, <2>5, <1>2, <1>7 DEF IInv, BlocksDone
      <4> QED
        BY <4>1, <2>4, <1>1, <1>2, <1>6 DEF BlockBounded
    <3> QED
      BY <3>1, <3>2
  <2>11. BlocksDone'
    BY <2>1, <2>10, <1>6 DEF BlocksDone
  <2>12. RepsDone'
    BY <1>2, <1>6 DEF IInv, RepsDone, BlockRep, BlockEnd
  <2> QED
    BY <2>6, <2>8, <2>9, <2>11, <2>12, <1>2 DEF IInv, BoundsSound, BoundsTight
<1>8. CASE ~(kind = "BMW" /\ i % BlockSize = 0)
  <2>1. /\ maxScore' = top /\ i' = (IF kind = "BMW" THEN i + 1 ELSE i)
        /\ j' = j /\ bmax' = bmax /\ listMax' = listMax
    BY <1>2, <1>8
  <2>2. TypeOK'
    BY <2>1, <1>1, <1>2, <1>5, <1>6 DEF IInv, TypeOK
  <2>3. kind = "BMW" => i + 1 \in 1 .. BlockSize
    BY <1>1, <1>3, <1>8, CountAtEnd
  <2>4. Place'
    BY <2>1, <2>3, <1>1, <1>2, <1>3 DEF Place
  <2>5. l' - 1 = l
    BY <1>1, <1>2
  <2>6. MaxOfRun'
    BY <2>1, <2>5, <1>2, <1>5 DEF MaxOfRun
  <2>7. BlocksDone'
    BY <2>1, <1>2, <1>6 DEF IInv, BlocksDone, BlockBounded
  <2>8. RepsDone'
    BY <1>2, <1>6 DEF IInv, RepsDone, BlockRep, BlockEnd
  <2> QED
    BY <2>2, <2>4, <2>6, <2>7, <2>8, <1>2 DEF IInv, BoundsSound, BoundsTight
<1> QED
  BY <1>7, <1>8

\* The bound of a short last block keeps the invariant.
LEMMA RankTailKeepsInv == IInv /\ RankTail => IInv'
<1> SUFFICES ASSUME IInv, RankTail PROVE IInv'
  OBVIOUS
<1>1. /\ IsPostingsList(pl) /\ pl.n \in Nat /\ BlockSize \in Nat \ {0}
      /\ \A p \in 0 .. pl.n - 1 : pl.w[p] \in Nat
      /\ j \in Nat /\ l \in Nat /\ i \in Nat /\ BlockSize * j \in Nat
      /\ NumBlocks(pl) \in Nat /\ maxScore \in Nat /\ listMax \in Int
      /\ kind \in {"BMW", "WAND"} /\ bmax \in [Blocks -> Nat]
  BY Facts DEF IInv, TypeOK, Lowest
<1>2. /\ pc = "rank" /\ l >= pl.n
      /\ bmax' = IF kind = "BMW" /\ pl.n % BlockSize # 0
                 THEN [bmax EXCEPT ![NumBlocks(pl) - 1] = maxScore] ELSE bmax
      /\ listMax' = Higher(listMax, maxScore)
      /\ pc' = "done"
      /\ pl' = pl /\ kind' = kind /\ l' = l /\ i' = i /\ j' = j
      /\ maxScore' = maxScore /\ rep' = rep
  BY DEF RankTail
<1>3. /\ l = pl.n
      /\ kind = "BMW" => i \in 1 .. BlockSize /\ pl.n = BlockSize * j + (i - 1)
      /\ kind = "WAND" => j = 0
  BY <1>1, <1>2 DEF IInv, Place
<1>4. /\ \A p \in BlockSize * j .. pl.n - 1 : pl.w[p] <= maxScore
      /\ maxScore = 0 \/ \E p \in BlockSize * j .. pl.n - 1 : pl.w[p] = maxScore
  BY <1>2, <1>3 DEF IInv, MaxOfRun
<1>5. listMax' \in Nat /\ listMax' >= listMax /\ listMax' >= maxScore
  BY <1>1, <1>2, HigherIsMax
<1>6. Blocks' = Blocks /\ \A b : BlockPositions(pl, b)' = BlockPositions(pl, b)
  BY <1>2 DEF Blocks, BlockPositions, BlockEnd
<1>7. \A b \in Blocks : rep'[b] = BlockRep(pl, b)
  BY <1>2 DEF IInv, RepsDone
<1>8. bmax' \in [Blocks -> Nat]
  BY <1>1, <1>2
<1>9. TypeOK'
  BY <1>2, <1>5, <1>6, <1>8 DEF IInv, TypeOK
<1>10. kind = "BMW" => \A b \in Blocks : BlockBounded(b)'
  <2>1. SUFFICES ASSUME kind = "BMW", NEW b \in Blocks PROVE BlockBounded(b)'
    OBVIOUS
  <2>2. /\ pl.n % BlockSize # 0 => /\ NumBlocks(pl) = j + 1
                                   /\ BlockPositions(pl, j) = BlockSize * j .. pl.n - 1
        /\ pl.n % BlockSize = 0 => NumBlocks(pl) = j
    <3>1. BlockSize * j <= pl.n /\ pl.n < BlockSize * j + BlockSize
      BY <2>1, <1>1, <1>3
    <3> QED
      BY <3>1, <1>1, LastBlock
  <2>3. CASE b < j
    <3>1. BlockBounded(b) /\ bmax[b] \in Nat
      BY <2>1, <2>3, <1>1, <1>2 DEF IInv, BlocksDone
    <3>2. bmax'[b] = bmax[b]
      BY <2>1, <2>2, <2>3, <1>1, <1>2
    <3> QED
      BY <3>1, <3>2, <1>1, <1>2, <1>5, <1>6 DEF BlockBounded
  <2>4. CASE b >= j
    <3>1. b = j /\ pl.n % BlockSize # 0 /\ NumBlocks(pl) - 1 = j
      BY <2>2, <2>4, <1>1 DEF Blocks
    <3>2. bmax'[b] = maxScore
      BY <3>1, <2>1, <1>1, <1>2
    <3> QED
      BY <3>1, <3>2, <2>2, <1>2, <1>4, <1>5, <1>6 DEF BlockBounded
  <2> QED
    BY <2>3, <2>4, <1>1 DEF Blocks
<1>11. ASSUME NEW p \in 0 .. pl.n - 1 PROVE pl.w[p] <= listMax'
  <2>1. CASE p >= BlockSize * j
    BY <2>1, <1>1, <1>4, <1>5
  <2>2. CASE p < BlockSize * j
    <3>1. kind = "BMW"
      BY <2>2, <1>1, <1>3
    <3>2. BlockOf(p) \in Blocks /\ p \in BlockPositions(pl, BlockOf(p))
      BY <1>1, PositionInBlock DEF Blocks
    <3>3. pl.w[p] <= bmax'[BlockOf(p)] /\ bmax'[BlockOf(p)] <= listMax'
      BY <3>1, <3>2, <1>2, <1>6, <1>10 DEF BlockBounded
    <3>4. bmax'[BlockOf(p)] \in Nat /\ pl.w[p] \in Nat
      BY <3>2, <1>1, <1>8
    <3> QED
      BY <3>3, <3>4, <1>5
  <2> QED
    BY <2>1, <2>2, <1>1
<1>12. RepsDone'
  BY <1>2, <1>6, <1>7 DEF RepsDone, BlockRep, BlockEnd
<1>13. BoundsSound'
  <2>1. \A b \in Blocks' : rep'[b] = BlockRep(pl, b)'
    BY <1>2, <1>6, <1>7 DEF BlockRep, BlockEnd
  <2> QED
    BY <2>1, <1>2, <1>6, <1>10, <1>11 DEF BoundsSound, BlockBounded
<1>14. BoundsTight'
  BY <1>2, <1>6, <1>10 DEF BoundsTight, BlockBounded
<1> QED
  BY <1>2, <1>9, <1>12, <1>13, <1>14 DEF IInv, Place, MaxOfRun, BlocksDone

\* Every step keeps the invariant.
LEMMA NextInv == IInv /\ [Next]_vars => IInv'
<1> SUFFICES ASSUME IInv, [Next]_vars PROVE IInv'
  OBVIOUS
<1>1. CASE SupportBlock
  BY <1>1, SupportBlockKeepsInv
<1>2. CASE SupportTail
  BY <1>2, SupportTailKeepsInv
<1>3. CASE ScorePosting
  BY <1>3, ScorePostingKeepsInv
<1>4. CASE RankTail
  BY <1>4, RankTailKeepsInv
<1>5. CASE UNCHANGED vars
  BY <1>5 DEF vars, IInv, TypeOK, Place, RepsDone, MaxOfRun, BlocksDone, BlockBounded,
              BoundsSound, BoundsTight, Blocks, BlockRep, BlockEnd, BlockPositions
<1> QED
  BY <1>1, <1>2, <1>3, <1>4, <1>5 DEF Next

\* The invariant always holds.
LEMMA InvAlways == Spec => []IInv
BY InitInv, NextInv, PTL DEF Spec

-----------------------------------------------------------------------------
(* Results.                                                                *)

\* No loop of the construction indexes past the blocks of the list.
THEOREM TypeCorrect == Spec => []TypeOK
<1>1. IInv => TypeOK
  BY DEF IInv
<1> QED
  BY <1>1, InvAlways, PTL

\* The representatives and the maxima a list is stored with are what the
\* query engine takes them for.
THEOREM BoundsAreSound == Spec => []BoundsSound
<1>1. IInv => BoundsSound
  BY DEF IInv
<1> QED
  BY <1>1, InvAlways, PTL

\* No block maximum is higher than the block's own best posting.
THEOREM BoundsAreTight == Spec => []BoundsTight
<1>1. IInv => BoundsTight
  BY DEF IInv
<1> QED
  BY <1>1, InvAlways, PTL

=============================================================================
