----------------------------- MODULE IndexFileProofs -----------------------------
(***************************************************************************)
(* For every block size, every list and every choice of encoded sizes: the *)
(* arrays suffice, blocks do not disturb each other, and decompress_block  *)
(* computes the ids and frequencies of its block.  For every collection:   *)
(* so it is for the lists search_index has loaded from the file            *)
(* build_index wrote, and the dictionary leads to the list of its term.    *)
(***************************************************************************)
EXTENDS IndexFile, SequenceTheorems, WellFoundedInduction, TLAPS

-----------------------------------------------------------------------------
(* Numbers.                                                                *)

\* A non-empty set of naturals has a least element.
LEMMA LeastExists ==
    ASSUME NEW S \in SUBSET Nat, S # {}
    PROVE  \E x \in S : \A y \in S : x <= y
<1> DEFINE R == OpToRel(<, Nat)
<1>1. R = {ss \in Nat \X Nat : ss[1] < ss[2]}
  BY DEF OpToRel
<1>2. IsWellFoundedOn(R, Nat)
  BY NatLessThanWellFounded
<1> HIDE DEF R
<1>3. PICK x \in S : \A y \in S : ~(<<y, x>> \in R)
  BY <1>2, WFMin
<1>4. \A y \in S : (y < x) => <<y, x>> \in R
  BY <1>1
<1>5. \A y \in S : ~(y < x)
  BY <1>3, <1>4
<1>6. \A y \in S : x <= y
  BY <1>5
<1> QED
  BY <1>6

\* Quotient and remainder by the block size.
LEMMA DivMod ==
    ASSUME NEW b \in Nat \ {0}, NEW p \in Nat
    PROVE  /\ p \div b \in Nat
           /\ p % b \in 0 .. b - 1
           /\ p = b * (p \div b) + (p % b)
OBVIOUS

\* Earlier blocks end before later ones start.
LEMMA MulMono ==
    ASSUME NEW b \in Nat \ {0}, NEW p \in Nat, NEW q \in Nat, p < q
    PROVE  b * p + b <= b * q
OBVIOUS

\* A quotient and a remainder determine their number.
LEMMA DivUnique ==
    ASSUME NEW b \in Nat \ {0}, NEW q \in Nat, NEW r \in 0 .. b - 1
    PROVE  (b * q + r) \div b = q /\ (b * q + r) % b = r
OBVIOUS

-----------------------------------------------------------------------------
(* Blocks of a list.                                                       *)

\* The constants are numbers, large enough for the argument about room.
LEMMA BlockSizeType == BlockSize \in Nat \ {0} /\ BlockSize >= 32 /\ Slack \in Nat /\ Slack >= 4
<1>1. BlockSize \in Nat /\ BlockSize > 0 /\ BlockSize % 32 = 0 /\ Slack \in Nat /\ Slack >= 4
  BY CodecAssumption
<1>2. BlockSize >= 32
  BY <1>1
<1> QED
  BY <1>1, <1>2

\* The blocks cover the list, the last one not in vain.
LEMMA NumBlocksFacts ==
    ASSUME size \in Nat
    PROVE  /\ NumBlocks \in Nat
           /\ BlockSize * NumBlocks \in Nat
           /\ size <= BlockSize * NumBlocks
           /\ BlockSize * NumBlocks < size + BlockSize
<1>1. size + BlockSize - 1 \in Nat
  BY BlockSizeType
<1> DEFINE q == (size + BlockSize - 1) \div BlockSize
           r == (size + BlockSize - 1) % BlockSize
<1>2. q \in Nat /\ r \in 0 .. BlockSize - 1 /\ size + BlockSize - 1 = BlockSize * q + r
  BY <1>1, BlockSizeType, DivMod
<1> DEFINE t == BlockSize * q
<1>3. t \in Nat
  BY <1>2, BlockSizeType
<1> HIDE DEF t
<1>4. size + BlockSize - 1 = t + r
  BY <1>2 DEF t
<1>5. size <= t /\ t < size + BlockSize
  BY <1>2, <1>3, <1>4, BlockSizeType
<1> QED
  BY <1>2, <1>3, <1>5 DEF NumBlocks, t

\* Block b exists exactly when the list has a posting number BlockSize * b.
LEMMA BlockExists ==
    ASSUME size \in Nat, NEW b \in Nat
    PROVE  /\ BlockSize * b \in Nat
           /\ b \in 0 .. NumBlocks - 1 <=> BlockSize * b < size
<1>1. BlockSize * b \in Nat
  BY BlockSizeType
<1>2. CASE b < NumBlocks
  <2>1. BlockSize * b + BlockSize <= BlockSize * NumBlocks
    BY <1>2, NumBlocksFacts, BlockSizeType, MulMono
  <2>2. BlockSize * b < size
    <3> DEFINE s == BlockSize * b  t == BlockSize * NumBlocks
    <3>1. s \in Nat /\ t \in Nat /\ s + BlockSize <= t /\ t < size + BlockSize
      BY <1>1, <2>1, NumBlocksFacts
    <3> HIDE DEF s, t
    <3>2. s < size
      BY <3>1, BlockSizeType
    <3> QED
      BY <3>2 DEF s
  <2> QED
    BY <1>1, <1>2, <2>2, NumBlocksFacts
<1>3. CASE NumBlocks <= b
  <2>1. BlockSize * NumBlocks <= BlockSize * b
    <3>1. CASE NumBlocks = b
      BY <3>1, <1>1
    <3>2. CASE NumBlocks < b
      <4>1. BlockSize * NumBlocks + BlockSize <= BlockSize * b
        BY <3>2, NumBlocksFacts, BlockSizeType, MulMono
      <4> DEFINE s == BlockSize * b  t == BlockSize * NumBlocks
      <4>2. s \in Nat /\ t \in Nat /\ t + BlockSize <= s
        BY <1>1, <4>1, NumBlocksFacts
      <4> HIDE DEF s, t
      <4>3. t <= s
        BY <4>2, BlockSizeType
      <4> QED
        BY <4>3 DEF s, t
    <3> QED
      BY <3>1, <3>2, <1>3, NumBlocksFacts
  <2>2. ~(BlockSize * b < size)
    BY <1>1, <2>1, NumBlocksFacts
  <2> QED
    BY <1>1, <1>3, <2>2, NumBlocksFacts
<1> QED
  BY <1>2, <1>3, NumBlocksFacts

\* The postings of a block are postings of the list, and all but the last
\* block are full.
LEMMA PostingsInFacts ==
    ASSUME size \in Nat, NEW b \in 0 .. NumBlocks - 1
    PROVE  /\ PostingsIn(b) \in 1 .. BlockSize
           /\ BlockSize * b \in Nat
           /\ BlockSize * b + PostingsIn(b) <= size
           /\ b + 1 <= NumBlocks - 1 => PostingsIn(b) = BlockSize
           /\ b = NumBlocks - 1 => BlockSize * b + PostingsIn(b) = size
<1>0. b \in Nat /\ BlockSize * b \in Nat /\ BlockSize * b < size
  BY BlockExists, NumBlocksFacts
<1> DEFINE m == size % BlockSize  d == size \div BlockSize
<1>1. d \in Nat /\ m \in 0 .. BlockSize - 1 /\ size = BlockSize * d + m
  BY BlockSizeType, DivMod
<1>2. CASE b # NumBlocks - 1
  <2>1. PostingsIn(b) = BlockSize
    BY <1>2 DEF PostingsIn
  <2>2. b + 1 \in Nat /\ b + 1 \in 0 .. NumBlocks - 1
    BY <1>0, <1>2, NumBlocksFacts
  <2>3. BlockSize * (b + 1) < size
    BY <2>2, BlockExists
  <2>4. BlockSize * (b + 1) = BlockSize * b + BlockSize
    BY <1>0, BlockSizeType
  <2> HIDE DEF m, d
  <2>5. BlockSize * b + BlockSize <= size
    BY <1>0, <2>3, <2>4, BlockSizeType
  <2> QED
    BY <1>0, <1>2, <2>1, <2>5, BlockSizeType
<1>3. CASE b = NumBlocks - 1 /\ m # 0
  <2>1. PostingsIn(b) = m
    BY <1>3 DEF PostingsIn
  <2>2. NumBlocks = d + 1
    <3>1. m - 1 \in 0 .. BlockSize - 1
      BY <1>1, <1>3, BlockSizeType
    <3>2. BlockSize * (d + 1) = BlockSize * d + BlockSize
      BY <1>1, BlockSizeType
    <3>3. BlockSize * d \in Nat
      BY <1>1, BlockSizeType
    <3> DEFINE t == BlockSize * d
    <3>4. size + BlockSize - 1 = BlockSize * (d + 1) + (m - 1)
      <4> HIDE DEF t, m, d
      <4>1. t \in Nat /\ size = t + m /\ BlockSize * (d + 1) = t + BlockSize
        BY <1>1, <3>2, <3>3 DEF t
      <4> QED
        BY <4>1, <1>1, BlockSizeType
    <3> HIDE DEF m, d
    <3>5. (BlockSize * (d + 1) + (m - 1)) \div BlockSize = d + 1
      <4>1. d + 1 \in Nat /\ BlockSize \in Nat \ {0}
        BY <1>1, BlockSizeType
      <4> DEFINE c == d + 1  r == m - 1
      <4>2. c \in Nat /\ r \in 0 .. BlockSize - 1
        BY <3>1, <4>1
      <4> HIDE DEF c, r
      <4>3. (BlockSize * c + r) \div BlockSize = c
        BY <4>1, <4>2, DivUnique
      <4> QED
        BY <4>3 DEF c, r
    <3> QED
      BY <3>4, <3>5 DEF NumBlocks
  <2> HIDE DEF m, d
  <2>3. b = d
    BY <1>1, <1>3, <2>2
  <2> QED
    BY <1>0, <1>1, <1>3, <2>1, <2>3, NumBlocksFacts, BlockSizeType
<1>4. CASE b = NumBlocks - 1 /\ m = 0
  <2>1. PostingsIn(b) = BlockSize
    BY <1>4 DEF PostingsIn
  <2>2. NumBlocks = d
    <3>1. BlockSize * d \in Nat
      BY <1>1, BlockSizeType
    <3>2. size + BlockSize - 1 = BlockSize * d + (BlockSize - 1) /\ BlockSize - 1 \in 0 .. BlockSize - 1
      BY <1>1, <1>4, <3>1, BlockSizeType
    <3> HIDE DEF d
    <3>3. (BlockSize * d + (BlockSize - 1)) \div BlockSize = d
      BY <1>1, <3>2, BlockSizeType, DivUnique
    <3> QED
      BY <3>2, <3>3 DEF NumBlocks
  <2> HIDE DEF m, d
  <2>3. d = b + 1
    BY <1>1, <1>4, <2>2
  <2>4. BlockSize * (b + 1) = BlockSize * b + BlockSize
    BY <1>0, BlockSizeType
  <2>5. BlockSize * b + BlockSize = size
    BY <1>0, <1>1, <1>4, <2>3, <2>4, BlockSizeType
  <2> QED
    BY <1>0, <1>4, <2>1, <2>5, NumBlocksFacts, BlockSizeType
<1> QED
  BY <1>2, <1>3, <1>4

PostingsFit ==
    size \in Nat =>
        /\ NumBlocks \in Nat
        /\ \A b \in 0 .. NumBlocks - 1 :
            /\ b \in Nat /\ BlockSize * b \in Nat
            /\ PostingsIn(b) \in Nat /\ PostingsIn(b) \in 1 .. BlockSize
            /\ \A k \in 0 .. PostingsIn(b) - 1 : BlockSize * b + k \in 0 .. size - 1
            /\ BlockSize * b + PostingsIn(b) - 1 \in 0 .. size - 1

\* The postings of a block are in the list and at most BlockSize,
LEMMA PostingsOfBlocks == PostingsFit
<1> SUFFICES ASSUME size \in Nat, NEW b \in 0 .. NumBlocks - 1
             PROVE  /\ b \in Nat /\ BlockSize * b \in Nat
                    /\ PostingsIn(b) \in Nat /\ PostingsIn(b) \in 1 .. BlockSize
                    /\ \A k \in 0 .. PostingsIn(b) - 1 : BlockSize * b + k \in 0 .. size - 1
                    /\ BlockSize * b + PostingsIn(b) - 1 \in 0 .. size - 1
  BY NumBlocksFacts DEF PostingsFit
<1> DEFINE t == BlockSize * b  q == PostingsIn(b)
<1>1. t \in Nat /\ q \in 1 .. BlockSize /\ t + q <= size
  BY PostingsInFacts
<1>2. b \in Nat
  BY NumBlocksFacts
<1> HIDE DEF t, q
<1>3. q \in Nat /\ BlockSize \in Nat
  BY <1>1, BlockSizeType
<1>4. t + q - 1 \in 0 .. size - 1
  BY <1>1, <1>3
<1>5. \A k \in 0 .. q - 1 : t + k \in 0 .. size - 1
  BY <1>1, <1>3
<1> QED
  BY <1>1, <1>2, <1>3, <1>4, <1>5 DEF t, q

\* in the next state as in this.
LEMMA PostingsOfBlocksNext == PostingsFit'
BY PostingsOfBlocks, PTL

\* The integers given to the codec are those of one block.
LEMMA BlockCountFacts ==
    ASSUME size \in Nat, NEW b \in Nat, done = BlockSize * b, done < size
    PROVE  /\ BlockCount \in 1 .. BlockSize
           /\ done + BlockSize > size => done + BlockCount = size
           /\ done + BlockSize <= size => BlockCount = BlockSize
<1>1. done \in Nat
  BY BlockSizeType
<1>2. CASE done + BlockSize > size
  <2> DEFINE r == size - done
  <2>1. r \in 0 .. BlockSize - 1 /\ r > 0 /\ size = BlockSize * b + r
    BY <1>1, <1>2, BlockSizeType
  <2> HIDE DEF r
  <2>2. (BlockSize * b + r) % BlockSize = r
    BY <2>1, BlockSizeType, DivUnique
  <2>3. BlockCount = r
    BY <1>2, <2>1, <2>2 DEF BlockCount
  <2>4. done + r = size
    BY <1>1 DEF r
  <2> QED
    BY <1>1, <1>2, <2>1, <2>3, <2>4, BlockSizeType
<1>3. CASE done + BlockSize <= size
  BY <1>1, <1>3, BlockSizeType DEF BlockCount
<1> QED
  BY <1>1, <1>2, <1>3, BlockSizeType

\* Rounding up to words and to four of them.
LEMMA NextOffsetFacts ==
    ASSUME NEW x \in Nat, x % 4 = 0, NEW bytes \in Nat
    PROVE  /\ Words(bytes) \in Nat
           /\ bytes > 0 => Words(bytes) > 0
           /\ NextOffset(x, bytes) \in Nat
           /\ NextOffset(x, bytes) % 4 = 0
           /\ x + Words(bytes) <= NextOffset(x, bytes)
           /\ 4 * NextOffset(x, bytes) <= 4 * x + bytes + 15
  BY DEF Words, NextOffset, Aligned

-----------------------------------------------------------------------------
(* The inductive invariant.                                                *)

Working == {"simd", "scalar", "decoded"}

TypeInv ==
    /\ size \in Nat
    /\ ids \in [0 .. size - 1 -> Nat]
    /\ freqs \in [0 .. size - 1 -> Nat]
    /\ mode \in {"idle", "compress", "built"} \cup Working
    /\ offset \in [Streams -> Nat]
    /\ mem = [s \in Streams |-> mem[s]]
    /\ \A b \in 0 .. NumBlocks - 1 :
          /\ b \in DOMAIN block
          /\ block[b] \in [max : Nat, at : [Streams -> Nat], bytes : [Streams -> Int]]

\* Whole blocks are encoded until the list is at its end.
Progress ==
    /\ done \in Nat
    /\ mode = "compress" => done = BlockSize * (done \div BlockSize)
    /\ mode \notin {"idle", "compress"} => size <= done

\* A full block takes at most two words per posting; only the last one can
\* take four more.
OffsetsBounded ==
    \A s \in Streams :
        /\ offset[s] % 4 = 0
        /\ offset[s] <= (IF mode = "compress" /\ done <= size THEN 2 * done ELSE 2 * size + 4)
        /\ DOMAIN mem[s] \subseteq 0 .. offset[s] - 1

\* What is encoded ends before the next offset.
BlocksEnd ==
    \A b \in 0 .. NumBlocks - 1, s \in Streams :
        BlockSize * b < done =>
            block[b].at[s] + Words(block[b].bytes[s]) <= offset[s]

LastIds ==
    \A b \in 0 .. NumBlocks - 1 :
        block[b].max = ids[BlockSize * b + PostingsIn(b) - 1]

\* The counters of decompress_block.
Counters ==
    mode \in Working =>
        /\ blk \in 0 .. NumBlocks - 1
        /\ i \in Nat
        /\ mode = "simd" => 4 * i <= PostingsIn(blk)
        /\ mode # "simd" => i <= PostingsIn(blk)
        /\ prev = [l \in Lanes |-> prev[l]]

IInv ==
    /\ TypeInv /\ Progress /\ OffsetsBounded /\ BlocksEnd /\ LastIds
    /\ BlocksIntact /\ Counters /\ DecodesBlock

-----------------------------------------------------------------------------
(* Building the list.                                                      *)

\* The invariant holds at first.
LEMMA InitInv == Init => IInv
<1> SUFFICES ASSUME Init PROVE IInv
  OBVIOUS
<1> USE DEF Init
<1>1. size = 0 /\ size \in Nat /\ done = 0 /\ mode = "idle"
  OBVIOUS
<1>2. NumBlocks \in Nat /\ ~(0 \in 0 .. NumBlocks - 1)
  <2>1. BlockSize * 0 = 0
    BY BlockSizeType
  <2> QED
    BY <1>1, <2>1, NumBlocksFacts, BlockExists
<1>3. 0 .. NumBlocks - 1 = {}
  BY <1>2
<1>4. done \in Nat /\ done = BlockSize * (done \div BlockSize)
  <2>1. /\ 0 \div BlockSize \in Nat /\ 0 % BlockSize \in 0 .. BlockSize - 1
        /\ 0 = BlockSize * (0 \div BlockSize) + (0 % BlockSize)
    BY BlockSizeType, DivMod
  <2>2. BlockSize * (0 \div BlockSize) \in Nat
    BY <2>1, BlockSizeType
  <2> QED
    BY <1>1, <2>1, <2>2
<1>5. TypeInv
  BY <1>1, <1>3 DEF TypeInv, Streams
<1>6. OffsetsBounded
  BY <1>1 DEF OffsetsBounded
<1> QED
  BY <1>1, <1>3, <1>4, <1>5, <1>6
     DEF IInv, Progress, BlocksEnd, LastIds, BlocksIntact, Counters, DecodesBlock, Working

\* Building a list keeps the invariant.
LEMMA ConstructKeepsInv ==
    ASSUME IInv, NEW l \in PostingsLists, Construct(l)
    PROVE  IInv'
<1>1. /\ l.size \in Nat \ {0}
      /\ l.ids \in [0 .. l.size - 1 -> Nat]
      /\ l.freqs \in [0 .. l.size - 1 -> Nat]
  BY CodecAssumption DEF IsList
<1>2. /\ size' = l.size /\ ids' = l.ids /\ freqs' = l.freqs /\ mode' = "compress"
      /\ done' = 0 /\ offset' = [s \in Streams |-> 0] /\ block' = BlockSupport'
      /\ mem' = [s \in Streams |-> <<>>]
  BY DEF Construct
<1>3. size' \in Nat
  BY <1>1, <1>2
<1>4. /\ NumBlocks' \in Nat
      /\ \A b \in 0 .. NumBlocks' - 1 :
            /\ BlockSize * b \in Nat
            /\ BlockSize * b + PostingsIn(b)' - 1 \in 0 .. l.size - 1
  BY <1>2, <1>3, PostingsOfBlocksNext DEF PostingsFit
<1>5. block' = [b \in 0 .. NumBlocks' - 1 |->
                  [max |-> l.ids[BlockSize * b + PostingsIn(b)' - 1],
                   at |-> [s \in Streams |-> 0], bytes |-> [s \in Streams |-> -1]]]
  BY <1>2 DEF BlockSupport
<1>6. \A b \in 0 .. NumBlocks' - 1 :
          /\ b \in DOMAIN block'
          /\ block'[b] \in [max : Nat, at : [Streams -> Nat], bytes : [Streams -> Int]]
  <2> SUFFICES ASSUME NEW b \in 0 .. NumBlocks' - 1
               PROVE  [max |-> l.ids[BlockSize * b + PostingsIn(b)' - 1],
                       at |-> [s \in Streams |-> 0], bytes |-> [s \in Streams |-> -1]]
                      \in [max : Nat, at : [Streams -> Nat], bytes : [Streams -> Int]]
    BY <1>5
  <2>1. l.ids[BlockSize * b + PostingsIn(b)' - 1] \in Nat
    BY <1>1, <1>4
  <2> QED
    BY <2>1
<1>7. TypeInv'
  BY <1>1, <1>2, <1>3, <1>6 DEF TypeInv
<1>8. done' \in Nat /\ done' = BlockSize * (done' \div BlockSize)
  <2>1. /\ 0 \div BlockSize \in Nat /\ 0 % BlockSize \in 0 .. BlockSize - 1
        /\ 0 = BlockSize * (0 \div BlockSize) + (0 % BlockSize)
    BY BlockSizeType, DivMod
  <2>2. BlockSize * (0 \div BlockSize) \in Nat
    BY <2>1, BlockSizeType
  <2> QED
    BY <1>2, <2>1, <2>2
<1>9. Progress'
  BY <1>2, <1>8 DEF Progress
<1>10. OffsetsBounded'
  BY <1>1, <1>2 DEF OffsetsBounded
<1>11. BlocksEnd' /\ BlocksIntact'
  <2>1. \A b \in 0 .. NumBlocks' - 1 : ~(BlockSize * b < done')
    <3> TAKE b \in 0 .. NumBlocks' - 1
    <3> DEFINE t == BlockSize * b
    <3>1. t \in Nat
      BY <1>4
    <3> HIDE DEF t
    <3>2. ~(t < done')
      BY <1>2, <3>1
    <3> QED
      BY <3>2 DEF t
  <2> QED
    BY <2>1 DEF BlocksEnd, BlocksIntact
<1>12. LastIds'
  BY <1>2, <1>5 DEF LastIds
<1>13. Counters' /\ DecodesBlock'
  BY <1>2 DEF Counters, DecodesBlock, Working
<1> QED
  BY <1>7, <1>9, <1>10, <1>11, <1>12, <1>13 DEF IInv

\* What one turn of the loop does to one of the arrays.
LEMMA TurnOfLoop ==
    ASSUME IInv, mode = "compress", done < size,
           NEW s \in Streams, NEW bytes \in Nat \ {0}, bytes <= 5 * BlockCount
    PROVE  LET b == done \div BlockSize
           IN  /\ NextOffset(offset[s], bytes) \in Nat
               /\ NextOffset(offset[s], bytes) % 4 = 0
               /\ NextOffset(offset[s], bytes)
                     <= (IF done + BlockSize <= size THEN 2 * (done + BlockSize)
                         ELSE 2 * size + 4)
               /\ offset[s] + Words(bytes) <= NextOffset(offset[s], bytes)
               /\ DOMAIN Encode(s, b, bytes) \subseteq 0 .. NextOffset(offset[s], bytes) - 1
<1> DEFINE b == done \div BlockSize  x == offset[s]  y == NextOffset(offset[s], bytes)
<1>1. x \in Nat /\ x % 4 = 0 /\ size \in Nat /\ done \in Nat /\ done = BlockSize * b
  BY DEF IInv, TypeInv, OffsetsBounded, Progress
<1>2. x <= 2 * done /\ DOMAIN mem[s] \subseteq 0 .. x - 1
  BY <1>1 DEF IInv, OffsetsBounded
<1>3. b \in Nat
  BY <1>1, BlockSizeType, DivMod
<1>4. /\ BlockCount \in 1 .. BlockSize
      /\ done + BlockSize > size => done + BlockCount = size
      /\ done + BlockSize <= size => BlockCount = BlockSize
  BY <1>1, <1>3, BlockCountFacts
<1>5. /\ Words(bytes) \in Nat /\ y \in Nat /\ y % 4 = 0
      /\ x + Words(bytes) <= y /\ 4 * y <= 4 * x + bytes + 15
  BY <1>1, NextOffsetFacts
<1>6. y <= (IF done + BlockSize <= size THEN 2 * (done + BlockSize) ELSE 2 * size + 4)
  <2> HIDE DEF x, y, b
  <2> DEFINE c == BlockCount
  <2>1. c \in Nat /\ c >= 1 /\ BlockSize \in Nat /\ BlockSize >= 32 /\ bytes \in Nat
        /\ bytes <= 5 * c
    BY <1>4, BlockSizeType
  <2> HIDE DEF c
  <2>2. CASE done + BlockSize <= size
    <3>1. c = BlockSize
      BY <1>4, <2>2 DEF c
    <3> QED
      BY <1>1, <1>2, <1>5, <2>1, <2>2, <3>1
  <2>3. CASE done + BlockSize > size
    <3>1. done + c = size
      BY <1>4, <2>3 DEF c
    <3> QED
      BY <1>1, <1>2, <1>5, <2>1, <2>3, <3>1
  <2> QED
    BY <1>1, <2>1, <2>2, <2>3
<1>7. DOMAIN Encode(s, b, bytes) \subseteq 0 .. y - 1
  <2>1. DOMAIN Encode(s, b, bytes) = DOMAIN mem[s] \cup x .. x + Words(bytes) - 1
    BY DEF Encode
  <2> HIDE DEF x, y, b
  <2> QED
    BY <1>1, <1>2, <1>5, <2>1
<1> QED
  BY <1>5, <1>6, <1>7

\* The room is enough for what the offsets can be.
LEMMA WithinRoom ==
    ASSUME size \in Nat, NEW d \in Nat, NEW x \in Nat,
           x <= (IF d <= size THEN 2 * d ELSE 2 * size + 4)
    PROVE  x <= RoomFor /\ ~(x > RoomFor)
<1>1. x <= 2 * size + 4
  OBVIOUS
<1> QED
  BY <1>1, BlockSizeType DEF RoomFor

\* Writing a block keeps the invariant: it ends in the room there is and touches no other.
LEMMA CompressBlockKeepsInv ==
    ASSUME IInv, CompressBlock
    PROVE  IInv'
<1> DEFINE b0 == done \div BlockSize
<1>0. size \in Nat /\ done \in Nat /\ done' = done + BlockSize /\ done' \in Nat
  <2>1. size \in Nat /\ done \in Nat /\ BlockSize \in Nat
    BY BlockSizeType DEF IInv, TypeInv, Progress
  <2>2. done' = done + BlockSize
    BY DEF CompressBlock
  <2> QED
    BY <2>1, <2>2
<1>1. mode = "compress" /\ done < size
  BY DEF CompressBlock
<1>2. PICK bytes \in [Streams -> ByteSizes] :
          /\ \A s \in Streams : bytes[s] <= 5 * BlockCount
          /\ mem' = [s \in Streams |-> Encode(s, b0, bytes[s])]
          /\ offset' = [s \in Streams |-> NextOffset(offset[s], bytes[s])]
          /\ block' = [block EXCEPT ![b0].at = offset, ![b0].bytes = bytes]
  BY DEF CompressBlock
<1>3. /\ done' = done + BlockSize
      /\ mode' = IF \E s \in Streams : offset'[s] > RoomFor THEN "no room" ELSE mode
      /\ UNCHANGED <<size, ids, freqs, blk, i, prev, buf, fbuf>>
  BY DEF CompressBlock, input, decoded
<1>4. \A s \in Streams : bytes[s] \in Nat \ {0}
  BY CodecAssumption
<1>5. /\ size \in Nat /\ done \in Nat /\ done = BlockSize * b0 /\ b0 \in Nat
      /\ b0 \in 0 .. NumBlocks - 1
  <2>1. size \in Nat /\ done \in Nat /\ done = BlockSize * b0
    BY <1>1 DEF IInv, TypeInv, Progress
  <2>2. b0 \in Nat
    BY <2>1, BlockSizeType, DivMod
  <2> QED
    BY <1>1, <2>1, <2>2, BlockExists
<1>6. \A s \in Streams :
          /\ offset'[s] \in Nat /\ offset'[s] % 4 = 0
          /\ offset'[s] <= (IF done' <= size THEN 2 * done' ELSE 2 * size + 4)
          /\ offset[s] + Words(bytes[s]) <= offset'[s]
          /\ DOMAIN mem'[s] \subseteq 0 .. offset'[s] - 1
  BY <1>1, <1>2, <1>3, <1>4, TurnOfLoop
<1> HIDE DEF b0
<1>7. mode' = "compress"
  <2> SUFFICES ASSUME NEW s \in Streams PROVE ~(offset'[s] > RoomFor)
    BY <1>1, <1>3
  <2>1. offset'[s] \in Nat
        /\ offset'[s] <= (IF done' <= size THEN 2 * done' ELSE 2 * size + 4)
    BY <1>6
  <2> QED
    BY <1>0, <2>1, WithinRoom
<1>8. NumBlocks' = NumBlocks /\ \A b : PostingsIn(b)' = PostingsIn(b)
  BY <1>3 DEF NumBlocks, PostingsIn
<1>9. \A s, b : Content(s, b)' = Content(s, b)
  BY <1>3, <1>8 DEF Content, Delta
<1>10. /\ \A b \in 0 .. NumBlocks - 1 :
             /\ b \in DOMAIN block
             /\ block[b] \in [max : Nat, at : [Streams -> Nat], bytes : [Streams -> Int]]
       /\ offset \in [Streams -> Nat]
  BY DEF IInv, TypeInv
<1>11. /\ \A b \in 0 .. NumBlocks - 1 :
             /\ b \in DOMAIN block'
             /\ block'[b] \in [max : Nat, at : [Streams -> Nat], bytes : [Streams -> Int]]
       /\ \A b \in 0 .. NumBlocks - 1 :
             /\ block'[b].max = block[b].max
             /\ b # b0 => block'[b] = block[b]
       /\ block'[b0].at = offset /\ block'[b0].bytes = bytes
  <2>1. bytes \in [Streams -> Int]
    BY <1>4
  <2> QED
    BY <1>2, <1>5, <1>10, <2>1
<1>12. TypeInv'
  <2>1. offset' \in [Streams -> Nat]
    BY <1>2, <1>6
  <2>2. mem' = [s \in Streams |-> mem'[s]]
    BY <1>2
  <2> QED
    BY <1>3, <1>7, <1>8, <1>11, <2>1, <2>2 DEF IInv, TypeInv
<1>13. Progress'
  <2>1. BlockSize * (b0 + 1) = BlockSize * b0 + BlockSize /\ b0 + 1 \in Nat
    BY <1>5, BlockSizeType
  <2>2. done' = BlockSize * (b0 + 1) /\ done' \in Nat
    <3>1. done' = done + BlockSize /\ done' \in Nat
      BY <1>0
    <3>2. BlockSize * (b0 + 1) = done + BlockSize
      BY <1>5, <2>1
    <3> QED
      BY <3>1, <3>2
  <2>3. (BlockSize * (b0 + 1) + 0) \div BlockSize = b0 + 1
    BY <2>1, BlockSizeType, DivUnique
  <2>4. BlockSize * (b0 + 1) + 0 = BlockSize * (b0 + 1)
    BY <2>2
  <2> QED
    BY <1>7, <2>2, <2>3, <2>4 DEF Progress
<1>14. OffsetsBounded'
  BY <1>3, <1>6, <1>7 DEF OffsetsBounded
<1>15. LastIds'
  BY <1>3, <1>8, <1>11 DEF IInv, LastIds
<1>16. \A b \in 0 .. NumBlocks - 1 :
          BlockSize * b < done' => b = b0 \/ (b # b0 /\ BlockSize * b < done)
  <2> SUFFICES ASSUME NEW b \in 0 .. NumBlocks - 1, BlockSize * b < done', b # b0
               PROVE  BlockSize * b < done
    OBVIOUS
  <2>1. b \in Nat /\ BlockSize * b \in Nat /\ BlockSize \in Nat \ {0}
    BY <1>5, PostingsOfBlocks, BlockSizeType DEF PostingsFit
  <2>2. b < b0 => BlockSize * b + BlockSize <= BlockSize * b0
    BY <1>5, <2>1, MulMono
  <2>3. b0 < b => BlockSize * b0 + BlockSize <= BlockSize * b
    BY <1>5, <2>1, MulMono
  <2> DEFINE t == BlockSize * b  t0 == BlockSize * b0
  <2>4. t \in Nat /\ done = t0 /\ t0 \in Nat /\ t < done + BlockSize
    BY <1>3, <1>5, <2>1
  <2>5. (b < b0 => t + BlockSize <= t0) /\ (b0 < b => t0 + BlockSize <= t)
    BY <2>2, <2>3
  <2> HIDE DEF t, t0
  <2>6. t < done
    BY <1>5, <2>1, <2>4, <2>5
  <2> QED
    BY <2>6 DEF t
<1>17. BlocksEnd'
  <2> SUFFICES ASSUME NEW b \in 0 .. NumBlocks - 1, NEW s \in Streams,
                      BlockSize * b < done'
               PROVE  block'[b].at[s] + Words(block'[b].bytes[s]) <= offset'[s]
    BY <1>8 DEF BlocksEnd, Words
  <2>1. CASE b = b0
    BY <1>6, <1>11, <2>1
  <2>2. CASE b # b0 /\ BlockSize * b < done
    <3>1. block[b].at[s] + Words(block[b].bytes[s]) <= offset[s]
      BY <2>2 DEF IInv, BlocksEnd
    <3>2. offset[s] + Words(bytes[s]) <= offset'[s] /\ Words(bytes[s]) \in Nat
          /\ offset'[s] \in Nat /\ offset[s] \in Nat
      BY <1>4, <1>6, <1>10 DEF Words
    <3>3. block[b].at[s] \in Nat /\ block[b].bytes[s] \in Int
      BY <1>10
    <3>4. Words(block[b].bytes[s]) \in Int
      BY <3>3 DEF Words
    <3> QED
      BY <1>11, <2>2, <3>1, <3>2, <3>3, <3>4
  <2> QED
    BY <1>16, <2>1, <2>2
<1>18. BlocksIntact'
  <2> SUFFICES ASSUME NEW b \in 0 .. NumBlocks - 1, NEW s \in Streams,
                      BlockSize * b < done'
               PROVE  /\ block'[b].at[s] % 4 = 0
                      /\ block'[b].bytes[s] > 0
                      /\ \A k \in 0 .. Words(block'[b].bytes[s]) - 1 :
                            /\ block'[b].at[s] + k \in DOMAIN mem'[s]
                            /\ mem'[s][block'[b].at[s] + k]
                                  = [data |-> Content(s, b), part |-> k]
    BY <1>8, <1>9 DEF BlocksIntact, Intact, Words
  <2>0. offset[s] \in Nat /\ DOMAIN mem[s] \subseteq 0 .. offset[s] - 1
    BY <1>10 DEF IInv, OffsetsBounded
  <2>1. CASE b = b0
    <3>1. block'[b].at[s] = offset[s] /\ block'[b].bytes[s] = bytes[s]
      BY <1>11, <2>1
    <3>2. offset[s] % 4 = 0 /\ bytes[s] > 0
      BY <1>4 DEF IInv, OffsetsBounded
    <3>3. ASSUME NEW k \in 0 .. Words(bytes[s]) - 1
          PROVE  /\ offset[s] + k \in DOMAIN mem'[s]
                 /\ mem'[s][offset[s] + k] = [data |-> Content(s, b), part |-> k]
      <4>1. Words(bytes[s]) \in Nat /\ k \in Nat
        BY <1>4 DEF Words
      <4>2. /\ offset[s] + k \in offset[s] .. offset[s] + Words(bytes[s]) - 1
            /\ offset[s] + k >= offset[s] /\ (offset[s] + k) - offset[s] = k
        BY <2>0, <4>1
      <4>3. mem'[s] = Encode(s, b, bytes[s])
        BY <1>2, <2>1
      <4> QED
        BY <4>2, <4>3 DEF Encode
    <3> QED
      BY <3>1, <3>2, <3>3
  <2>2. CASE b # b0 /\ BlockSize * b < done
    <3>1. /\ block[b].at[s] % 4 = 0 /\ block[b].bytes[s] > 0
          /\ \A k \in 0 .. Words(block[b].bytes[s]) - 1 :
                /\ block[b].at[s] + k \in DOMAIN mem[s]
                /\ mem[s][block[b].at[s] + k] = [data |-> Content(s, b), part |-> k]
      BY <2>2 DEF IInv, BlocksIntact, Intact
    <3>2. block'[b] = block[b]
      BY <1>11, <2>2
    <3>3. ASSUME NEW w \in DOMAIN mem[s]
          PROVE  w \in DOMAIN mem'[s] /\ mem'[s][w] = mem[s][w]
      <4>1. w \in 0 .. offset[s] - 1 /\ ~(w >= offset[s])
        BY <2>0
      <4>2. mem'[s] = Encode(s, b0, bytes[s])
        BY <1>2
      <4> QED
        BY <4>1, <4>2 DEF Encode
    <3> QED
      BY <3>1, <3>2, <3>3
  <2> QED
    BY <1>16, <2>1, <2>2
<1>19. Counters' /\ DecodesBlock'
  BY <1>7 DEF Counters, DecodesBlock, Working
<1> QED
  BY <1>12, <1>13, <1>14, <1>15, <1>17, <1>18, <1>19 DEF IInv

\* What is left of the invariant when the list is not touched.
LEMMA DecodingKeepsList ==
    ASSUME IInv, UNCHANGED <<input, compressed>>,
           mode \notin {"idle", "compress"}, mode' \in {"built"} \cup Working
    PROVE  /\ TypeInv' /\ Progress' /\ OffsetsBounded' /\ BlocksEnd' /\ LastIds'
           /\ BlocksIntact'
           /\ NumBlocks' = NumBlocks
           /\ \A b : PostingsIn(b)' = PostingsIn(b)
           /\ \A s, b : Content(s, b)' = Content(s, b)
<1>1. UNCHANGED <<size, ids, freqs, done, offset, block, mem>>
  BY DEF input, compressed
<1>2. NumBlocks' = NumBlocks /\ \A b : PostingsIn(b)' = PostingsIn(b)
  BY <1>1 DEF NumBlocks, PostingsIn
<1>3. \A s, b : Content(s, b)' = Content(s, b)
  BY <1>1, <1>2 DEF Content, Delta
<1>4. TypeInv'
  BY <1>1, <1>2 DEF IInv, TypeInv
<1>5. Progress'
  BY <1>1 DEF IInv, Progress, Working
<1>6. OffsetsBounded'
  BY <1>1 DEF IInv, OffsetsBounded, Working
<1>7. BlocksEnd'
  BY <1>1, <1>2 DEF IInv, BlocksEnd, Words
<1>8. LastIds'
  BY <1>1, <1>2 DEF IInv, LastIds
<1>9. BlocksIntact'
  BY <1>1, <1>2, <1>3 DEF IInv, BlocksIntact, Intact, Words
<1> QED
  BY <1>2, <1>3, <1>4, <1>5, <1>6, <1>7, <1>8, <1>9

\* The end of the loop over the blocks keeps the invariant.
LEMMA FinishCompressKeepsInv ==
    ASSUME IInv, FinishCompress
    PROVE  IInv'
<1>1. /\ mode = "compress" /\ done >= size /\ mode' = "built"
      /\ UNCHANGED <<size, ids, freqs, done, offset, block, mem>>
  BY DEF FinishCompress, input, compressed
<1>2. NumBlocks' = NumBlocks /\ \A b : PostingsIn(b)' = PostingsIn(b)
  BY <1>1 DEF NumBlocks, PostingsIn
<1>3. \A s, b : Content(s, b)' = Content(s, b)
  BY <1>1, <1>2 DEF Content, Delta
<1>4. TypeInv'
  BY <1>1, <1>2 DEF IInv, TypeInv
<1>5. Progress'
  BY <1>1 DEF IInv, Progress, TypeInv
<1>6. OffsetsBounded'
  BY <1>1 DEF IInv, OffsetsBounded, TypeInv, Progress
<1>7. BlocksEnd'
  BY <1>1, <1>2 DEF IInv, BlocksEnd, Words
<1>8. LastIds'
  BY <1>1, <1>2 DEF IInv, LastIds
<1>9. BlocksIntact'
  BY <1>1, <1>2, <1>3 DEF IInv, BlocksIntact, Intact, Words
<1>10. Counters' /\ DecodesBlock'
  BY <1>1 DEF Counters, DecodesBlock, Working
<1> QED
  BY <1>4, <1>5, <1>6, <1>7, <1>8, <1>9, <1>10 DEF IInv

-----------------------------------------------------------------------------
(* Decoding a block.                                                       *)

\* The words of a block of a finished list are all there.
LEMMA DecodeGivesContent ==
    ASSUME IInv, mode \notin {"idle", "compress"},
           NEW b \in 0 .. NumBlocks - 1, NEW s \in Streams
    PROVE  DecodeArray(s, b) = Content(s, b)
<1>1. size \in Nat /\ done \in Nat /\ size <= done
  BY DEF IInv, TypeInv, Progress
<1>2. b \in Nat /\ BlockSize * b \in Nat /\ BlockSize * b < size
  BY <1>1, PostingsOfBlocks, BlockExists DEF PostingsFit
<1>3. BlockSize * b < done
  <2> DEFINE t == BlockSize * b
  <2>1. t \in Nat /\ t < size
    BY <1>2
  <2> HIDE DEF t
  <2>2. t < done
    BY <1>1, <2>1
  <2> QED
    BY <2>2 DEF t
<1>4. block[b].bytes[s] > 0 /\ Intact(s, b, Content(s, b))
  BY <1>3 DEF IInv, BlocksIntact
<1>5. block[b].bytes[s] \in Int /\ block[b].at[s] \in Nat
  BY DEF IInv, TypeInv
<1>6. 0 \in 0 .. Words(block[b].bytes[s]) - 1
  BY <1>4, <1>5 DEF Words
<1>7. /\ block[b].at[s] + 0 \in DOMAIN mem[s]
      /\ mem[s][block[b].at[s] + 0] = [data |-> Content(s, b), part |-> 0]
  BY <1>4, <1>6 DEF Intact
<1>8. block[b].at[s] + 0 = block[b].at[s]
  BY <1>5
<1>9. block[b].at[s] \in DOMAIN mem[s] /\ mem[s][block[b].at[s]].data = Content(s, b)
  BY <1>7, <1>8
<1> QED
  BY <1>4, <1>9 DEF DecodeArray

\* The differences of a block are integers of the right number.
LEMMA ContentOfIds ==
    ASSUME IInv, NEW b \in 0 .. NumBlocks - 1
    PROVE  /\ DOMAIN Content("id", b) = 0 .. PostingsIn(b) - 1
           /\ \A k \in 0 .. PostingsIn(b) - 1 :
                  Content("id", b)[k] = Delta(BlockSize * b + k)
  BY DEF Content

\* Number, id before and difference of a posting of a block.
LEMMA PostingOfBlock ==
    ASSUME IInv, NEW b \in 0 .. NumBlocks - 1, NEW k \in 0 .. PostingsIn(b) - 1,
           NEW p, p = BlockSize * b + k
    PROVE  /\ p \in Nat
           /\ ids[p] \in Nat
           /\ p # 0 => ids[p - 1] \in Nat
           /\ Delta(p) = ids[p] - (IF p = 0 THEN 0 ELSE ids[p - 1])
<1>1. size \in Nat /\ ids \in [0 .. size - 1 -> Nat]
  BY DEF IInv, TypeInv
<1>2. p \in 0 .. size - 1
  BY <1>1, PostingsOfBlocks DEF PostingsFit
<1>3. p \in Nat /\ ids[p] \in Nat /\ (p # 0 => p - 1 \in 0 .. size - 1)
  BY <1>1, <1>2
<1>4. p # 0 => ids[p - 1] \in Nat
  BY <1>1, <1>3
<1>5. Delta(p) = ids[p] - (IF p = 0 THEN 0 ELSE ids[p - 1])
  BY <1>3, <1>4 DEF Delta
<1> QED
  BY <1>3, <1>4, <1>5

\* Decoding the block into the buffer keeps the invariant.
LEMMA BeginDecodeKeepsInv ==
    ASSUME IInv, BeginDecode
    PROVE  IInv'
<1>1. /\ mode \in {"built", "decoded"} /\ mode' = "simd" /\ i' = 0
      /\ UNCHANGED <<input, compressed>>
  BY DEF BeginDecode
<1>2. PICK b \in 0 .. NumBlocks - 1 :
          /\ blk' = b /\ buf' = DecodeArray("id", b)
          /\ prev' = [l \in Lanes |-> IF b # 0 THEN block[b - 1].max ELSE 0]
  BY DEF BeginDecode
<1>3. /\ TypeInv' /\ Progress' /\ OffsetsBounded' /\ BlocksEnd' /\ LastIds'
      /\ BlocksIntact' /\ NumBlocks' = NumBlocks
      /\ \A c : PostingsIn(c)' = PostingsIn(c)
  BY <1>1, DecodingKeepsList DEF Working
<1>4. buf' = Content("id", b)
  BY <1>1, <1>2, DecodeGivesContent DEF Streams
<1> DEFINE first == BlockSize * b
<1>5. b \in Nat /\ first \in Nat /\ PostingsIn(b) \in Nat /\ (b = 0 => first = 0)
      /\ (b # 0 => first # 0) /\ ids' = ids
  <2>1. size \in Nat
    BY DEF IInv, TypeInv
  <2>2. b \in Nat /\ first \in Nat /\ PostingsIn(b) \in Nat
    BY <2>1, PostingsOfBlocks DEF PostingsFit
  <2>3. b = 0 => first = 0
    BY BlockSizeType
  <2>4. 0 < b => BlockSize * 0 + BlockSize <= BlockSize * b
    BY <2>2, BlockSizeType, MulMono
  <2>5. BlockSize * 0 = 0
    BY BlockSizeType
  <2>6. 0 < b => BlockSize <= first
    BY <2>4, <2>5, BlockSizeType
  <2> HIDE DEF first
  <2> QED
    BY <1>1, <2>2, <2>3, <2>6, BlockSizeType DEF input
<1>6. prev'[3] = IF first = 0 THEN 0 ELSE ids[first - 1]
  <2>1. CASE b = 0
    BY <1>2, <1>5, <2>1 DEF Lanes
  <2>2. CASE b # 0
    <3>1. b - 1 \in 0 .. NumBlocks - 1 /\ (b - 1) + 1 <= NumBlocks - 1
      BY <1>5, <2>2, NumBlocksFacts DEF IInv, TypeInv
    <3>2. PostingsIn(b - 1) = BlockSize
      BY <3>1, PostingsInFacts DEF IInv, TypeInv
    <3>3. block[b - 1].max = ids[BlockSize * (b - 1) + BlockSize - 1]
      BY <3>1, <3>2 DEF IInv, LastIds
    <3>4. BlockSize * (b - 1) + BlockSize = first
      BY <1>5, BlockSizeType
    <3>5. prev'[3] = block[b - 1].max
      BY <1>2, <2>2 DEF Lanes
    <3>6. first # 0
      BY <1>5, <2>2
    <3> DEFINE y == BlockSize * (b - 1)
    <3>7. y + BlockSize = first /\ block[b - 1].max = ids[y + BlockSize - 1]
      BY <3>3, <3>4
    <3>8. y \in Int
      BY <1>5, BlockSizeType
    <3> HIDE DEF first, y
    <3>9. y + BlockSize - 1 = first - 1
      BY <3>7, <3>8, BlockSizeType
    <3> QED
      BY <3>5, <3>6, <3>7, <3>9
  <2> QED
    BY <2>1, <2>2
<1>7. Counters'
  BY <1>1, <1>2, <1>3, <1>5 DEF Counters, Working
<1>8. DecodesBlock'
  <2>1. DOMAIN buf' = 0 .. PostingsIn(b) - 1
    BY <1>4, ContentOfIds
  <2>2. ASSUME NEW k \in 0 .. PostingsIn(b) - 1
        PROVE  buf'[k] = Delta(first + k)' /\ ~(k < 4 * 0)
    <3>1. Delta(first + k)' = Delta(first + k)
      BY <1>5 DEF Delta
    <3> QED
      BY <1>4, <3>1, ContentOfIds
  <2>3. first + 4 * 0 = first
    BY <1>5
  <2> HIDE DEF first
  <2>4. prev'[3] = IF first + 4 * 0 = 0 THEN 0 ELSE ids'[first + 4 * 0 - 1]
    BY <1>5, <1>6, <2>3
  <2> QED
    BY <1>1, <1>2, <1>3, <2>1, <2>2, <2>4 DEF DecodesBlock, first
<1> QED
  BY <1>3, <1>7, <1>8 DEF IInv

\* What the invariant says of a block being decoded, with its length and the
\* number of its first posting named.
LEMMA DecodingState ==
    ASSUME IInv, mode \in Working, NEW n, NEW first, NEW upTo,
           n = PostingsIn(blk), first = BlockSize * blk,
           upTo = IF mode = "simd" THEN 4 * i ELSE i
    PROVE  /\ n \in Nat /\ first \in Nat /\ i \in Nat /\ upTo \in 0 .. n
           /\ blk \in 0 .. NumBlocks - 1
           /\ DOMAIN buf = 0 .. n - 1
           /\ \A k \in 0 .. n - 1 :
                  /\ buf[k] = IF k < upTo THEN ids[first + k] ELSE Delta(first + k)
                  /\ ids[first + k] \in Nat
                  /\ first + k # 0 => ids[first + k - 1] \in Nat
                  /\ Delta(first + k) = ids[first + k]
                        - (IF first + k = 0 THEN 0 ELSE ids[first + k - 1])
           /\ prev[3] = IF first + upTo = 0 THEN 0 ELSE ids[first + upTo - 1]
           /\ prev = [l \in Lanes |-> prev[l]]
<1>1. size \in Nat /\ blk \in 0 .. NumBlocks - 1 /\ i \in Nat
  BY DEF IInv, TypeInv, Counters
<1>2. n \in Nat /\ first \in Nat
  BY <1>1, PostingsOfBlocks DEF PostingsFit
<1>3. upTo \in 0 .. n
  BY <1>1, <1>2 DEF IInv, Counters
<1>4. /\ DOMAIN buf = 0 .. n - 1
      /\ \A k \in DOMAIN buf :
            buf[k] = IF k < upTo THEN ids[first + k] ELSE Delta(first + k)
      /\ prev[3] = IF first + upTo = 0 THEN 0 ELSE ids[first + upTo - 1]
  BY DEF IInv, DecodesBlock, Working
<1>5. \A k \in 0 .. n - 1 :
          /\ ids[first + k] \in Nat
          /\ first + k # 0 => ids[first + k - 1] \in Nat
          /\ Delta(first + k) = ids[first + k]
                - (IF first + k = 0 THEN 0 ELSE ids[first + k - 1])
  BY <1>1, PostingOfBlock
<1>6. prev = [l \in Lanes |-> prev[l]]
  BY DEF IInv, Counters
<1> QED
  BY <1>1, <1>2, <1>3, <1>4, <1>5, <1>6

\* Four differences summed up, and the running id.
LEMMA FourSums ==
    ASSUME NEW a0 \in Nat, NEW a1 \in Nat, NEW a2 \in Nat, NEW a3 \in Nat, NEW c \in Nat
    PROVE  /\ (a0 - c) + c = a0
           /\ ((a1 - a0) + (a0 - c)) + c = a1
           /\ ((a2 - a1) + (a0 - c) + (a1 - a0)) + c = a2
           /\ (((a3 - a2) + (a1 - a0)) + ((a2 - a1) + (a0 - c))) + c = a3
  OBVIOUS

\* Summing four differences at once keeps the invariant.
LEMMA SimdGroupKeepsInv ==
    ASSUME IInv, SimdGroup
    PROVE  IInv'
<1> DEFINE n == PostingsIn(blk)  first == BlockSize * blk  k0 == 4 * i
<1>1. /\ mode = "simd" /\ i < n \div 4 /\ i' = i + 1 /\ mode' = mode /\ blk' = blk
      /\ UNCHANGED <<input, compressed>>
      /\ prev' = [l \in Lanes |-> LaneSum4(l) + prev[3]]
      /\ buf' = [k \in DOMAIN buf |->
                   IF k \in 4 * i .. 4 * i + 3 THEN prev'[k - 4 * i] ELSE buf[k]]
  BY DEF SimdGroup
<1>2. /\ TypeInv' /\ Progress' /\ OffsetsBounded' /\ BlocksEnd' /\ LastIds'
      /\ BlocksIntact' /\ NumBlocks' = NumBlocks
      /\ \A b : PostingsIn(b)' = PostingsIn(b)
  BY <1>1, DecodingKeepsList DEF Working
<1>3. ids' = ids
  BY <1>1 DEF input
<1>4. mode \in Working
  BY <1>1 DEF Working
<1>5. /\ n \in Nat /\ first \in Nat /\ i \in Nat /\ k0 \in 0 .. n
      /\ blk \in 0 .. NumBlocks - 1
      /\ DOMAIN buf = 0 .. n - 1
      /\ \A k \in 0 .. n - 1 :
            /\ buf[k] = IF k < k0 THEN ids[first + k] ELSE Delta(first + k)
            /\ ids[first + k] \in Nat
            /\ first + k # 0 => ids[first + k - 1] \in Nat
            /\ Delta(first + k) = ids[first + k]
                  - (IF first + k = 0 THEN 0 ELSE ids[first + k - 1])
      /\ prev[3] = IF first + k0 = 0 THEN 0 ELSE ids[first + k0 - 1]
      /\ prev = [l \in Lanes |-> prev[l]]
  BY <1>1, <1>4, DecodingState
<1> HIDE DEF n, first
<1>5a. n \in Nat /\ first \in Nat /\ i \in Nat /\ i < n \div 4
  BY <1>1, <1>5
<1>6. /\ k0 + 4 <= n /\ k0 \in Nat /\ 4 * (i + 1) = k0 + 4
      /\ first \in Nat /\ n \in Nat
  BY <1>5a
<1> DEFINE a(j) == ids[first + (k0 + j)]
<1>7. /\ prev[3] \in Nat
      /\ a(0) \in Nat /\ a(1) \in Nat /\ a(2) \in Nat /\ a(3) \in Nat
      /\ buf[k0] = a(0) - prev[3]
      /\ buf[k0 + 1] = a(1) - a(0) /\ buf[k0 + 2] = a(2) - a(1) /\ buf[k0 + 3] = a(3) - a(2)
  <2> HIDE DEF k0
  <2>1. k0 + 0 = k0 /\ \A j \in 0 .. 3 : k0 + j \in 0 .. n - 1 /\ ~(k0 + j < k0)
    BY <1>6
  <2>2. \A j \in 0 .. 3 : /\ a(j) \in Nat
                          /\ buf[k0 + j] = a(j) - (IF first + (k0 + j) = 0 THEN 0
                                                   ELSE ids[first + (k0 + j) - 1])
    BY <1>5, <2>1
  <2>3. prev[3] \in Nat
    <3>1. k0 \in 0 .. n - 1
      BY <1>6, <1>5
    <3> QED
      BY <1>5, <3>1
  <2>4. buf[k0] = a(0) - prev[3]
    <3>1. buf[k0 + 0] = a(0) - (IF first + (k0 + 0) = 0 THEN 0
                                ELSE ids[first + (k0 + 0) - 1])
      BY <2>2
    <3>2. prev[3] = IF first + k0 = 0 THEN 0 ELSE ids[first + k0 - 1]
      BY <1>5
    <3> QED
      BY <2>1, <3>1, <3>2
  <2>5. \A j \in 1 .. 3 : first + (k0 + j) # 0 /\ first + (k0 + j) - 1 = first + (k0 + (j - 1))
    BY <1>6
  <2>6. \A j \in 1 .. 3 : buf[k0 + j] = a(j) - a(j - 1)
    BY <2>2, <2>5
  <2>7. buf[k0 + 1] = a(1) - a(0) /\ buf[k0 + 2] = a(2) - a(1) /\ buf[k0 + 3] = a(3) - a(2)
    <3>1. 1 - 1 = 0 /\ 2 - 1 = 1 /\ 3 - 1 = 2 /\ {1, 2, 3} \subseteq 1 .. 3
      OBVIOUS
    <3>2. buf[k0 + 1] = a(1) - a(1 - 1) /\ buf[k0 + 2] = a(2) - a(2 - 1)
          /\ buf[k0 + 3] = a(3) - a(3 - 1)
      BY <2>6, <3>1
    <3> QED
      BY <3>1, <3>2
  <2>8. a(0) \in Nat /\ a(1) \in Nat /\ a(2) \in Nat /\ a(3) \in Nat
    BY <2>2
  <2> QED
    BY <2>3, <2>4, <2>7, <2>8
<1>8. /\ prev'[0] = a(0) /\ prev'[1] = a(1) /\ prev'[2] = a(2) /\ prev'[3] = a(3)
      /\ prev' = [l \in Lanes |-> prev'[l]]
  <2> DEFINE a0 == a(0)  a1 == a(1)  a2 == a(2)  a3 == a(3)  c == prev[3]
  <2>1. a0 \in Nat /\ a1 \in Nat /\ a2 \in Nat /\ a3 \in Nat /\ c \in Nat
    BY <1>7
  <2>2. /\ buf[k0] = a0 - c /\ buf[k0 + 1] = a1 - a0
        /\ buf[k0 + 2] = a2 - a1 /\ buf[k0 + 3] = a3 - a2
    BY <1>7
  <2>3. /\ LaneSum2(0) = buf[k0] /\ LaneSum2(1) = buf[k0 + 1]
        /\ LaneSum2(2) = buf[k0 + 2] + buf[k0]
        /\ LaneSum2(3) = buf[k0 + 3] + buf[k0 + 1]
    <3> HIDE DEF a0, a1, a2, a3, c, a
    <3>1. k0 + 0 = k0 /\ k0 + 2 - 2 = k0 /\ k0 + 3 - 2 = k0 + 1
      BY <1>6
    <3>2. buf[k0] \in Int /\ buf[k0 + 1] \in Int
      BY <2>1, <2>2
    <3> QED
      BY <3>1, <3>2 DEF LaneSum2
  <2>4. /\ LaneSum4(0) = LaneSum2(0)
        /\ LaneSum4(1) = LaneSum2(1) + LaneSum2(0)
        /\ LaneSum4(2) = LaneSum2(2) + LaneSum2(1)
        /\ LaneSum4(3) = LaneSum2(3) + LaneSum2(2)
    <3>1. LaneSum2(0) \in Int
      BY <2>1, <2>2, <2>3
    <3> QED
      BY <3>1 DEF LaneSum4
  <2> HIDE DEF a0, a1, a2, a3, c, a, k0
  <2>5. /\ LaneSum4(0) + c = a0 /\ LaneSum4(1) + c = a1
        /\ LaneSum4(2) + c = a2 /\ LaneSum4(3) + c = a3
    BY <2>1, <2>2, <2>3, <2>4
  <2>6. prev' = [l \in Lanes |-> LaneSum4(l) + c]
    BY <1>1 DEF c
  <2>7. prev'[0] = a0 /\ prev'[1] = a1 /\ prev'[2] = a2 /\ prev'[3] = a3
    BY <2>5, <2>6 DEF Lanes
  <2>8. prev' = [l \in Lanes |-> prev'[l]]
    BY <2>6
  <2> QED
    BY <2>7, <2>8 DEF a0, a1, a2, a3
<1>9. Counters'
  <2>1. 4 * i' <= n /\ i' \in Nat
    <3>1. i' = i + 1
      BY <1>1
    <3> QED
      BY <1>6, <1>5a, <3>1
  <2> QED
    BY <1>1, <1>2, <1>5, <1>8, <2>1 DEF Counters, n
<1>10. DOMAIN buf' = 0 .. n - 1
  BY <1>1, <1>5
<1>11. ASSUME NEW k \in 0 .. n - 1
       PROVE  buf'[k] = IF k < k0 + 4 THEN ids[first + k] ELSE Delta(first + k)
  <2>1. buf'[k] = IF k \in k0 .. k0 + 3 THEN prev'[k - k0] ELSE buf[k]
    BY <1>1, <1>5
  <2> HIDE DEF k0
  <2>2. CASE k < k0
    BY <1>5, <1>6, <2>1, <2>2
  <2>3. CASE k \in k0 .. k0 + 3
    <3>1. PICK j \in 0 .. 3 : k = k0 + j /\ k - k0 = j
      <4>1. k - k0 \in 0 .. 3 /\ k = k0 + (k - k0)
        BY <1>6, <2>3
      <4> QED
        BY <4>1
    <3>2. prev'[j] = a(j)
      BY <1>8
    <3>3. k < k0 + 4
      BY <1>6, <3>1
    <3> QED
      BY <2>1, <2>3, <3>1, <3>2, <3>3
  <2>4. CASE k >= k0 + 4
    BY <1>5, <1>6, <2>1, <2>4
  <2> QED
    BY <1>6, <2>2, <2>3, <2>4
<1>12. first + (k0 + 4) # 0 /\ prev'[3] = ids[first + (k0 + 4) - 1]
  <2>1. first + (k0 + 4) - 1 = first + (k0 + 3) /\ first + (k0 + 4) # 0
    <3> HIDE DEF k0
    <3> QED
      BY <1>6
  <2> QED
    BY <1>8, <2>1
<1>13. DecodesBlock'
  <2>1. \A p : Delta(p)' = Delta(p)
    BY <1>3 DEF Delta
  <2>2. 4 * i' = k0 + 4
    BY <1>1, <1>6
  <2> HIDE DEF k0
  <2> QED
    BY <1>1, <1>2, <1>3, <1>10, <1>11, <1>12, <2>1, <2>2 DEF DecodesBlock, n, first
<1> QED
  BY <1>2, <1>9, <1>13 DEF IInv

\* The change to the scalar loop keeps the invariant.
LEMMA EndSimdKeepsInv ==
    ASSUME IInv, EndSimd
    PROVE  IInv'
<1> DEFINE n == PostingsIn(blk)
<1>1. /\ mode = "simd" /\ i >= n \div 4 /\ i' = 4 * i /\ mode' = "scalar"
      /\ UNCHANGED <<input, compressed, blk, prev, buf, fbuf>>
  BY DEF EndSimd
<1>2. /\ TypeInv' /\ Progress' /\ OffsetsBounded' /\ BlocksEnd' /\ LastIds'
      /\ BlocksIntact' /\ NumBlocks' = NumBlocks
      /\ \A b : PostingsIn(b)' = PostingsIn(b)
  BY <1>1, DecodingKeepsList DEF Working
<1>3. UNCHANGED ids
  BY <1>1 DEF input
<1>4. /\ blk \in 0 .. NumBlocks - 1 /\ i \in Nat /\ 4 * i <= n
      /\ prev = [l \in Lanes |-> prev[l]]
  BY <1>1 DEF IInv, Counters, Working
<1>5. Counters'
  BY <1>1, <1>2, <1>4 DEF Counters
<1>6. DecodesBlock'
  <2>1. \A p : Delta(p)' = Delta(p)
    BY <1>3 DEF Delta
  <2> QED
    BY <1>1, <1>2, <1>3, <2>1 DEF IInv, DecodesBlock
<1> QED
  BY <1>2, <1>5, <1>6 DEF IInv

\* Summing one difference keeps the invariant.
LEMMA ScalarStepKeepsInv ==
    ASSUME IInv, ScalarStep
    PROVE  IInv'
<1> DEFINE n == PostingsIn(blk)  first == BlockSize * blk
<1>1. /\ mode = "scalar" /\ i < n /\ i' = i + 1 /\ mode' = mode /\ blk' = blk
      /\ UNCHANGED <<input, compressed>>
      /\ prev' = [prev EXCEPT ![3] = prev[3] + buf[i]]
      /\ buf' = [buf EXCEPT ![i] = prev'[3]]
  BY DEF ScalarStep
<1>2. /\ TypeInv' /\ Progress' /\ OffsetsBounded' /\ BlocksEnd' /\ LastIds'
      /\ BlocksIntact' /\ NumBlocks' = NumBlocks
      /\ \A b : PostingsIn(b)' = PostingsIn(b)
  BY <1>1, DecodingKeepsList DEF Working
<1>3. ids' = ids
  BY <1>1 DEF input
<1>4. /\ n \in Nat /\ first \in Nat /\ i \in Nat
      /\ blk \in 0 .. NumBlocks - 1
      /\ DOMAIN buf = 0 .. n - 1
      /\ \A k \in 0 .. n - 1 :
            /\ buf[k] = IF k < i THEN ids[first + k] ELSE Delta(first + k)
            /\ ids[first + k] \in Nat
            /\ first + k # 0 => ids[first + k - 1] \in Nat
            /\ Delta(first + k) = ids[first + k]
                  - (IF first + k = 0 THEN 0 ELSE ids[first + k - 1])
      /\ prev[3] = IF first + i = 0 THEN 0 ELSE ids[first + i - 1]
      /\ prev = [l \in Lanes |-> prev[l]]
  <2>1. mode \in Working /\ i = IF mode = "simd" THEN 4 * i ELSE i
    BY <1>1 DEF Working
  <2> QED
    BY <2>1, DecodingState
<1> HIDE DEF n, first
<1>5. /\ n \in Nat /\ first \in Nat /\ i \in Nat /\ i < n
      /\ i \in 0 .. n - 1 /\ first + (i + 1) # 0 /\ first + (i + 1) - 1 = first + i
  <2>1. n \in Nat /\ first \in Nat /\ i \in Nat /\ i < n
    BY <1>1, <1>4
  <2> QED
    BY <2>1
<1>6. /\ prev'[3] = ids[first + i] /\ prev' = [l \in Lanes |-> prev'[l]]
  <2>1. prev'[3] = prev[3] + buf[i]
    BY <1>1, <1>4 DEF Lanes
  <2>2. /\ buf[i] = ids[first + i] - (IF first + i = 0 THEN 0 ELSE ids[first + i - 1])
        /\ ids[first + i] \in Nat
        /\ first + i # 0 => ids[first + i - 1] \in Nat
    BY <1>4, <1>5
  <2>3. prev[3] \in Nat
    BY <1>4, <2>2
  <2>4. prev[3] = IF first + i = 0 THEN 0 ELSE ids[first + i - 1]
    BY <1>4
  <2>5. prev'[3] = ids[first + i]
    BY <2>1, <2>2, <2>3, <2>4
  <2>6. prev' = [l \in Lanes |-> prev'[l]]
    BY <1>1, <1>4
  <2> QED
    BY <2>5, <2>6
<1>7. Counters'
  <2>1. i' \in Nat /\ i' <= n
    BY <1>1, <1>5
  <2> QED
    BY <1>1, <1>2, <1>4, <1>6, <2>1 DEF Counters, n
<1>8. /\ DOMAIN buf' = 0 .. n - 1
      /\ \A k \in 0 .. n - 1 :
            buf'[k] = IF k < i + 1 THEN ids[first + k] ELSE Delta(first + k)
  <2>1. DOMAIN buf' = 0 .. n - 1
    BY <1>1, <1>4
  <2>2. ASSUME NEW k \in 0 .. n - 1
        PROVE  buf'[k] = IF k < i + 1 THEN ids[first + k] ELSE Delta(first + k)
    <3>1. buf'[k] = IF k = i THEN ids[first + i] ELSE buf[k]
      BY <1>1, <1>4, <1>6
    <3>2. buf[k] = IF k < i THEN ids[first + k] ELSE Delta(first + k)
      BY <1>4
    <3>3. k < i + 1 <=> (k < i \/ k = i)
      BY <1>5
    <3> QED
      BY <3>1, <3>2, <3>3
  <2> QED
    BY <2>1, <2>2
<1>9. DecodesBlock'
  <2>1. \A p : Delta(p)' = Delta(p)
    BY <1>3 DEF Delta
  <2>2. prev'[3] = IF first + (i + 1) = 0 THEN 0 ELSE ids[first + (i + 1) - 1]
    BY <1>5, <1>6
  <2> QED
    BY <1>1, <1>2, <1>3, <1>8, <2>1, <2>2 DEF DecodesBlock, n, first
<1> QED
  BY <1>2, <1>7, <1>9 DEF IInv

\* Decoding the frequencies keeps the invariant.
LEMMA DecodeFreqsKeepsInv ==
    ASSUME IInv, DecodeFreqs
    PROVE  IInv'
<1> DEFINE n == PostingsIn(blk)
<1>1. /\ mode = "scalar" /\ i >= n /\ mode' = "decoded"
      /\ fbuf' = DecodeArray("freq", blk)
      /\ UNCHANGED <<input, compressed, blk, i, prev, buf>>
  BY DEF DecodeFreqs
<1>2. /\ TypeInv' /\ Progress' /\ OffsetsBounded' /\ BlocksEnd' /\ LastIds'
      /\ BlocksIntact' /\ NumBlocks' = NumBlocks
      /\ \A b : PostingsIn(b)' = PostingsIn(b)
      /\ \A s, b : Content(s, b)' = Content(s, b)
  BY <1>1, DecodingKeepsList DEF Working
<1>3. UNCHANGED ids
  BY <1>1 DEF input
<1>4. /\ blk \in 0 .. NumBlocks - 1 /\ i \in Nat /\ i <= n
      /\ prev = [l \in Lanes |-> prev[l]]
  BY <1>1 DEF IInv, Counters, Working
<1>5. i = n
  <2>1. n \in Nat
    BY <1>4, PostingsOfBlocks DEF IInv, TypeInv, PostingsFit
  <2> QED
    BY <1>1, <1>4, <2>1
<1>6. fbuf' = Content("freq", blk)
  BY <1>1, <1>4, DecodeGivesContent DEF Streams
<1>7. Counters'
  BY <1>1, <1>2, <1>4 DEF Counters
<1>8. DecodesBlock'
  <2>1. \A p : Delta(p)' = Delta(p)
    BY <1>3 DEF Delta
  <2>2. Content("freq", blk)' = Content("freq", blk)
    BY <1>1, <1>2
  <2> QED
    BY <1>1, <1>2, <1>3, <1>5, <1>6, <2>1, <2>2 DEF IInv, DecodesBlock
<1> QED
  BY <1>2, <1>7, <1>8 DEF IInv

-----------------------------------------------------------------------------
\* A stutter keeps the invariant.
LEMMA StutterKeepsInv ==
    ASSUME IInv, UNCHANGED vars
    PROVE  IInv'
<1>1. UNCHANGED <<size, ids, freqs, mode, done, offset, block, mem, blk, i, prev, buf, fbuf>>
  BY DEF vars, input, compressed, decoded
<1>2. NumBlocks' = NumBlocks /\ \A b : PostingsIn(b)' = PostingsIn(b)
  BY <1>1 DEF NumBlocks, PostingsIn
<1>3. /\ \A s, b : Content(s, b)' = Content(s, b)
      /\ \A p : Delta(p)' = Delta(p)
  BY <1>1, <1>2 DEF Content, Delta
<1>4. TypeInv'
  BY <1>1, <1>2 DEF IInv, TypeInv
<1>5. Progress' /\ OffsetsBounded'
  BY <1>1 DEF IInv, Progress, OffsetsBounded
<1>6. BlocksEnd' /\ LastIds'
  BY <1>1, <1>2 DEF IInv, BlocksEnd, LastIds, Words
<1>7. BlocksIntact'
  BY <1>1, <1>2, <1>3 DEF IInv, BlocksIntact, Intact, Words
<1>8. Counters'
  BY <1>1, <1>2 DEF IInv, Counters
<1>9. DecodesBlock'
  <2>1. Content("freq", blk)' = Content("freq", blk)
    BY <1>1, <1>3
  <2> QED
    BY <1>1, <1>2, <1>3, <2>1 DEF IInv, DecodesBlock
<1> QED
  BY <1>4, <1>5, <1>6, <1>7, <1>8, <1>9 DEF IInv

\* The parts of IInv hold in every state.
THEOREM CodecInvariant == Spec => []IInv
<1>1. Init => IInv
  BY InitInv
<1>2. IInv /\ [Next]_vars => IInv'
  <2> SUFFICES ASSUME IInv, [Next]_vars PROVE IInv'
    OBVIOUS
  <2>1. CASE \E l \in PostingsLists : Construct(l)
    BY <2>1, ConstructKeepsInv
  <2>2. CASE CompressBlock
    BY <2>2, CompressBlockKeepsInv
  <2>3. CASE FinishCompress
    BY <2>3, FinishCompressKeepsInv
  <2>4. CASE BeginDecode
    BY <2>4, BeginDecodeKeepsInv
  <2>5. CASE SimdGroup
    BY <2>5, SimdGroupKeepsInv
  <2>6. CASE EndSimd
    BY <2>6, EndSimdKeepsInv
  <2>7. CASE ScalarStep
    BY <2>7, ScalarStepKeepsInv
  <2>8. CASE DecodeFreqs
    BY <2>8, DecodeFreqsKeepsInv
  <2>9. CASE UNCHANGED vars
    BY <2>9, StutterKeepsInv
  <2> QED
    BY <2>1, <2>2, <2>3, <2>4, <2>5, <2>6, <2>7, <2>8, <2>9
       DEF Next, Compress, Decompress
<1> QED
  BY <1>1, <1>2, PTL DEF Spec

\* What is encoded fits in the arrays.
LEMMA InvRoomSuffices == ASSUME IInv PROVE RoomSuffices
<1>1. mode # "no room"
  BY DEF IInv, TypeInv, Working
<1>2. ASSUME NEW s \in Streams PROVE DOMAIN mem[s] \subseteq 0 .. RoomFor - 1
  <2>1. /\ size \in Nat /\ done \in Nat /\ offset[s] \in Nat
        /\ offset[s] <= (IF mode = "compress" /\ done <= size THEN 2 * done ELSE 2 * size + 4)
        /\ DOMAIN mem[s] \subseteq 0 .. offset[s] - 1
    BY DEF IInv, TypeInv, Progress, OffsetsBounded
  <2>2. offset[s] <= RoomFor
    BY <2>1, WithinRoom
  <2>3. RoomFor \in Nat
    BY <2>1, BlockSizeType DEF RoomFor
  <2>4. 0 .. offset[s] - 1 \subseteq 0 .. RoomFor - 1
    <3> DEFINE x == offset[s]  r == RoomFor
    <3>1. x \in Nat /\ r \in Nat /\ x <= r
      BY <2>1, <2>2, <2>3
    <3> HIDE DEF x, r
    <3>2. 0 .. x - 1 \subseteq 0 .. r - 1
      BY <3>1
    <3> QED
      BY <3>2 DEF x, r
  <2> QED
    BY <2>1, <2>4
<1> QED
  BY <1>1, <1>2 DEF RoomSuffices

\* compress_postings_data never runs out of room and never writes behind the
\* arrays, for every list and every slack of at least four words.
THEOREM RoomAlwaysSuffices == Spec => []RoomSuffices
<1>1. IInv => RoomSuffices
  BY InvRoomSuffices
<1> QED
  BY <1>1, CodecInvariant, PTL

\* Every encoded block stays as it was written, at an aligned offset.
THEOREM BlocksStayIntact == Spec => []BlocksIntact
<1>1. IInv => BlocksIntact
  BY DEF IInv
<1> QED
  BY <1>1, CodecInvariant, PTL

\* decompress_block computes the ids and frequencies of its block.
THEOREM DecompressionCorrect == Spec => []DecodesBlock
<1>1. IInv => DecodesBlock
  BY DEF IInv
<1> QED
  BY <1>1, CodecInvariant, PTL

-----------------------------------------------------------------------------
(* Sequences, as functions on 1 .. n.                                      *)

\* s is a sequence of n elements.
IsSeq(s, n) == n \in Nat /\ s = [x \in 1 .. n |-> s[x]]

\* Its length is n.
LEMMA SeqLength ==
    ASSUME NEW s, NEW n, IsSeq(s, n)
    PROVE  /\ s \in Seq({s[x] : x \in 1 .. n})
           /\ Len(s) = n /\ DOMAIN s = 1 .. n
<1> DEFINE S == {s[x] : x \in 1 .. n}
<1>1. n \in Nat /\ s \in [1 .. n -> S]
  BY DEF IsSeq
<1>2. s \in Seq(S)
  BY <1>1, SeqDef
<1>3. DOMAIN s = 1 .. n
  BY <1>1
<1> HIDE DEF S
<1>4. Len(s) \in Nat /\ DOMAIN s = 1 .. Len(s)
  BY <1>2, LenProperties
<1>5. Len(s) = n
  BY <1>1, <1>3, <1>4
<1> QED
  BY <1>2, <1>3, <1>5 DEF S

\* t behind s.
Cat(s, t) == s \o t

\* u is the sequences s and t, one behind the other.
Behind(u, s, m, t, n) == IsSeq(s, m) /\ IsSeq(t, n) /\ u = Cat(s, t)

\* Where their elements are.
LEMMA Joined ==
    ASSUME NEW v, NEW s, NEW m, NEW t, NEW n, Behind(v, s, m, t, n)
    PROVE  /\ IsSeq(v, m + n)
           /\ \A x \in 1 .. m : v[x] = s[x]
           /\ \A x \in 1 .. n : v[m + x] = t[x]
<1>0. IsSeq(s, m) /\ IsSeq(t, n) /\ v = Cat(s, t)
  BY DEF Behind
<1> DEFINE A == {s[x] : x \in 1 .. m}  B == {t[x] : x \in 1 .. n}  S == A \cup B  u == s \o t
<1>1. m \in Nat /\ n \in Nat
  BY <1>0 DEF IsSeq
<1>2. s \in Seq(A) /\ Len(s) = m
  BY <1>0, SeqLength
<1>3. t \in Seq(B) /\ Len(t) = n
  BY <1>0, SeqLength
<1> HIDE DEF A, B
<1>4. s \in Seq(S)
  BY <1>2, SeqMonotonic
<1>5. t \in Seq(S)
  BY <1>3, SeqMonotonic
<1> HIDE DEF S
<1>6. /\ u \in Seq(S) /\ Len(u) = m + n
      /\ \A x \in 1 .. m + n : u[x] = IF x <= m THEN s[x] ELSE t[x - m]
  BY <1>2, <1>3, <1>4, <1>5, ConcatProperties
<1> HIDE DEF u
<1>7. u \in [1 .. m + n -> S]
  BY <1>6, LenProperties
<1>8. IsSeq(u, m + n)
  BY <1>1, <1>7 DEF IsSeq
<1>9. \A x \in 1 .. m : u[x] = s[x]
  BY <1>1, <1>6
<1>10. ASSUME NEW x \in 1 .. n PROVE u[m + x] = t[x]
  <2>1. m + x \in 1 .. m + n /\ ~(m + x <= m) /\ (m + x) - m = x
    BY <1>1
  <2> QED
    BY <1>6, <2>1
<1>11. Cat(s, t) = u
  BY DEF Cat, u
<1> QED
  BY <1>0, <1>8, <1>9, <1>10, <1>11

\* One more element.
LEMMA Appended ==
    ASSUME NEW s, NEW n, IsSeq(s, n), NEW e
    PROVE  /\ IsSeq(Append(s, e), n + 1)
           /\ \A x \in 1 .. n : Append(s, e)[x] = s[x]
           /\ Append(s, e)[n + 1] = e
<1> DEFINE A == {s[x] : x \in 1 .. n}  S == A \cup {e}  u == Append(s, e)
<1>1. n \in Nat
  BY DEF IsSeq
<1>2. s \in Seq(A) /\ Len(s) = n
  BY SeqLength
<1> HIDE DEF A
<1>3. s \in Seq(S) /\ e \in S
  BY <1>2, SeqMonotonic
<1> HIDE DEF S
<1>4. /\ u \in Seq(S) /\ Len(u) = n + 1
      /\ \A x \in 1 .. n : u[x] = s[x]
      /\ u[n + 1] = e
  BY <1>2, <1>3, AppendProperties
<1> HIDE DEF u
<1>5. u \in [1 .. n + 1 -> S]
  BY <1>4, LenProperties
<1>6. IsSeq(u, n + 1)
  BY <1>1, <1>5 DEF IsSeq
<1> QED
  BY <1>4, <1>6 DEF u

-----------------------------------------------------------------------------
(* Reading a list, from any sequence f of integers and words.              *)

BlocksOf(n) == (n + BlockSize - 1) \div BlockSize

\* Where the parts of the list at p are: the numbers of words, the words,
\* the number of block maxima.
CountsAt(f, p) == p + 1 + (IF OneBlock(f[p]) THEN 3 ELSE 5 * BlocksOf(f[p]))
WordsAt(f, p) ==
    [s \in Streams |-> IF s = "id" THEN f[CountsAt(f, p)] ELSE f[CountsAt(f, p) + 1]]
FromAt(f, p) ==
    [s \in Streams |-> CountsAt(f, p) + 2 + (IF s = "id" THEN 0 ELSE WordsAt(f, p)["id"])]
MaximaAt(f, p) == FromAt(f, p)["freq"] + WordsAt(f, p)["freq"]

FieldsAt(f, p) ==
    [max |-> f[p], at |-> [s \in Streams |-> IF s = "id" THEN f[p + 1] ELSE f[p + 2]],
     bytes |-> [s \in Streams |-> IF s = "id" THEN f[p + 3] ELSE f[p + 4]]]

OnlyFieldsAt(f, p) ==
    [max |-> f[p], at |-> [s \in Streams |-> 0],
     bytes |-> [s \in Streams |-> IF s = "id" THEN f[p + 1] ELSE f[p + 2]]]

BlocksAt(f, p) ==
    IF OneBlock(f[p]) THEN [b \in {0} |-> OnlyFieldsAt(f, p + 1)]
    ELSE [b \in 0 .. BlocksOf(f[p]) - 1 |-> FieldsAt(f, p + 1 + 5 * b)]

MemAt(f, p) == [s \in Streams |-> [w \in 0 .. WordsAt(f, p)[s] - 1 |-> f[FromAt(f, p)[s] + w]]]

Reading(f, p) ==
    [size |-> f[p],
     block |-> BlocksAt(f, p),
     mem |-> MemAt(f, p),
     words |-> WordsAt(f, p),
     bmax |-> [b \in 1 .. f[MaximaAt(f, p)] |-> f[MaximaAt(f, p) + b]],
     max |-> f[MaximaAt(f, p) + f[MaximaAt(f, p)] + 1],
     next |-> MaximaAt(f, p) + f[MaximaAt(f, p)] + 2]

\* load reads from the file as it is.
LEMMA ReadIs == \A p : ReadList(p) = Reading(file, p)
BY DEF ReadList, Reading, ReadBlock, ReadOnlyBlock, BlocksAt, MemAt, MaximaAt, FromAt, WordsAt,
       CountsAt, FieldsAt, OnlyFieldsAt, BlocksOf

\* The list at p has numbers where numbers are expected and ends in the first
\* n elements.
Within(f, p, n) ==
    /\ f[p] \in Nat
    /\ \A s \in Streams : WordsAt(f, p)[s] \in Nat
    /\ f[MaximaAt(f, p)] \in Nat
    /\ MaximaAt(f, p) + f[MaximaAt(f, p)] + 1 <= n

\* The blocks of n postings are that many.
LEMMA BlocksOfType == ASSUME NEW n \in Nat PROVE BlocksOf(n) \in Nat
<1>1. n + BlockSize - 1 \in Nat
  BY BlockSizeType
<1> QED
  BY <1>1, BlockSizeType, DivMod DEF BlocksOf

\* The parts follow each other.
LEMMA PartsInOrder ==
    ASSUME NEW f, NEW p \in Nat \ {0}, NEW n, Within(f, p, n)
    PROVE  /\ CountsAt(f, p) \in Nat /\ CountsAt(f, p) >= p + 1
           /\ OneBlock(f[p]) => CountsAt(f, p) = p + 4
           /\ ~OneBlock(f[p]) => CountsAt(f, p) = p + 1 + 5 * BlocksOf(f[p])
           /\ BlocksOf(f[p]) \in Nat
           /\ WordsAt(f, p)["id"] \in Nat /\ WordsAt(f, p)["freq"] \in Nat
           /\ WordsAt(f, p)["id"] = f[CountsAt(f, p)]
           /\ WordsAt(f, p)["freq"] = f[CountsAt(f, p) + 1]
           /\ FromAt(f, p)["id"] = CountsAt(f, p) + 2
           /\ FromAt(f, p)["freq"] = CountsAt(f, p) + 2 + WordsAt(f, p)["id"]
           /\ MaximaAt(f, p) = CountsAt(f, p) + 2 + WordsAt(f, p)["id"] + WordsAt(f, p)["freq"]
           /\ MaximaAt(f, p) \in Nat /\ f[MaximaAt(f, p)] \in Nat
<1>1. f[p] \in Nat /\ BlocksOf(f[p]) \in Nat
  BY BlocksOfType DEF Within
<1>2. /\ CountsAt(f, p) \in Nat /\ CountsAt(f, p) >= p + 1
      /\ OneBlock(f[p]) => CountsAt(f, p) = p + 4
      /\ ~OneBlock(f[p]) => CountsAt(f, p) = p + 1 + 5 * BlocksOf(f[p])
  BY <1>1 DEF CountsAt
<1>3. WordsAt(f, p)["id"] \in Nat /\ WordsAt(f, p)["freq"] \in Nat /\ f[MaximaAt(f, p)] \in Nat
  BY DEF Within, Streams
<1>4. /\ WordsAt(f, p)["id"] = f[CountsAt(f, p)] /\ WordsAt(f, p)["freq"] = f[CountsAt(f, p) + 1]
      /\ FromAt(f, p)["id"] = CountsAt(f, p) + 2 + 0
      /\ FromAt(f, p)["freq"] = CountsAt(f, p) + 2 + WordsAt(f, p)["id"]
  BY DEF WordsAt, FromAt, Streams
<1>5. MaximaAt(f, p) = CountsAt(f, p) + 2 + WordsAt(f, p)["id"] + WordsAt(f, p)["freq"]
  BY <1>4 DEF MaximaAt
<1> QED
  BY <1>1, <1>2, <1>3, <1>4, <1>5

\* What comes behind a list does not change how it is read.
LEMMA ReadAgain ==
    ASSUME NEW f, NEW p \in Nat \ {0}, NEW n \in Nat, Within(f, p, n),
           NEW g, \A x \in 1 .. n : g[x] = f[x]
    PROVE  Reading(g, p) = Reading(f, p) /\ Within(g, p, n) /\ p <= n
<1> DEFINE c == CountsAt(f, p)  q == BlocksOf(f[p])  wi == WordsAt(f, p)["id"]
           wf == WordsAt(f, p)["freq"]  m == MaximaAt(f, p)
<1>1. /\ c \in Nat /\ c >= p + 1 /\ q \in Nat /\ wi \in Nat /\ wf \in Nat /\ m \in Nat
      /\ OneBlock(f[p]) => c = p + 4
      /\ ~OneBlock(f[p]) => c = p + 1 + 5 * q
      /\ m = c + 2 + wi + wf /\ f[m] \in Nat
      /\ FromAt(f, p)["id"] = c + 2
      /\ FromAt(f, p)["freq"] = c + 2 + wi
  BY PartsInOrder
<1>2. m + f[m] + 1 <= n
  BY DEF Within
<1> HIDE DEF c, q, wi, wf, m
<1>3. /\ p \in 1 .. n /\ c \in 1 .. n /\ c + 1 \in 1 .. n /\ m \in 1 .. n
      /\ m + f[m] + 1 \in 1 .. n
      /\ \A b \in 1 .. f[m] : m + b \in 1 .. n
      /\ \A x \in p .. m : x \in 1 .. n
  BY <1>1, <1>2
<1>4. g[p] = f[p] /\ CountsAt(g, p) = c
  <2>1. g[p] = f[p]
    BY <1>3
  <2> QED
    BY <2>1 DEF CountsAt, c
<1>5. WordsAt(g, p) = WordsAt(f, p)
  <2>1. g[c] = f[c] /\ g[c + 1] = f[c + 1]
    BY <1>3
  <2>2. g[CountsAt(g, p)] = f[CountsAt(f, p)] /\ g[CountsAt(g, p) + 1] = f[CountsAt(f, p) + 1]
    BY <1>4, <2>1 DEF c
  <2> QED
    BY <2>2 DEF WordsAt
<1>6. FromAt(g, p) = FromAt(f, p) /\ MaximaAt(g, p) = m
  BY <1>4, <1>5 DEF FromAt, MaximaAt, m, c
<1>7. g[m] = f[m] /\ g[m + f[m] + 1] = f[m + f[m] + 1] /\ \A b \in 1 .. f[m] : g[m + b] = f[m + b]
  BY <1>3
<1>8. BlocksAt(g, p) = BlocksAt(f, p)
  <2>1. CASE OneBlock(f[p])
    <3>1. g[p + 1] = f[p + 1] /\ g[p + 1 + 1] = f[p + 1 + 1] /\ g[p + 1 + 2] = f[p + 1 + 2]
      BY <1>1, <1>3, <2>1
    <3>2. OnlyFieldsAt(g, p + 1) = OnlyFieldsAt(f, p + 1)
      BY <3>1 DEF OnlyFieldsAt
    <3> QED
      BY <1>4, <2>1, <3>2 DEF BlocksAt
  <2>2. CASE ~OneBlock(f[p])
    <3>1. ASSUME NEW b \in 0 .. q - 1
          PROVE  FieldsAt(g, p + 1 + 5 * b) = FieldsAt(f, p + 1 + 5 * b)
      <4> DEFINE x == p + 1 + 5 * b
      <4>1. x \in p .. m /\ x + 1 \in p .. m /\ x + 2 \in p .. m /\ x + 3 \in p .. m /\ x + 4 \in p .. m
        BY <1>1, <2>2
      <4> HIDE DEF x
      <4>2. /\ g[x] = f[x] /\ g[x + 1] = f[x + 1] /\ g[x + 2] = f[x + 2]
            /\ g[x + 3] = f[x + 3] /\ g[x + 4] = f[x + 4]
        BY <1>3, <4>1
      <4>3. FieldsAt(g, x) = FieldsAt(f, x)
        BY <4>2 DEF FieldsAt
      <4> QED
        BY <4>3 DEF x
    <3> QED
      BY <1>4, <2>2, <3>1 DEF BlocksAt, q
  <2> QED
    BY <2>1, <2>2
<1>9. MemAt(g, p) = MemAt(f, p)
  <2>1. ASSUME NEW s \in Streams, NEW w \in 0 .. WordsAt(f, p)[s] - 1
        PROVE  g[FromAt(f, p)[s] + w] = f[FromAt(f, p)[s] + w]
    <3>1. FromAt(f, p)[s] + w \in p .. m
      <4>1. CASE s = "id"
        BY <1>1, <4>1 DEF wi
      <4>2. CASE s = "freq"
        BY <1>1, <4>2 DEF wf
      <4> QED
        BY <4>1, <4>2 DEF Streams
    <3> QED
      BY <1>3, <3>1
  <2> QED
    BY <1>5, <1>6, <2>1 DEF MemAt
<1>10. [b \in 1 .. g[m] |-> g[m + b]] = [b \in 1 .. f[m] |-> f[m + b]]
  BY <1>7
<1>11. Reading(g, p) = Reading(f, p)
  <2>1. MaximaAt(f, p) = m
    BY DEF m
  <2> QED
    BY <1>4, <1>5, <1>6, <1>7, <1>8, <1>9, <1>10, <2>1 DEF Reading
<1>12. Within(g, p, n)
  <2>1. f[p] \in Nat /\ \A s \in Streams : WordsAt(f, p)[s] \in Nat
    BY DEF Within
  <2> QED
    BY <1>1, <1>2, <1>4, <1>5, <1>6, <1>7, <2>1 DEF Within
<1> QED
  BY <1>3, <1>11, <1>12

-----------------------------------------------------------------------------
(* Writing a list.                                                         *)

\* What stands between the size and the numbers of words.
Fields ==
    IF OneBlock(size)
    THEN <<block[0].max, block[0].bytes["id"], block[0].bytes["freq"]>>
    ELSE [x \in 1 .. 5 * NumBlocks |-> BlockFields((x - 1) \div 5)[((x - 1) % 5) + 1]]

FieldCount == IF OneBlock(size) THEN 3 ELSE 5 * NumBlocks

\* Short sequences are sequences.
LEMMA ShortSeqs ==
    /\ IsSeq(<<>>, 0)
    /\ \A a : IsSeq(<<a>>, 1) /\ <<a>>[1] = a
    /\ \A a, b : IsSeq(<<a, b>>, 2) /\ <<a, b>>[1] = a /\ <<a, b>>[2] = b
    /\ \A a, b, c : IsSeq(<<a, b, c>>, 3)
<1>1. IsSeq(<<>>, 0)
  BY DEF IsSeq
<1>2. \A a : IsSeq(<<a>>, 1) /\ <<a>>[1] = a
  BY DEF IsSeq
<1>3. \A a, b : IsSeq(<<a, b>>, 2) /\ <<a, b>>[1] = a /\ <<a, b>>[2] = b
  BY DEF IsSeq
<1>4. \A a, b, c : IsSeq(<<a, b, c>>, 3)
  BY DEF IsSeq
<1> QED
  BY <1>1, <1>2, <1>3, <1>4

\* S is these eight parts, one behind the other.
InParts(S, A, F, c, D, I, wi, Q, wf, N, B, nb, M) ==
    /\ IsSeq(A, 1) /\ IsSeq(F, c) /\ IsSeq(D, 2) /\ IsSeq(I, wi) /\ IsSeq(Q, wf)
    /\ IsSeq(N, 1) /\ IsSeq(B, nb) /\ IsSeq(M, 1)
    /\ S = Cat(Cat(Cat(Cat(Cat(Cat(Cat(A, F), D), I), Q), N), B), M)

\* Where they are found.
LEMMA EightParts ==
    ASSUME NEW S, NEW A, NEW F, NEW c, NEW D, NEW I, NEW wi, NEW Q, NEW wf, NEW N,
           NEW B, NEW nb, NEW M, InParts(S, A, F, c, D, I, wi, Q, wf, N, B, nb, M)
    PROVE  /\ IsSeq(S, c + wi + wf + nb + 5)
           /\ S[1] = A[1]
           /\ \A x \in 1 .. c : S[1 + x] = F[x]
           /\ S[c + 2] = D[1] /\ S[c + 3] = D[2]
           /\ \A x \in 1 .. wi : S[c + 3 + x] = I[x]
           /\ \A x \in 1 .. wf : S[c + 3 + wi + x] = Q[x]
           /\ S[c + 4 + wi + wf] = N[1]
           /\ \A x \in 1 .. nb : S[c + 4 + wi + wf + x] = B[x]
           /\ S[c + 5 + wi + wf + nb] = M[1]
<1> DEFINE s2 == Cat(A, F)  s3 == Cat(s2, D)  s4 == Cat(s3, I)  s5 == Cat(s4, Q)
           s6 == Cat(s5, N)  s7 == Cat(s6, B)
<1>A. IsSeq(A, 1)
  BY DEF InParts
<1>F. IsSeq(F, c)
  BY DEF InParts
<1>D. IsSeq(D, 2)
  BY DEF InParts
<1>I. IsSeq(I, wi)
  BY DEF InParts
<1>Q. IsSeq(Q, wf)
  BY DEF InParts
<1>N. IsSeq(N, 1)
  BY DEF InParts
<1>B. IsSeq(B, nb)
  BY DEF InParts
<1>M. IsSeq(M, 1)
  BY DEF InParts
<1>S. S = Cat(s7, M)
  BY DEF InParts
<1>1. c \in Nat /\ wi \in Nat /\ wf \in Nat /\ nb \in Nat
  BY <1>F, <1>I, <1>Q, <1>B DEF IsSeq
<1>2. IsSeq(s2, 1 + c) /\ s2[1] = A[1] /\ \A x \in 1 .. c : s2[1 + x] = F[x]
  <2>1. Behind(s2, A, 1, F, c)
    BY <1>A, <1>F DEF Behind
  <2> QED
    BY <2>1, Joined
<1> HIDE DEF s2
<1>3. /\ IsSeq(s3, 1 + c + 2) /\ \A x \in 1 .. 1 + c : s3[x] = s2[x]
      /\ \A x \in 1 .. 2 : s3[1 + c + x] = D[x]
  <2>1. Behind(s3, s2, 1 + c, D, 2)
    BY <1>2, <1>D DEF Behind
  <2> QED
    BY <2>1, Joined
<1> HIDE DEF s3
<1>4. /\ IsSeq(s4, 1 + c + 2 + wi) /\ \A x \in 1 .. 1 + c + 2 : s4[x] = s3[x]
      /\ \A x \in 1 .. wi : s4[1 + c + 2 + x] = I[x]
  <2>1. Behind(s4, s3, 1 + c + 2, I, wi)
    BY <1>3, <1>I DEF Behind
  <2> QED
    BY <2>1, Joined
<1> HIDE DEF s4
<1>5. /\ IsSeq(s5, 1 + c + 2 + wi + wf) /\ \A x \in 1 .. 1 + c + 2 + wi : s5[x] = s4[x]
      /\ \A x \in 1 .. wf : s5[1 + c + 2 + wi + x] = Q[x]
  <2>1. Behind(s5, s4, 1 + c + 2 + wi, Q, wf)
    BY <1>4, <1>Q DEF Behind
  <2> QED
    BY <2>1, Joined
<1> HIDE DEF s5
<1>6. /\ IsSeq(s6, 1 + c + 2 + wi + wf + 1)
      /\ \A x \in 1 .. 1 + c + 2 + wi + wf : s6[x] = s5[x]
      /\ \A x \in 1 .. 1 : s6[1 + c + 2 + wi + wf + x] = N[x]
  <2>1. Behind(s6, s5, 1 + c + 2 + wi + wf, N, 1)
    BY <1>5, <1>N DEF Behind
  <2> QED
    BY <2>1, Joined
<1> HIDE DEF s6
<1>7. /\ IsSeq(s7, 1 + c + 2 + wi + wf + 1 + nb)
      /\ \A x \in 1 .. 1 + c + 2 + wi + wf + 1 : s7[x] = s6[x]
      /\ \A x \in 1 .. nb : s7[1 + c + 2 + wi + wf + 1 + x] = B[x]
  <2>1. Behind(s7, s6, 1 + c + 2 + wi + wf + 1, B, nb)
    BY <1>6, <1>B DEF Behind
  <2> QED
    BY <2>1, Joined
<1> HIDE DEF s7
<1>8. /\ IsSeq(S, 1 + c + 2 + wi + wf + 1 + nb + 1)
      /\ \A x \in 1 .. 1 + c + 2 + wi + wf + 1 + nb : S[x] = s7[x]
      /\ \A x \in 1 .. 1 : S[1 + c + 2 + wi + wf + 1 + nb + x] = M[x]
  <2>1. Behind(S, s7, 1 + c + 2 + wi + wf + 1 + nb, M, 1)
    BY <1>7, <1>M, <1>S DEF Behind
  <2> QED
    BY <2>1, Joined
<1>9. /\ 1 + c + 2 + wi + wf + 1 + nb + 1 = c + wi + wf + nb + 5
      /\ 1 + c + 2 + wi + wf + 1 + nb + 1 = c + 5 + wi + wf + nb
      /\ 1 + c + 2 + wi + wf + 1 = c + 4 + wi + wf
      /\ 1 + c + 2 + wi = c + 3 + wi
      /\ 1 + c + 2 = c + 3 /\ 1 + c + 1 = c + 2
  BY <1>1
<1>10. /\ \A x \in 1 .. 1 + c + 2 + wi + wf + 1 : S[x] = s6[x]
       /\ \A x \in 1 .. 1 + c + 2 + wi + wf : S[x] = s5[x]
       /\ \A x \in 1 .. 1 + c + 2 + wi : S[x] = s4[x]
       /\ \A x \in 1 .. 1 + c + 2 : S[x] = s3[x]
       /\ \A x \in 1 .. 1 + c : S[x] = s2[x]
  <2>1. \A x \in 1 .. 1 + c + 2 + wi + wf + 1 : S[x] = s6[x]
    BY <1>1, <1>7, <1>8
  <2>2. \A x \in 1 .. 1 + c + 2 + wi + wf : S[x] = s5[x]
    BY <1>1, <1>6, <2>1
  <2>3. \A x \in 1 .. 1 + c + 2 + wi : S[x] = s4[x]
    BY <1>1, <1>5, <2>2
  <2>4. \A x \in 1 .. 1 + c + 2 : S[x] = s3[x]
    BY <1>1, <1>4, <2>3
  <2>5. \A x \in 1 .. 1 + c : S[x] = s2[x]
    BY <1>1, <1>3, <2>4
  <2> QED
    BY <2>1, <2>2, <2>3, <2>4, <2>5
<1>11. S[1] = A[1] /\ \A x \in 1 .. c : S[1 + x] = F[x]
  BY <1>1, <1>2, <1>10
<1>12. S[1 + c + 1] = D[1] /\ S[1 + c + 2] = D[2]
  BY <1>1, <1>3, <1>10
<1>13. \A x \in 1 .. wi : S[1 + c + 2 + x] = I[x]
  BY <1>1, <1>4, <1>10
<1>14. \A x \in 1 .. wf : S[1 + c + 2 + wi + x] = Q[x]
  BY <1>1, <1>5, <1>10
<1>15. S[1 + c + 2 + wi + wf + 1] = N[1]
  BY <1>1, <1>6, <1>10
<1>16. \A x \in 1 .. nb : S[1 + c + 2 + wi + wf + 1 + x] = B[x]
  BY <1>1, <1>7, <1>8
<1>17. S[1 + c + 2 + wi + wf + 1 + nb + 1] = M[1]
  BY <1>8
<1> QED
  BY <1>8, <1>9, <1>11, <1>12, <1>13, <1>14, <1>15, <1>16, <1>17

\* The parts of a list in the file are those of the list in memory, one behind
\* the other.
LEMMA SerializedParts ==
    ASSUME size \in Nat, offset \in [Streams -> Nat]
    PROVE  \E c, wi, wf, nb, S :
           /\ c = FieldCount /\ wi = offset["id"] /\ wf = offset["freq"]
           /\ nb = Len(BlockMaxima) /\ S = Serialized
           /\ c \in Nat /\ wi \in Nat /\ wf \in Nat /\ IsSeq(BlockMaxima, nb)
           /\ IsSeq(S, c + wi + wf + nb + 5)
           /\ S[1] = size
           /\ \A x \in 1 .. c : S[1 + x] = Fields[x]
           /\ S[c + 2] = wi /\ S[c + 3] = wf
           /\ \A x \in 1 .. wi : S[c + 3 + x] = Contents("id", wi)[x]
           /\ \A x \in 1 .. wf : S[c + 3 + wi + x] = Contents("freq", wf)[x]
           /\ S[c + 4 + wi + wf] = nb
           /\ \A x \in 1 .. nb : S[c + 4 + wi + wf + x] = BlockMaxima[x]
           /\ S[c + 5 + wi + wf + nb] = ListMaximum
<1>0. PICK c, wi, wf, nb, S : /\ c = FieldCount /\ wi = offset["id"] /\ wf = offset["freq"]
                              /\ nb = Len(BlockMaxima) /\ S = Serialized
  OBVIOUS
<1>1. wi \in Nat /\ wf \in Nat /\ NumBlocks \in Nat
  BY <1>0, NumBlocksFacts DEF Streams
<1>2. c \in Nat /\ IsSeq(Fields, c)
  <2>1. CASE OneBlock(size)
    BY <1>0, <2>1, ShortSeqs DEF Fields, FieldCount
  <2>2. CASE ~OneBlock(size)
    BY <1>0, <1>1, <2>2 DEF Fields, FieldCount, IsSeq
  <2> QED
    BY <1>0, <2>1, <2>2
<1>3. nb \in Nat /\ IsSeq(BlockMaxima, nb)
  <2>1. IsSeq(BlockMaxima, 0) \/ IsSeq(BlockMaxima, NumBlocks)
    <3>1. CASE form = "wand"
      BY <1>0, <3>1, ShortSeqs DEF BlockMaxima
    <3>2. CASE form # "wand"
      <4>1. BlockMaxima = [b \in 1 .. NumBlocks |->
              Largest(BlockSize * (b - 1) .. BlockSize * (b - 1) + PostingsIn(b - 1) - 1)]
        BY <1>0, <3>2 DEF BlockMaxima
      <4> QED
        BY <1>0, <1>1, <4>1 DEF IsSeq
    <3> QED
      BY <1>0, <3>1, <3>2
  <2>2. \A n : IsSeq(BlockMaxima, n) => Len(BlockMaxima) = n /\ n \in Nat
    BY <1>0, SeqLength DEF IsSeq
  <2> QED
    BY <1>0, <2>1, <2>2
<1>4. IsSeq(Contents("id", wi), wi) /\ IsSeq(Contents("freq", wf), wf)
  BY <1>0, <1>1 DEF IsSeq, Contents
<1>5. PICK A, D, N, M : A = <<size>> /\ D = <<wi, wf>> /\ N = <<nb>> /\ M = <<ListMaximum>>
  OBVIOUS
<1>6. /\ IsSeq(A, 1) /\ A[1] = size /\ IsSeq(D, 2) /\ D[1] = wi /\ D[2] = wf
      /\ IsSeq(N, 1) /\ N[1] = nb /\ IsSeq(M, 1) /\ M[1] = ListMaximum
  BY <1>5, ShortSeqs
<1>7. PICK F, I, Q, B :
        F = Fields /\ I = Contents("id", wi) /\ Q = Contents("freq", wf) /\ B = BlockMaxima
  OBVIOUS
<1>8. S = Cat(Cat(Cat(Cat(Cat(Cat(Cat(A, F), D), I), Q), N), B), M)
  BY <1>0, <1>5, <1>7, Zenon DEF Serialized, Fields, Cat
<1>9. InParts(S, A, F, c, D, I, wi, Q, wf, N, B, nb, M)
  BY <1>2, <1>3, <1>4, <1>6, <1>7, <1>8 DEF InParts
<1>10. /\ IsSeq(S, c + wi + wf + nb + 5)
       /\ S[1] = A[1]
       /\ \A x \in 1 .. c : S[1 + x] = F[x]
       /\ S[c + 2] = D[1] /\ S[c + 3] = D[2]
       /\ \A x \in 1 .. wi : S[c + 3 + x] = I[x]
       /\ \A x \in 1 .. wf : S[c + 3 + wi + x] = Q[x]
       /\ S[c + 4 + wi + wf] = N[1]
       /\ \A x \in 1 .. nb : S[c + 4 + wi + wf + x] = B[x]
       /\ S[c + 5 + wi + wf + nb] = M[1]
  BY <1>9, EightParts
<1> WITNESS c, wi, wf, nb, S
<1> QED
  BY <1>0, <1>1, <1>2, <1>3, <1>6, <1>7, <1>10

\* The fields of block b, in the order of struct block_data.
LEMMA FieldsOfBlock ==
    ASSUME size \in Nat, ~OneBlock(size), NEW b \in 0 .. NumBlocks - 1
    PROVE  /\ 5 * b + 1 \in 1 .. FieldCount /\ 5 * b + 5 \in 1 .. FieldCount
           /\ Fields[5 * b + 1] = block[b].max
           /\ Fields[5 * b + 2] = block[b].at["id"]
           /\ Fields[5 * b + 3] = block[b].at["freq"]
           /\ Fields[5 * b + 4] = block[b].bytes["id"]
           /\ Fields[5 * b + 5] = block[b].bytes["freq"]
<1>1. NumBlocks \in Nat /\ b \in Nat
  BY NumBlocksFacts
<1>2. FieldCount = 5 * NumBlocks
  BY DEF FieldCount
<1>3. \A k \in 0 .. 4 : 5 * b + k + 1 \in 1 .. 5 * NumBlocks
  BY <1>1
<1>4. ASSUME NEW k \in 0 .. 4 PROVE Fields[5 * b + k + 1] = BlockFields(b)[k + 1]
  <2>1. Fields = [x \in 1 .. 5 * NumBlocks |-> BlockFields((x - 1) \div 5)[((x - 1) % 5) + 1]]
    BY DEF Fields
  <2>2. (5 * b + k + 1) - 1 = 5 * b + k
    BY <1>1
  <2>3. (5 * b + k) \div 5 = b /\ (5 * b + k) % 5 = k
    BY <1>1
  <2> QED
    BY <1>3, <2>1, <2>2, <2>3
<1>5. /\ BlockFields(b)[1] = block[b].max
      /\ BlockFields(b)[2] = block[b].at["id"] /\ BlockFields(b)[3] = block[b].at["freq"]
      /\ BlockFields(b)[4] = block[b].bytes["id"] /\ BlockFields(b)[5] = block[b].bytes["freq"]
  BY DEF BlockFields
<1>6. /\ Fields[5 * b + 0 + 1] = BlockFields(b)[0 + 1] /\ Fields[5 * b + 1 + 1] = BlockFields(b)[1 + 1]
      /\ Fields[5 * b + 2 + 1] = BlockFields(b)[2 + 1] /\ Fields[5 * b + 3 + 1] = BlockFields(b)[3 + 1]
      /\ Fields[5 * b + 4 + 1] = BlockFields(b)[4 + 1]
  BY <1>4
<1>7. /\ 5 * b + 0 + 1 = 5 * b + 1 /\ 5 * b + 1 + 1 = 5 * b + 2 /\ 5 * b + 2 + 1 = 5 * b + 3
      /\ 5 * b + 3 + 1 = 5 * b + 4 /\ 5 * b + 4 + 1 = 5 * b + 5
  BY <1>1
<1>8. /\ Fields[5 * b + 1] = BlockFields(b)[1] /\ Fields[5 * b + 2] = BlockFields(b)[2]
      /\ Fields[5 * b + 3] = BlockFields(b)[3] /\ Fields[5 * b + 4] = BlockFields(b)[4]
      /\ Fields[5 * b + 5] = BlockFields(b)[5]
  BY <1>6, <1>7
<1>9. 5 * b + 1 \in 1 .. FieldCount /\ 5 * b + 5 \in 1 .. FieldCount
  BY <1>1, <1>2
<1> QED
  BY <1>5, <1>8, <1>9

\* A record of a block is its fields.
LEMMA BlockIs ==
    ASSUME NEW r \in [max : Nat, at : [Streams -> Nat], bytes : [Streams -> Int]]
    PROVE  r = [max |-> r.max,
                at |-> [s \in Streams |-> IF s = "id" THEN r.at["id"] ELSE r.at["freq"]],
                bytes |-> [s \in Streams |-> IF s = "id" THEN r.bytes["id"] ELSE r.bytes["freq"]]]
<1>1. r.at = [s \in Streams |-> IF s = "id" THEN r.at["id"] ELSE r.at["freq"]]
  BY DEF Streams
<1>2. r.bytes = [s \in Streams |-> IF s = "id" THEN r.bytes["id"] ELSE r.bytes["freq"]]
  BY DEF Streams
<1> QED
  BY <1>1, <1>2

\* There is one block exactly if the code treats the list as having one.
LEMMA OneBlockIs == ASSUME size \in Nat \ {0} PROVE OneBlock(size) <=> NumBlocks = 1
<1>1. /\ NumBlocks \in Nat /\ BlockSize * NumBlocks \in Nat /\ size <= BlockSize * NumBlocks
      /\ BlockSize * NumBlocks < size + BlockSize
  BY NumBlocksFacts
<1>2. BlockSize \in Nat \ {0} /\ BlockSize * 1 = BlockSize /\ BlockSize * 0 = 0
  BY BlockSizeType
<1>3. NumBlocks # 0
  BY <1>1, <1>2
<1>4. CASE NumBlocks = 1
  BY <1>1, <1>2, <1>4 DEF OneBlock
<1>5. CASE NumBlocks > 1
  <2>1. BlockSize * 1 + BlockSize <= BlockSize * NumBlocks
    BY <1>1, <1>2, <1>5, MulMono
  <2>2. ASSUME NEW t \in Nat, t = BlockSize * NumBlocks PROVE size > BlockSize
    BY <1>1, <1>2, <2>1, <2>2
  <2> QED
    BY <1>1, <1>2, <1>5, <2>2 DEF OneBlock
<1> QED
  BY <1>1, <1>3, <1>4, <1>5

\* How many elements serialize writes.
Length == FieldCount + offset["id"] + offset["freq"] + Len(BlockMaxima) + 5

\* load reads what serialize wrote, wherever it stands.
LEMMA ReadsBack ==
    ASSUME size \in Nat \ {0}, offset \in [Streams -> Nat],
           \A b \in 0 .. NumBlocks - 1 :
              block[b] \in [max : Nat, at : [Streams -> Nat], bytes : [Streams -> Int]],
           \A s \in Streams : block[0].at[s] = 0,
           NEW f, NEW p \in Nat \ {0}, \A x \in 1 .. Length : f[p + x - 1] = Serialized[x]
    PROVE  /\ Length \in Nat \ {0} /\ IsSeq(Serialized, Length)
           /\ Within(f, p, p + Length - 1)
           /\ Reading(f, p) =
                [size |-> size,
                 block |-> [b \in 0 .. NumBlocks - 1 |-> block[b]],
                 mem |-> [s \in Streams |->
                            [w \in 0 .. offset[s] - 1 |-> Contents(s, offset[s])[w + 1]]],
                 words |-> offset,
                 bmax |-> BlockMaxima,
                 max |-> ListMaximum,
                 next |-> p + Length]
<1>0. PICK c, wi, wf, nb, S :
      /\ c = FieldCount /\ wi = offset["id"] /\ wf = offset["freq"]
      /\ nb = Len(BlockMaxima) /\ S = Serialized
      /\ c \in Nat /\ wi \in Nat /\ wf \in Nat /\ IsSeq(BlockMaxima, nb)
      /\ IsSeq(S, c + wi + wf + nb + 5)
      /\ S[1] = size
      /\ \A x \in 1 .. c : S[1 + x] = Fields[x]
      /\ S[c + 2] = wi /\ S[c + 3] = wf
      /\ \A x \in 1 .. wi : S[c + 3 + x] = Contents("id", wi)[x]
      /\ \A x \in 1 .. wf : S[c + 3 + wi + x] = Contents("freq", wf)[x]
      /\ S[c + 4 + wi + wf] = nb
      /\ \A x \in 1 .. nb : S[c + 4 + wi + wf + x] = BlockMaxima[x]
      /\ S[c + 5 + wi + wf + nb] = ListMaximum
  BY SerializedParts
<1>1. /\ c = FieldCount /\ wi = offset["id"] /\ wf = offset["freq"]
      /\ nb = Len(BlockMaxima) /\ S = Serialized
  BY <1>0
<1>2. /\ c \in Nat /\ wi \in Nat /\ wf \in Nat /\ IsSeq(BlockMaxima, nb)
      /\ IsSeq(S, c + wi + wf + nb + 5)
      /\ S[1] = size
      /\ \A x \in 1 .. c : S[1 + x] = Fields[x]
      /\ S[c + 2] = wi /\ S[c + 3] = wf
      /\ \A x \in 1 .. wi : S[c + 3 + x] = Contents("id", wi)[x]
      /\ \A x \in 1 .. wf : S[c + 3 + wi + x] = Contents("freq", wf)[x]
      /\ S[c + 4 + wi + wf] = nb
      /\ \A x \in 1 .. nb : S[c + 4 + wi + wf + x] = BlockMaxima[x]
      /\ S[c + 5 + wi + wf + nb] = ListMaximum
  BY <1>0
<1>3. nb \in Nat /\ Length = c + wi + wf + nb + 5
  BY <1>1, <1>2 DEF Length, IsSeq
<1>4. \A x \in 1 .. c + wi + wf + nb + 5 : f[p + x - 1] = S[x]
  BY <1>1, <1>3
<1>5. f[p] = size
  <2>1. 1 \in 1 .. c + wi + wf + nb + 5 /\ p + 1 - 1 = p
    BY <1>2, <1>3
  <2> QED
    BY <1>2, <1>4, <2>1
<1>6. ASSUME NEW x \in 1 .. c PROVE f[p + x] = Fields[x]
  <2>1. 1 + x \in 1 .. c + wi + wf + nb + 5 /\ p + (1 + x) - 1 = p + x
    BY <1>2, <1>3
  <2> QED
    BY <1>2, <1>4, <2>1
<1>7. f[p + 1 + c] = wi /\ f[p + 1 + c + 1] = wf
  <2>1. /\ c + 2 \in 1 .. c + wi + wf + nb + 5 /\ p + (c + 2) - 1 = p + 1 + c
        /\ c + 3 \in 1 .. c + wi + wf + nb + 5 /\ p + (c + 3) - 1 = p + 1 + c + 1
    BY <1>2, <1>3
  <2> QED
    BY <1>2, <1>4, <2>1
<1>8. ASSUME NEW w \in 0 .. wi - 1 PROVE f[p + 1 + c + 2 + w] = Contents("id", wi)[w + 1]
  <2>1. /\ c + 3 + (w + 1) \in 1 .. c + wi + wf + nb + 5 /\ w + 1 \in 1 .. wi
        /\ p + (c + 3 + (w + 1)) - 1 = p + 1 + c + 2 + w
    BY <1>2, <1>3
  <2> QED
    BY <1>2, <1>4, <2>1
<1>9. ASSUME NEW w \in 0 .. wf - 1 PROVE f[p + 1 + c + 2 + wi + w] = Contents("freq", wf)[w + 1]
  <2>1. /\ c + 3 + wi + (w + 1) \in 1 .. c + wi + wf + nb + 5 /\ w + 1 \in 1 .. wf
        /\ p + (c + 3 + wi + (w + 1)) - 1 = p + 1 + c + 2 + wi + w
    BY <1>2, <1>3
  <2> QED
    BY <1>2, <1>4, <2>1
<1>10. f[p + 1 + c + 2 + wi + wf] = nb
  <2>1. /\ c + 4 + wi + wf \in 1 .. c + wi + wf + nb + 5
        /\ p + (c + 4 + wi + wf) - 1 = p + 1 + c + 2 + wi + wf
    BY <1>2, <1>3
  <2> QED
    BY <1>2, <1>4, <2>1
<1>11. ASSUME NEW x \in 1 .. nb PROVE f[p + 1 + c + 2 + wi + wf + x] = BlockMaxima[x]
  <2>1. /\ c + 4 + wi + wf + x \in 1 .. c + wi + wf + nb + 5
        /\ p + (c + 4 + wi + wf + x) - 1 = p + 1 + c + 2 + wi + wf + x
    BY <1>2, <1>3
  <2> QED
    BY <1>2, <1>4, <2>1
<1>12. f[p + 1 + c + 2 + wi + wf + nb + 1] = ListMaximum
  <2>1. /\ c + 5 + wi + wf + nb \in 1 .. c + wi + wf + nb + 5
        /\ p + (c + 5 + wi + wf + nb) - 1 = p + 1 + c + 2 + wi + wf + nb + 1
    BY <1>2, <1>3
  <2> QED
    BY <1>2, <1>4, <2>1
<1>13. BlocksOf(size) = NumBlocks
  BY DEF BlocksOf, NumBlocks
<1>14. CountsAt(f, p) = p + 1 + c
  BY <1>1, <1>5, <1>13 DEF CountsAt, FieldCount
<1>15. WordsAt(f, p) = offset
  <2>1. offset = [s \in Streams |-> IF s = "id" THEN wi ELSE wf]
    BY <1>1 DEF Streams
  <2> QED
    BY <1>7, <1>14, <2>1 DEF WordsAt
<1>16. /\ FromAt(f, p)["id"] = p + 1 + c + 2 /\ FromAt(f, p)["freq"] = p + 1 + c + 2 + wi
       /\ MaximaAt(f, p) = p + 1 + c + 2 + wi + wf
  <2>1. /\ FromAt(f, p)["id"] = p + 1 + c + 2 + 0
        /\ FromAt(f, p)["freq"] = p + 1 + c + 2 + wi
    BY <1>1, <1>14, <1>15 DEF FromAt, Streams
  <2>2. MaximaAt(f, p) = FromAt(f, p)["freq"] + wf
    BY <1>1, <1>15 DEF MaximaAt
  <2> QED
    BY <1>2, <2>1, <2>2
<1>17. BlocksAt(f, p) = [b \in 0 .. NumBlocks - 1 |-> block[b]]
  <2>1. CASE OneBlock(size)
    <3>1. NumBlocks = 1 /\ 0 .. NumBlocks - 1 = {0} /\ c = 3
      BY <1>1, <2>1, OneBlockIs DEF FieldCount
    <3>2. Fields[1] = block[0].max /\ Fields[2] = block[0].bytes["id"] /\ Fields[3] = block[0].bytes["freq"]
      BY <2>1 DEF Fields
    <3>3. f[p + 1] = Fields[1] /\ f[p + 2] = Fields[2] /\ f[p + 3] = Fields[3]
      BY <1>6, <3>1
    <3>4. p + 1 + 1 = p + 2 /\ p + 1 + 2 = p + 3
      OBVIOUS
    <3>5. OnlyFieldsAt(f, p + 1) =
            [max |-> block[0].max, at |-> [s \in Streams |-> 0],
             bytes |-> [s \in Streams |-> IF s = "id" THEN block[0].bytes["id"] ELSE block[0].bytes["freq"]]]
      BY <3>2, <3>3, <3>4 DEF OnlyFieldsAt
    <3>6. block[0] \in [max : Nat, at : [Streams -> Nat], bytes : [Streams -> Int]]
      BY <3>1
    <3>7. block[0].at = [s \in Streams |-> 0]
      BY <3>6
    <3>8. OnlyFieldsAt(f, p + 1) = block[0]
      BY <3>5, <3>6, <3>7, BlockIs
    <3> QED
      BY <1>5, <2>1, <3>1, <3>8 DEF BlocksAt
  <2>2. CASE ~OneBlock(size)
    <3>1. ASSUME NEW b \in 0 .. NumBlocks - 1
          PROVE  FieldsAt(f, p + 1 + 5 * b) = block[b]
      <4>0. b \in Nat
        BY NumBlocksFacts
      <4>1. /\ Fields[5 * b + 1] = block[b].max
            /\ Fields[5 * b + 2] = block[b].at["id"] /\ Fields[5 * b + 3] = block[b].at["freq"]
            /\ Fields[5 * b + 4] = block[b].bytes["id"] /\ Fields[5 * b + 5] = block[b].bytes["freq"]
            /\ 5 * b + 1 \in 1 .. c /\ 5 * b + 5 \in 1 .. c
        BY <1>1, <2>2, FieldsOfBlock
      <4>2. /\ f[p + (5 * b + 1)] = Fields[5 * b + 1] /\ f[p + (5 * b + 2)] = Fields[5 * b + 2]
            /\ f[p + (5 * b + 3)] = Fields[5 * b + 3] /\ f[p + (5 * b + 4)] = Fields[5 * b + 4]
            /\ f[p + (5 * b + 5)] = Fields[5 * b + 5]
        <5>1. /\ 5 * b + 1 \in 1 .. c /\ 5 * b + 2 \in 1 .. c /\ 5 * b + 3 \in 1 .. c
              /\ 5 * b + 4 \in 1 .. c /\ 5 * b + 5 \in 1 .. c
          BY <1>2, <4>0, <4>1
        <5> QED
          BY <1>6, <5>1
      <4>3. /\ p + (5 * b + 1) = p + 1 + 5 * b /\ p + (5 * b + 2) = p + 1 + 5 * b + 1
            /\ p + (5 * b + 3) = p + 1 + 5 * b + 2 /\ p + (5 * b + 4) = p + 1 + 5 * b + 3
            /\ p + (5 * b + 5) = p + 1 + 5 * b + 4
        OBVIOUS
      <4>4. FieldsAt(f, p + 1 + 5 * b) =
              [max |-> block[b].max,
               at |-> [s \in Streams |-> IF s = "id" THEN block[b].at["id"] ELSE block[b].at["freq"]],
               bytes |-> [s \in Streams |-> IF s = "id" THEN block[b].bytes["id"] ELSE block[b].bytes["freq"]]]
        BY <4>1, <4>2, <4>3 DEF FieldsAt
      <4> QED
        BY <4>4, BlockIs
    <3> QED
      BY <1>5, <1>13, <2>2, <3>1 DEF BlocksAt
  <2> QED
    BY <2>1, <2>2
<1>18. MemAt(f, p) = [s \in Streams |->
                        [w \in 0 .. offset[s] - 1 |-> Contents(s, offset[s])[w + 1]]]
  <2>1. ASSUME NEW s \in Streams, NEW w \in 0 .. offset[s] - 1
        PROVE  f[FromAt(f, p)[s] + w] = Contents(s, offset[s])[w + 1]
    <3>1. CASE s = "id"
      BY <1>1, <1>8, <1>16, <3>1
    <3>2. CASE s = "freq"
      BY <1>1, <1>9, <1>16, <3>2
    <3> QED
      BY <3>1, <3>2 DEF Streams
  <2> QED
    BY <1>15, <2>1 DEF MemAt
<1>19. [b \in 1 .. nb |-> f[p + 1 + c + 2 + wi + wf + b]] = BlockMaxima
  BY <1>2, <1>11 DEF IsSeq
<1>20. f[MaximaAt(f, p)] = nb
  BY <1>10, <1>16
<1>21. /\ MaximaAt(f, p) + f[MaximaAt(f, p)] + 2 = p + Length
       /\ MaximaAt(f, p) + f[MaximaAt(f, p)] + 1 <= p + Length - 1
       /\ Length \in Nat \ {0}
  BY <1>2, <1>3, <1>16, <1>20
<1>22. [b \in 1 .. f[MaximaAt(f, p)] |-> f[MaximaAt(f, p) + b]] = BlockMaxima
  BY <1>16, <1>19, <1>20
<1>23. f[MaximaAt(f, p) + f[MaximaAt(f, p)] + 1] = ListMaximum
  BY <1>12, <1>16, <1>20
<1>24. Within(f, p, p + Length - 1)
  <2>1. f[p] \in Nat /\ f[MaximaAt(f, p)] \in Nat /\ \A s \in Streams : WordsAt(f, p)[s] \in Nat
    BY <1>3, <1>5, <1>15, <1>20
  <2> QED
    BY <1>21, <2>1 DEF Within
<1>25. IsSeq(Serialized, Length)
  BY <1>1, <1>2, <1>3
<1> QED
  BY <1>5, <1>15, <1>17, <1>18, <1>21, <1>22, <1>23, <1>24, <1>25 DEF Reading

-----------------------------------------------------------------------------
(* What a list in memory owes to a list of postings w, whichever list is   *)
(* being compressed or decompressed.                                       *)

CountIn(n, b) == IF b = BlocksOf(n) - 1 /\ n % BlockSize # 0 THEN n % BlockSize ELSE BlockSize

Difference(w, p) == IF p = 0 THEN w.ids[0] ELSE w.ids[p] - w.ids[p - 1]

ContentOf(w, s, b) ==
    [k \in 0 .. CountIn(w.size, b) - 1 |->
        IF s = "id" THEN Difference(w, BlockSize * b + k) ELSE w.freqs[BlockSize * b + k]]

\* Its arrays and blocks are those of w.
ArraysOf(l, w) ==
    /\ l.size = w.size
    /\ l.words \in [Streams -> Nat]
    /\ l.mem = [s \in Streams |-> l.mem[s]]
    /\ \A s \in Streams :
          /\ l.words[s] % 4 = 0
          /\ l.words[s] <= 2 * w.size + 4
          /\ DOMAIN l.mem[s] \subseteq 0 .. l.words[s] - 1

BlockOf(l, w, b) ==
    /\ b \in DOMAIN l.block
    /\ l.block[b] \in [max : Nat, at : [Streams -> Nat], bytes : [Streams -> Int]]
    /\ l.block[b].max = w.ids[BlockSize * b + CountIn(w.size, b) - 1]
    /\ \A s \in Streams :
          /\ l.block[b].at[s] % 4 = 0
          /\ l.block[b].bytes[s] > 0
          /\ l.block[b].at[s] + Words(l.block[b].bytes[s]) <= l.words[s]
          /\ \A k \in 0 .. Words(l.block[b].bytes[s]) - 1 :
                /\ l.block[b].at[s] + k \in DOMAIN l.mem[s]
                /\ l.mem[s][l.block[b].at[s] + k] = [data |-> ContentOf(w, s, b), part |-> k]

\* Its bounds are those of w.
TopOf(w, S) == Max({w.freqs[p] : p \in S})
InBlock(w, b) == {p \in 0 .. w.size - 1 : p \div BlockSize = b}

BoundsOf(l, w) ==
    /\ DOMAIN l.block = 0 .. BlocksOf(w.size) - 1
    /\ \A p \in 0 .. w.size - 1 : p \div BlockSize \in DOMAIN l.block
    /\ \A b \in DOMAIN l.block : l.block[b].max = w.ids[Max(InBlock(w, b))]
    /\ l.max = TopOf(w, 0 .. w.size - 1)
    /\ form = "bmw" => l.bmax = [b \in 1 .. BlocksOf(w.size) |-> TopOf(w, InBlock(w, b - 1))]

ListFor(l, w) ==
    /\ IsList(w)
    /\ ArraysOf(l, w)
    /\ \A b \in 0 .. BlocksOf(w.size) - 1 : BlockOf(l, w, b)
    /\ BoundsOf(l, w)

-----------------------------------------------------------------------------
(* The inductive invariant of the two programs.                            *)

\* The dictionary, and how far the second pass and the loader are.
Passes ==
    /\ terms \in Collections
    /\ form \in {"bmw", "wand"}
    /\ phase \in {"dictionary", "header", "terms", "list", "load", "search", "aborted"}
    /\ term \in 0 .. Len(terms)
    /\ phase # "dictionary" => dict = [k \in 1 .. Len(terms) |-> k + 1]
    /\ phase \in {"dictionary", "header"} => term = 0
    /\ \A j \in 1 .. term : ~IsTilde(j)
    /\ phase = "list" => term < Len(terms) /\ ~IsTilde(term + 1)
    /\ phase \in {"load", "search", "aborted"} => ~(term < Len(terms) /\ ~IsTilde(term + 1))

\* The list being built is that of the next term, and its first block begins
\* at no offset, as load takes for granted of a list of one block.
FirstAtZero ==
    IF done = 0 THEN \A s \in Streams : offset[s] = 0 ELSE \A s \in Streams : block[0].at[s] = 0

Building ==
    /\ phase \in {"dictionary", "header", "terms", "load", "aborted"} => mode = "idle"
    /\ phase = "list" =>
          /\ mode \in {"compress", "built"}
          /\ IsList(Wanted(term + 1))
          /\ size = Wanted(term + 1).size
          /\ ids = Wanted(term + 1).ids
          /\ freqs = Wanted(term + 1).freqs
          /\ FirstAtZero

\* The file of n elements is the lists at these positions, two dummies and
\* the lists of the terms written, one behind the other.
FileOf(n, at) ==
    /\ IsSeq(file, n)
    /\ file[1] = Len(terms) + 2
    /\ at[0] = 2 /\ at[term + 2] = n + 1
    /\ \A j \in 0 .. term + 1 :
          /\ at[j] \in Nat \ {0}
          /\ Within(file, at[j], n)
          /\ Reading(file, at[j]).next = at[j + 1]
    /\ \A k \in 1 .. term : ListFor(Reading(file, at[k + 1]), Wanted(k))

\* The lists loaded are those in the file, then empty ones.
Loading(n, at) ==
    \E m \in 0 .. Len(terms) + 2 :
        /\ IsSeq(lists, m)
        /\ \A j \in 1 .. m :
              lists[j] = IF j <= term + 2 THEN Reading(file, at[j - 1]) ELSE EmptyList
        /\ phase \in {"terms", "list"} => m = 0
        /\ phase = "load" => pos = IF m <= term + 2 THEN at[m] ELSE n + 1
        /\ phase = "search" => m = Len(terms) + 2

FileInv ==
    /\ Passes /\ Building /\ IInv
    /\ phase \in {"dictionary", "header"} => lists = <<>>
    /\ phase \notin {"dictionary", "header"} => \E n, at : FileOf(n, at) /\ Loading(n, at)

-----------------------------------------------------------------------------
(* The list written is the list built.                                     *)

\* The list w is the one being compressed or decompressed.
IsGiven(w) == w.size = size /\ w.ids = ids /\ w.freqs = freqs

\* Then its blocks and their contents are the ones of the list.
LEMMA GivenBlocks ==
    ASSUME NEW w, IsGiven(w)
    PROVE  /\ BlocksOf(w.size) = NumBlocks
           /\ \A b : CountIn(w.size, b) = PostingsIn(b)
           /\ \A s, b : ContentOf(w, s, b) = Content(s, b)
<1>1. BlocksOf(w.size) = NumBlocks
  BY DEF IsGiven, BlocksOf, NumBlocks
<1>2. \A b : CountIn(w.size, b) = PostingsIn(b)
  BY <1>1 DEF IsGiven, CountIn, PostingsIn
<1>3. \A p : Difference(w, p) = Delta(p)
  BY DEF IsGiven, Difference, Delta
<1>4. \A s, b : ContentOf(w, s, b) = Content(s, b)
  BY <1>2, <1>3 DEF IsGiven, ContentOf, Content
<1> QED
  BY <1>1, <1>2, <1>4

\* The largest of some numbers, of which there is a last one, is one of them.
LEMMA TopExists ==
    ASSUME NEW f, NEW lo \in Nat, NEW hi \in Nat, lo <= hi, \A p \in lo .. hi : f[p] \in Nat
    PROVE  \E q \in lo .. hi : \A p \in lo .. hi : f[q] >= f[p]
<1> DEFINE Has(m) == \E q \in lo .. m : \A p \in lo .. m : f[q] >= f[p]
           C == {m \in Nat : lo <= m /\ m <= hi /\ ~Has(m)}
<1>1. C = {}
  <2> SUFFICES ASSUME C # {} PROVE FALSE
    OBVIOUS
  <2>1. PICK m \in C : \A k \in C : m <= k
    <3>1. C \in SUBSET Nat
      OBVIOUS
    <3> HIDE DEF C
    <3> QED
      BY <3>1, LeastExists
  <2>2. m \in Nat /\ lo <= m /\ m <= hi /\ ~Has(m)
    BY <2>1
  <2>3. CASE m = lo
    <3>1. lo \in lo .. m /\ \A p \in lo .. m : p = lo
      BY <2>2, <2>3
    <3>2. f[lo] \in Nat /\ f[lo] >= f[lo]
      BY <2>2, <3>1
    <3> QED
      BY <2>2, <3>1, <3>2
  <2>4. CASE m # lo
    <3>1. m - 1 \in Nat /\ lo <= m - 1 /\ m - 1 <= hi /\ ~(m <= m - 1)
      BY <2>2, <2>4
    <3>2. Has(m - 1)
      BY <2>1, <3>1
    <3>3. PICK q \in lo .. m - 1 : \A p \in lo .. m - 1 : f[q] >= f[p]
      BY <3>2
    <3>4. /\ q \in lo .. m /\ m \in lo .. m /\ q \in lo .. hi /\ m \in lo .. hi
          /\ \A p \in lo .. m : p \in lo .. m - 1 \/ p = m
          /\ \A p \in lo .. m : p \in lo .. hi
      BY <2>2, <3>1
    <3>5. f[q] \in Nat /\ f[m] \in Nat
      BY <3>4
    <3>6. CASE f[q] >= f[m]
      <4>1. \A p \in lo .. m : f[q] >= f[p]
        BY <3>3, <3>4, <3>6
      <4> QED
        BY <2>2, <3>4, <4>1
    <3>7. CASE ~(f[q] >= f[m])
      <4>1. ASSUME NEW p \in lo .. m PROVE f[m] >= f[p]
        <5>1. f[p] \in Nat
          BY <3>4
        <5>2. CASE p = m
          BY <3>5, <5>2
        <5>3. CASE p \in lo .. m - 1
          BY <3>3, <3>5, <3>7, <5>1, <5>3
        <5> QED
          BY <3>4, <5>2, <5>3
      <4> QED
        BY <2>2, <3>4, <4>1
    <3> QED
      BY <3>6, <3>7
  <2> QED
    BY <2>3, <2>4
<1>2. Has(hi)
  <2>1. hi \in C \/ Has(hi)
    OBVIOUS
  <2> HIDE DEF Has, C
  <2> QED
    BY <1>1, <2>1
<1> QED
  BY <1>2

\* Starting from nothing makes no difference to it.
LEMMA LargestIsTop ==
    ASSUME NEW w, IsGiven(w), NEW lo \in Nat, NEW hi \in Nat, lo <= hi,
           \A p \in lo .. hi : freqs[p] \in Nat
    PROVE  Largest(lo .. hi) = TopOf(w, lo .. hi)
<1> DEFINE S == {freqs[p] : p \in lo .. hi}
<1>1. PICK q \in lo .. hi : \A p \in lo .. hi : freqs[q] >= freqs[p]
  BY TopExists
<1> DEFINE x == freqs[q]
<1>2. x \in S /\ x \in Nat /\ \A y \in S : y \in Nat /\ x >= y
  BY <1>1
<1> HIDE DEF x, S
<1>3. Max(S) = x
  <2>1. ASSUME NEW z \in S, \A y \in S : z >= y PROVE z = x
    <3>1. z \in Nat /\ z >= x /\ x >= z
      BY <1>2, <2>1
    <3> QED
      BY <1>2, <3>1
  <2> QED
    BY <1>2, <2>1 DEF Max
<1>4. Max(S \cup {0}) = x
  <2>1. x \in S \cup {0} /\ \A y \in S \cup {0} : x >= y
    BY <1>2
  <2>2. ASSUME NEW z \in S \cup {0}, \A y \in S \cup {0} : z >= y PROVE z = x
    <3>1. z \in Nat /\ z >= x /\ x >= z
      BY <1>2, <2>1, <2>2
    <3> QED
      BY <1>2, <3>1
  <2> QED
    BY <2>1, <2>2 DEF Max
<1>5. Largest(lo .. hi) = Max(S \cup {0})
  BY DEF Largest, S
<1>6. TopOf(w, lo .. hi) = Max(S)
  BY DEF TopOf, S, IsGiven
<1> QED
  BY <1>3, <1>4, <1>5, <1>6

\* The postings of a block are those whose number divided by the block size
\* is the number of the block.
LEMMA InBlockIs ==
    ASSUME NEW w, IsGiven(w), size \in Nat, NEW b \in 0 .. NumBlocks - 1
    PROVE  /\ InBlock(w, b) = BlockSize * b .. BlockSize * b + PostingsIn(b) - 1
           /\ BlockSize * b \in Nat /\ PostingsIn(b) \in 1 .. BlockSize
           /\ BlockSize * b + PostingsIn(b) <= size
<1> DEFINE t == BlockSize * b  n == PostingsIn(b)
<1>1. b \in Nat /\ t \in Nat /\ n \in 1 .. BlockSize /\ t + n <= size /\ BlockSize \in Nat \ {0}
  BY PostingsInFacts, NumBlocksFacts, BlockSizeType
<1>2. t + n = size \/ n = BlockSize
  <2>1. NumBlocks \in Nat
    BY NumBlocksFacts
  <2>2. b = NumBlocks - 1 \/ b + 1 <= NumBlocks - 1
    BY <1>1, <2>1
  <2> QED
    BY <2>2, PostingsInFacts
<1>3. ASSUME NEW p \in InBlock(w, b) PROVE p \in t .. t + n - 1
  <2>1. p \in Nat /\ p <= size - 1 /\ p \div BlockSize = b
    BY DEF InBlock, IsGiven
  <2>2. p % BlockSize \in 0 .. BlockSize - 1 /\ p = BlockSize * b + (p % BlockSize)
    BY <1>1, <2>1, DivMod
  <2> DEFINE r == p % BlockSize
  <2>3. r \in Nat /\ r < BlockSize /\ p = t + r
    BY <1>1, <2>2
  <2> HIDE DEF t, n, r
  <2> QED
    BY <1>1, <1>2, <2>1, <2>3
<1>4. ASSUME NEW p \in t .. t + n - 1 PROVE p \in InBlock(w, b)
  <2> DEFINE r == p - t
  <2>1. r \in 0 .. BlockSize - 1 /\ p = t + r /\ p \in 0 .. size - 1
    <3> HIDE DEF t, n
    <3> QED
      BY <1>1
  <2> HIDE DEF r
  <2>2. p \div BlockSize = b
    BY <1>1, <2>1, DivUnique
  <2> QED
    BY <2>1, <2>2 DEF InBlock, IsGiven
<1> HIDE DEF t, n
<1>5. InBlock(w, b) = t .. t + n - 1
  BY <1>3, <1>4
<1> QED
  BY <1>1, <1>5 DEF t, n

\* The last posting of a block has the largest number in it, and every posting
\* is in a block.
LEMMA LastOfBlock ==
    ASSUME NEW w, IsGiven(w), size \in Nat
    PROVE  /\ \A b \in 0 .. NumBlocks - 1 : Max(InBlock(w, b)) = BlockSize * b + PostingsIn(b) - 1
           /\ \A p \in 0 .. size - 1 : p \div BlockSize \in 0 .. NumBlocks - 1
<1>1. ASSUME NEW b \in 0 .. NumBlocks - 1
      PROVE  Max(InBlock(w, b)) = BlockSize * b + PostingsIn(b) - 1
  <2> DEFINE lo == BlockSize * b  n == PostingsIn(b)  hi == lo + n - 1  S == InBlock(w, b)
  <2>1. S = lo .. lo + n - 1 /\ lo \in Nat /\ n \in 1 .. BlockSize /\ BlockSize \in Nat
    BY InBlockIs, BlockSizeType
  <2> HIDE DEF lo, n, S
  <2>2. hi \in S /\ hi \in Nat /\ \A y \in S : y \in Nat /\ hi >= y
    BY <2>1
  <2> HIDE DEF hi
  <2>3. ASSUME NEW z \in S, \A y \in S : z >= y PROVE z = hi
    <3>1. z \in Nat /\ z >= hi /\ hi >= z
      BY <2>2, <2>3
    <3> QED
      BY <2>2, <3>1
  <2>4. Max(S) = hi
    BY <2>2, <2>3 DEF Max
  <2> QED
    BY <2>4 DEF hi, lo, n, S
<1>2. ASSUME NEW p \in 0 .. size - 1 PROVE p \div BlockSize \in 0 .. NumBlocks - 1
  <2> DEFINE q == p \div BlockSize  r == p % BlockSize
  <2>1. q \in Nat /\ r \in Nat /\ p = BlockSize * q + r /\ p < size
    BY BlockSizeType, DivMod
  <2> HIDE DEF q, r
  <2>2. BlockSize * q \in Nat /\ (q \in 0 .. NumBlocks - 1 <=> BlockSize * q < size)
    BY <2>1, BlockExists
  <2>3. BlockSize * q < size
    <3> DEFINE t == BlockSize * q
    <3>1. t \in Nat /\ p = t + r
      BY <2>1, <2>2
    <3> HIDE DEF t
    <3>2. t < size
      BY <2>1, <3>1
    <3> QED
      BY <3>2 DEF t
  <2> QED
    BY <2>2, <2>3 DEF q
<1> QED
  BY <1>1, <1>2

\* The bounds written are those of the list.
LEMMA BoundsWritten ==
    ASSUME NEW w, IsGiven(w), IsList(w), form \in {"bmw", "wand"}
    PROVE  /\ ListMaximum = TopOf(w, 0 .. w.size - 1)
           /\ form = "bmw" =>
                BlockMaxima = [b \in 1 .. BlocksOf(w.size) |-> TopOf(w, InBlock(w, b - 1))]
<1>1. size \in Nat \ {0} /\ freqs \in [0 .. size - 1 -> Nat] /\ w.size = size
  BY DEF IsList, IsGiven
<1>2. ListMaximum = TopOf(w, 0 .. w.size - 1)
  <2>1. 0 \in Nat /\ size - 1 \in Nat /\ 0 <= size - 1 /\ \A p \in 0 .. size - 1 : freqs[p] \in Nat
    BY <1>1
  <2>2. Largest(0 .. size - 1) = TopOf(w, 0 .. size - 1)
    BY <2>1, LargestIsTop
  <2> QED
    BY <1>1, <2>2 DEF ListMaximum
<1>3. ASSUME form = "bmw"
      PROVE  BlockMaxima = [b \in 1 .. BlocksOf(w.size) |-> TopOf(w, InBlock(w, b - 1))]
  <2>1. BlockMaxima = [b \in 1 .. NumBlocks |->
            Largest(BlockSize * (b - 1) .. BlockSize * (b - 1) + PostingsIn(b - 1) - 1)]
    BY <1>3 DEF BlockMaxima
  <2>2. ASSUME NEW b \in 1 .. NumBlocks
        PROVE  Largest(BlockSize * (b - 1) .. BlockSize * (b - 1) + PostingsIn(b - 1) - 1)
                = TopOf(w, InBlock(w, b - 1))
    <3> DEFINE c == b - 1  lo == BlockSize * c  n == PostingsIn(c)
    <3>1. c \in 0 .. NumBlocks - 1
      BY <1>1, NumBlocksFacts
    <3>2. InBlock(w, c) = lo .. lo + n - 1 /\ lo \in Nat /\ n \in 1 .. BlockSize /\ lo + n <= size
      <4> HIDE DEF c
      <4> QED
        BY <1>1, <3>1, InBlockIs
    <3>3. BlockSize \in Nat
      BY BlockSizeType
    <3> HIDE DEF lo, n, c
    <3>4. /\ lo + n - 1 \in Nat /\ lo <= lo + n - 1
          /\ \A p \in lo .. lo + n - 1 : freqs[p] \in Nat
      BY <1>1, <3>2, <3>3
    <3>5. Largest(lo .. lo + n - 1) = TopOf(w, lo .. lo + n - 1)
      BY <3>2, <3>4, LargestIsTop
    <3> QED
      BY <3>2, <3>5 DEF lo, n, c
  <2>3. BlocksOf(w.size) = NumBlocks
    BY GivenBlocks
  <2> QED
    BY <2>1, <2>2, <2>3
<1> QED
  BY <1>2, <1>3

\* What serialize wrote of a built list is read as a list for its postings.
LEMMA ListWritten ==
    ASSUME IInv, mode = "built", NEW w, IsGiven(w), IsList(w), FirstAtZero,
           form \in {"bmw", "wand"},
           NEW f, NEW p \in Nat \ {0}, \A x \in 1 .. Length : f[p + x - 1] = Serialized[x]
    PROVE  /\ Length \in Nat \ {0} /\ IsSeq(Serialized, Length)
           /\ Within(f, p, p + Length - 1)
           /\ Reading(f, p).next = p + Length
           /\ ListFor(Reading(f, p), w)
<1>1. /\ size \in Nat \ {0} /\ offset \in [Streams -> Nat] /\ size <= done /\ done \in Nat
      /\ w.size = size /\ w.ids = ids
      /\ \A b \in 0 .. NumBlocks - 1 :
            block[b] \in [max : Nat, at : [Streams -> Nat], bytes : [Streams -> Int]]
  BY DEF IInv, TypeInv, Progress, IsList, IsGiven
<1>2. \A s \in Streams : block[0].at[s] = 0
  BY <1>1 DEF FirstAtZero
<1> DEFINE r == Reading(f, p)
<1>3. /\ Length \in Nat \ {0} /\ IsSeq(Serialized, Length)
      /\ Within(f, p, p + Length - 1)
      /\ r = [size |-> size,
              block |-> [b \in 0 .. NumBlocks - 1 |-> block[b]],
              mem |-> [s \in Streams |->
                         [v \in 0 .. offset[s] - 1 |-> Contents(s, offset[s])[v + 1]]],
              words |-> offset,
              bmax |-> BlockMaxima,
              max |-> ListMaximum,
              next |-> p + Length]
  BY <1>1, <1>2, ReadsBack
<1> HIDE DEF r
<1>4. /\ r.size = size /\ r.words = offset /\ r.next = p + Length
      /\ r.block = [b \in 0 .. NumBlocks - 1 |-> block[b]]
      /\ r.mem = [s \in Streams |->
                    [v \in 0 .. offset[s] - 1 |-> Contents(s, offset[s])[v + 1]]]
      /\ r.bmax = BlockMaxima /\ r.max = ListMaximum
  BY <1>3
<1>5. /\ BlocksOf(w.size) = NumBlocks
      /\ \A b : CountIn(w.size, b) = PostingsIn(b)
      /\ \A s, b : ContentOf(w, s, b) = Content(s, b)
  BY GivenBlocks
<1>6. ASSUME NEW s \in Streams
      PROVE  /\ offset[s] \in Nat /\ offset[s] % 4 = 0 /\ offset[s] <= 2 * size + 4
             /\ DOMAIN mem[s] \subseteq 0 .. offset[s] - 1
             /\ r.mem[s] = [v \in 0 .. offset[s] - 1 |-> Contents(s, offset[s])[v + 1]]
  BY <1>1, <1>4 DEF IInv, OffsetsBounded
<1>7. ArraysOf(r, w)
  <2>1. r.size = w.size /\ r.words \in [Streams -> Nat] /\ r.mem = [s \in Streams |-> r.mem[s]]
    BY <1>1, <1>4
  <2>2. ASSUME NEW s \in Streams
        PROVE  /\ r.words[s] % 4 = 0 /\ r.words[s] <= 2 * w.size + 4
               /\ DOMAIN r.mem[s] \subseteq 0 .. r.words[s] - 1
    BY <1>1, <1>4, <1>6
  <2> QED
    BY <2>1, <2>2 DEF ArraysOf
<1>8. ASSUME NEW b \in 0 .. NumBlocks - 1 PROVE BlockOf(r, w, b)
  <2>1. BlockSize * b < done
    <3>1. b \in Nat /\ BlockSize * b \in Nat /\ BlockSize * b < size
      BY <1>1, NumBlocksFacts, BlockExists
    <3> QED
      BY <1>1, <3>1
  <2>2. b \in DOMAIN r.block /\ r.block[b] = block[b]
    BY <1>4
  <2>3. block[b] \in [max : Nat, at : [Streams -> Nat], bytes : [Streams -> Int]]
    BY <1>1
  <2>4. block[b].max = ids[BlockSize * b + PostingsIn(b) - 1]
    BY DEF IInv, LastIds
  <2>5. ASSUME NEW s \in Streams
        PROVE  /\ block[b].at[s] % 4 = 0 /\ block[b].bytes[s] > 0
               /\ block[b].at[s] + Words(block[b].bytes[s]) <= offset[s]
               /\ Intact(s, b, Content(s, b))
    BY <2>1 DEF IInv, BlocksIntact, BlocksEnd
  <2>6. ASSUME NEW s \in Streams, NEW k \in 0 .. Words(block[b].bytes[s]) - 1
        PROVE  /\ block[b].at[s] + k \in DOMAIN r.mem[s]
               /\ r.mem[s][block[b].at[s] + k] = [data |-> Content(s, b), part |-> k]
    <3> DEFINE a == block[b].at[s] + k
    <3>1. a \in DOMAIN mem[s] /\ mem[s][a] = [data |-> Content(s, b), part |-> k]
      BY <2>5 DEF Intact
    <3> HIDE DEF a
    <3>0. a \in 0 .. offset[s] - 1 /\ offset[s] \in Nat
      BY <1>6, <3>1
    <3>2. (a + 1) - 1 = a /\ a + 1 \in 1 .. offset[s]
      BY <3>0
    <3>3. Contents(s, offset[s])[a + 1] = mem[s][a]
      BY <3>1, <3>2 DEF Contents
    <3>4. a \in DOMAIN r.mem[s] /\ r.mem[s][a] = mem[s][a]
      BY <1>6, <3>0, <3>3
    <3> QED
      BY <3>1, <3>4 DEF a
  <2> QED
    BY <1>1, <1>4, <1>5, <2>2, <2>3, <2>4, <2>5, <2>6 DEF BlockOf
<1>9. BoundsOf(r, w)
  <2>1. DOMAIN r.block = 0 .. NumBlocks - 1
    BY <1>4
  <2>2. /\ \A b \in 0 .. NumBlocks - 1 : Max(InBlock(w, b)) = BlockSize * b + PostingsIn(b) - 1
        /\ \A q \in 0 .. size - 1 : q \div BlockSize \in 0 .. NumBlocks - 1
    BY <1>1, LastOfBlock
  <2>3. ASSUME NEW b \in 0 .. NumBlocks - 1
        PROVE  r.block[b].max = w.ids[Max(InBlock(w, b))]
    <3>1. block[b].max = ids[BlockSize * b + PostingsIn(b) - 1]
      BY DEF IInv, LastIds
    <3> QED
      BY <1>1, <1>4, <2>2, <3>1
  <2>4. /\ ListMaximum = TopOf(w, 0 .. w.size - 1)
        /\ form = "bmw" =>
             BlockMaxima = [b \in 1 .. BlocksOf(w.size) |-> TopOf(w, InBlock(w, b - 1))]
    BY BoundsWritten
  <2> QED
    BY <1>1, <1>4, <1>5, <2>1, <2>2, <2>3, <2>4 DEF BoundsOf
<1>10. ListFor(r, w)
  BY <1>5, <1>7, <1>8, <1>9 DEF ListFor
<1> QED
  BY <1>3, <1>4, <1>10 DEF r

\* A dummy list is read as an empty list of one block.
LEMMA DummyReads ==
    ASSUME NEW f, NEW p \in Nat \ {0}, \A x \in 1 .. 8 : f[p + x - 1] = DummyFields[x]
    PROVE  Within(f, p, p + 7) /\ Reading(f, p).next = p + 8
<1>1. /\ DummyFields[1] = 0 /\ DummyFields[5] = 0 /\ DummyFields[6] = 0 /\ DummyFields[7] = 0
  BY DEF DummyFields
<1>2. f[p] = 0 /\ f[p + 4] = 0 /\ f[p + 4 + 1] = 0 /\ f[p + 6] = 0
  <2>1. /\ 1 \in 1 .. 8 /\ 5 \in 1 .. 8 /\ 6 \in 1 .. 8 /\ 7 \in 1 .. 8
        /\ p + 1 - 1 = p /\ p + 5 - 1 = p + 4 /\ p + 6 - 1 = p + 4 + 1 /\ p + 7 - 1 = p + 6
    OBVIOUS
  <2> QED
    BY <1>1, <2>1
<1>3. OneBlock(f[p])
  BY <1>2, BlockSizeType DEF OneBlock
<1>4. CountsAt(f, p) = p + 4
  BY <1>3 DEF CountsAt
<1>5. WordsAt(f, p) = [s \in Streams |-> 0]
  BY <1>2, <1>4 DEF WordsAt
<1>6. MaximaAt(f, p) = p + 6
  <2>1. FromAt(f, p)["freq"] = p + 4 + 2 + 0 /\ WordsAt(f, p)["freq"] = 0
    BY <1>4, <1>5 DEF FromAt, Streams
  <2> QED
    BY <2>1 DEF MaximaAt
<1>7. MaximaAt(f, p) + f[MaximaAt(f, p)] + 2 = p + 8 /\ MaximaAt(f, p) + f[MaximaAt(f, p)] + 1 <= p + 7
  BY <1>2, <1>6
<1>8. Reading(f, p).next = p + 8
  BY <1>7 DEF Reading
<1>9. Within(f, p, p + 7)
  BY <1>2, <1>5, <1>6, <1>7 DEF Within
<1> QED
  BY <1>8, <1>9

-----------------------------------------------------------------------------
(* Looking a list up.                                                      *)

\* Taking a list for w from the lists loaded gives a list that has all its
\* blocks.
LEMMA TakenList ==
    ASSUME NEW l, NEW w, ListFor(l, w),
           size' = l.size, block' = l.block, mem' = l.mem, offset' = l.words,
           ids' = w.ids, freqs' = w.freqs, done' = w.size, mode' = "built"
    PROVE  IInv'
<1>1. /\ size' \in Nat \ {0} /\ size' = w.size /\ done' = size'
      /\ ids' \in [0 .. size' - 1 -> Nat] /\ freqs' \in [0 .. size' - 1 -> Nat]
  BY DEF ListFor, ArraysOf, IsList
<1>2. NumBlocks' = BlocksOf(w.size)
  BY <1>1 DEF NumBlocks, BlocksOf
<1>3. \A b : PostingsIn(b)' = CountIn(w.size, b)
  BY <1>1, <1>2 DEF PostingsIn, CountIn
<1>4. \A s, b : Content(s, b)' = ContentOf(w, s, b)
  BY <1>3 DEF Content, ContentOf, Delta, Difference
<1>5. /\ offset' \in [Streams -> Nat] /\ mem' = [s \in Streams |-> mem'[s]]
      /\ \A s \in Streams : /\ offset'[s] % 4 = 0 /\ offset'[s] <= 2 * size' + 4
                            /\ DOMAIN mem'[s] \subseteq 0 .. offset'[s] - 1
  BY <1>1 DEF ListFor, ArraysOf
<1>6. \A b \in 0 .. NumBlocks' - 1 : BlockOf(l, w, b)
  BY <1>2 DEF ListFor
<1>7. TypeInv'
  <2>1. \A b \in 0 .. NumBlocks' - 1 :
          /\ b \in DOMAIN block'
          /\ block'[b] \in [max : Nat, at : [Streams -> Nat], bytes : [Streams -> Int]]
    BY <1>6 DEF BlockOf
  <2> QED
    BY <1>1, <1>5, <2>1 DEF TypeInv
<1>8. Progress'
  BY <1>1 DEF Progress
<1>9. OffsetsBounded'
  BY <1>5 DEF OffsetsBounded
<1>10. BlocksEnd'
  BY <1>6 DEF BlocksEnd, BlockOf, Words
<1>11. LastIds'
  BY <1>3, <1>6 DEF LastIds, BlockOf
<1>12. BlocksIntact'
  <2>1. ASSUME NEW b \in 0 .. NumBlocks' - 1, NEW s \in Streams
        PROVE  /\ block'[b].at[s] % 4 = 0 /\ block'[b].bytes[s] > 0
               /\ Intact(s, b, Content(s, b))'
    <3>1. /\ block'[b].at[s] % 4 = 0 /\ block'[b].bytes[s] > 0
          /\ \A k \in 0 .. Words(block'[b].bytes[s]) - 1 :
                /\ block'[b].at[s] + k \in DOMAIN mem'[s]
                /\ mem'[s][block'[b].at[s] + k] = [data |-> ContentOf(w, s, b), part |-> k]
      BY <1>6 DEF BlockOf
    <3> QED
      BY <1>4, <3>1 DEF Intact, Words
  <2> QED
    BY <2>1 DEF BlocksIntact
<1>13. Counters' /\ DecodesBlock'
  BY DEF Counters, DecodesBlock, Working
<1> QED
  BY <1>7, <1>8, <1>9, <1>10, <1>11, <1>12, <1>13 DEF IInv

\* So does taking one of the empty lists behind the end of the file.
LEMMA TakenEmpty ==
    ASSUME size' = 0, block' = EmptyList.block, mem' = EmptyList.mem, offset' = EmptyList.words,
           ids' = <<>>, freqs' = <<>>, done' = 0, mode' = "built"
    PROVE  IInv'
<1>1. NumBlocks' = 0
  <2>1. BlockSize - 1 \in 0 .. BlockSize - 1 /\ BlockSize * 0 + (BlockSize - 1) = 0 + BlockSize - 1
    BY BlockSizeType
  <2>2. (0 + BlockSize - 1) \div BlockSize = 0
    BY <2>1, BlockSizeType, DivUnique
  <2> QED
    BY <2>2 DEF NumBlocks
<1>2. 0 .. NumBlocks' - 1 = {}
  BY <1>1
<1>3. offset' = [s \in Streams |-> 0] /\ mem' = [s \in Streams |-> <<>>]
  BY DEF EmptyList
<1>4. TypeInv'
  BY <1>2, <1>3 DEF TypeInv
<1>5. OffsetsBounded'
  BY <1>3 DEF OffsetsBounded
<1>6. Progress' /\ Counters' /\ DecodesBlock'
  BY DEF Progress, Counters, DecodesBlock, Working
<1>7. BlocksEnd' /\ LastIds' /\ BlocksIntact'
  BY <1>2 DEF BlocksEnd, LastIds, BlocksIntact
<1> QED
  BY <1>4, <1>5, <1>6, <1>7 DEF IInv

-----------------------------------------------------------------------------
(* One step of the two programs.                                           *)

\* What a list is for does not change with the other variables.
LEMMA SameLists ==
    ASSUME UNCHANGED <<terms, form>>
    PROVE  /\ \A k : Wanted(k)' = Wanted(k)
           /\ \A k : IsTilde(k)' = IsTilde(k)
           /\ \A l, w : ListFor(l, w) => ListFor(l, w)'
<1>1. \A k : Wanted(k)' = Wanted(k) /\ IsTilde(k)' = IsTilde(k)
  BY DEF Wanted, IsTilde
<1>2. \A l, w : BoundsOf(l, w) => BoundsOf(l, w)'
  BY DEF BoundsOf
<1>3. \A l, w : ListFor(l, w) => ListFor(l, w)'
  BY <1>2 DEF ListFor
<1> QED
  BY <1>1, <1>3

\* The file stays as it is.
LEMMA SameFile ==
    ASSUME UNCHANGED <<file, terms, term, form>>, NEW n, NEW at, FileOf(n, at)
    PROVE  FileOf(n, at)'
<1>1. \A k : Wanted(k)' = Wanted(k)
  BY SameLists
<1>2. \A l, w : ListFor(l, w) => ListFor(l, w)'
  BY SameLists
<1>3. \A k \in 1 .. term : ListFor(Reading(file, at[k + 1]), Wanted(k))'
  BY <1>1, <1>2 DEF FileOf
<1> QED
  BY <1>3 DEF FileOf

\* Nor do the lists loaded from it.
LEMMA SameLoading ==
    ASSUME UNCHANGED <<phase, file, terms, term, pos, lists>>, NEW n, NEW at, Loading(n, at)
    PROVE  Loading(n, at)'
<1>1. EmptyList' = EmptyList
  BY DEF EmptyList
<1> QED
  BY <1>1 DEF Loading

\* Steps of the codec leave both programs where they are.
LEMMA SamePrograms ==
    ASSUME FileInv, UNCHANGED fileVars
    PROVE  /\ Passes'
           /\ phase' \in {"dictionary", "header"} => lists' = <<>>
           /\ phase' \notin {"dictionary", "header"} =>
                \E n, at : FileOf(n, at)' /\ Loading(n, at)'
<1>1. UNCHANGED <<phase, terms, dict, term, file, pos, lists, form>>
  BY DEF fileVars
<1>2. Passes'
  BY <1>1, SameLists DEF FileInv, Passes
<1>3. ASSUME phase \notin {"dictionary", "header"}
      PROVE  \E n, at : FileOf(n, at)' /\ Loading(n, at)'
  <2>1. PICK n, at : FileOf(n, at) /\ Loading(n, at)
    BY <1>3 DEF FileInv
  <2>2. FileOf(n, at)'
    BY <1>1, <2>1, SameFile
  <2>3. Loading(n, at)'
    BY <1>1, <2>1, SameLoading
  <2> QED
    BY <2>2, <2>3
<1> QED
  BY <1>1, <1>2, <1>3 DEF FileInv

\* The numbers of terms are numbers.
LEMMA Terms ==
    ASSUME Passes
    PROVE  /\ Len(terms) \in Nat /\ DOMAIN terms = 1 .. Len(terms)
           /\ term \in Nat /\ term <= Len(terms)
<1>1. Len(terms) \in Nat /\ DOMAIN terms = 1 .. Len(terms)
  BY CollectionsAssumption DEF Passes
<1> QED
  BY <1>1 DEF Passes

\* At first nothing is written.
LEMMA FileInitInv == FileInit => FileInv
<1> SUFFICES ASSUME FileInit PROVE FileInv
  OBVIOUS
<1>1. IInv
  BY InitInv DEF FileInit
<1>2. Len(terms) \in Nat
  BY CollectionsAssumption DEF FileInit
<1>3. Passes
  BY <1>2 DEF FileInit, Passes
<1>4. Building
  BY DEF FileInit, Init, Building
<1> QED
  BY <1>1, <1>3, <1>4 DEF FileInv, FileInit

\* The first pass.
LEMMA WriteDictionaryKeepsInv == ASSUME FileInv, WriteDictionary PROVE FileInv'
<1>1. /\ phase = "dictionary" /\ phase' = "header" /\ dict' = [k \in 1 .. Len(terms) |-> k + 1]
      /\ UNCHANGED vars /\ UNCHANGED <<terms, term, file, pos, lists, form>>
  BY DEF WriteDictionary
<1>2. IInv'
  BY <1>1, StutterKeepsInv DEF FileInv
<1>3. Passes'
  BY <1>1, SameLists DEF FileInv, Passes
<1>4. Building'
  BY <1>1 DEF FileInv, Building, vars
<1> QED
  BY <1>1, <1>2, <1>3, <1>4 DEF FileInv

\* More room behind a list.
LEMMA WithinMore ==
    ASSUME NEW f, NEW p \in Nat \ {0}, NEW n \in Nat, NEW m \in Nat, n <= m, Within(f, p, n)
    PROVE  Within(f, p, m) /\ p <= n
<1>1. MaximaAt(f, p) \in Nat /\ f[MaximaAt(f, p)] \in Nat
  BY PartsInOrder
<1>2. MaximaAt(f, p) + f[MaximaAt(f, p)] + 1 <= n
  BY DEF Within
<1>3. MaximaAt(f, p) + f[MaximaAt(f, p)] + 1 <= m
  BY <1>1, <1>2
<1>4. p <= n
  BY ReadAgain
<1> QED
  BY <1>3, <1>4 DEF Within

\* The header and the two dummies.
LEMMA WriteHeaderKeepsInv == ASSUME FileInv, WriteHeader PROVE FileInv'
<1>1. /\ phase = "header" /\ phase' = "terms"
      /\ file' = <<Len(terms) + 2>> \o DummyFields \o DummyFields
      /\ UNCHANGED vars /\ UNCHANGED <<terms, dict, term, pos, lists, form>>
  BY DEF WriteHeader
<1>2. IInv'
  BY <1>1, StutterKeepsInv DEF FileInv
<1>3. Passes' /\ term' = 0
  BY <1>1, SameLists DEF FileInv, Passes
<1>4. Building'
  BY <1>1 DEF FileInv, Building, vars
<1>5. PICK h, D, g, f : /\ h = <<Len(terms) + 2>> /\ D = DummyFields
                        /\ g = Cat(h, D) /\ f = Cat(g, D)
  OBVIOUS
<1>6. file' = f
  BY <1>1, <1>5, Zenon DEF Cat
<1>7. IsSeq(h, 1) /\ h[1] = Len(terms) + 2 /\ IsSeq(D, 8)
  <2>1. IsSeq(D, 8)
    BY <1>5 DEF DummyFields, IsSeq
  <2> QED
    BY <1>5, <2>1, ShortSeqs
<1>8. /\ IsSeq(g, 9) /\ \A x \in 1 .. 1 : g[x] = h[x]
      /\ \A x \in 1 .. 8 : g[1 + x] = D[x]
  <2>1. Behind(g, h, 1, D, 8)
    BY <1>5, <1>7 DEF Behind
  <2>2. 1 + 8 = 9
    OBVIOUS
  <2> QED
    BY <2>1, <2>2, Joined
<1>9. /\ IsSeq(f, 17) /\ \A x \in 1 .. 9 : f[x] = g[x]
      /\ \A x \in 1 .. 8 : f[9 + x] = D[x]
  <2>1. Behind(f, g, 9, D, 8)
    BY <1>5, <1>7, <1>8 DEF Behind
  <2>2. 9 + 8 = 17
    OBVIOUS
  <2> QED
    BY <2>1, <2>2, Joined
<1>10. f[1] = Len(terms) + 2
  BY <1>7, <1>8, <1>9
<1>11. Within(f, 2, 17) /\ Reading(f, 2).next = 10
  <2>1. ASSUME NEW x \in 1 .. 8 PROVE f[2 + x - 1] = DummyFields[x]
    <3>1. 2 + x - 1 = 1 + x /\ 1 + x \in 1 .. 9
      OBVIOUS
    <3> QED
      BY <1>5, <1>8, <1>9, <3>1
  <2>2. Within(f, 2, 2 + 7) /\ Reading(f, 2).next = 2 + 8
    BY <2>1, DummyReads
  <2> QED
    BY <2>2, WithinMore
<1>12. Within(f, 10, 17) /\ Reading(f, 10).next = 18
  <2>1. ASSUME NEW x \in 1 .. 8 PROVE f[10 + x - 1] = DummyFields[x]
    <3>1. 10 + x - 1 = 9 + x
      OBVIOUS
    <3> QED
      BY <1>5, <1>9, <3>1
  <2>2. Within(f, 10, 10 + 7) /\ Reading(f, 10).next = 10 + 8
    BY <2>1, DummyReads
  <2> QED
    BY <2>2
<1>13. PICK at : at[0] = 2 /\ at[1] = 10 /\ at[2] = 18
  <2>1. [j \in 0 .. 2 |-> 2 + 8 * j][0] = 2 /\ [j \in 0 .. 2 |-> 2 + 8 * j][1] = 10
        /\ [j \in 0 .. 2 |-> 2 + 8 * j][2] = 18
    OBVIOUS
  <2> QED
    BY <2>1
<1>14. FileOf(17, at)'
  <2>1. \A j \in 0 .. term' + 1 : j = 0 \/ j = 1
    BY <1>3
  <2>2. \A j \in 0 .. term' + 1 :
          /\ at[j] \in Nat \ {0}
          /\ Within(f, at[j], 17)
          /\ Reading(f, at[j]).next = at[j + 1]
    BY <1>11, <1>12, <1>13, <2>1
  <2>3. at[term' + 2] = 17 + 1 /\ 1 .. term' = {}
    BY <1>3, <1>13
  <2> QED
    BY <1>1, <1>6, <1>9, <1>10, <1>13, <2>2, <2>3 DEF FileOf
<1>15. Loading(17, at)'
  <2>1. lists' = <<>> /\ IsSeq(lists', 0) /\ 0 \in 0 .. Len(terms') + 2
    BY <1>1, <1>3, Terms, ShortSeqs DEF FileInv
  <2>2. \A j \in 1 .. 0 : FALSE
    OBVIOUS
  <2> QED
    BY <1>1, <2>1, <2>2 DEF Loading
<1> QED
  BY <1>1, <1>2, <1>3, <1>4, <1>14, <1>15 DEF FileInv

\* The next term's list.
LEMMA NextTermKeepsInv == ASSUME FileInv, NextTerm PROVE FileInv'
<1>1. PICK l \in PostingsLists : l = Wanted(term + 1) /\ Construct(l)
  BY DEF NextTerm
<1>2. /\ phase = "terms" /\ term < Len(terms) /\ ~IsTilde(term + 1) /\ phase' = "list"
      /\ UNCHANGED <<terms, dict, term, file, pos, lists, form>>
  BY DEF NextTerm
<1>3. IInv'
  BY <1>1, ConstructKeepsInv DEF FileInv
<1>4. Passes'
  BY <1>2, SameLists DEF FileInv, Passes
<1>5. Building'
  <2>1. /\ size' = l.size /\ ids' = l.ids /\ freqs' = l.freqs /\ mode' = "compress"
        /\ done' = 0 /\ offset' = [s \in Streams |-> 0]
    BY <1>1 DEF Construct
  <2>2. IsList(l) /\ Wanted(term + 1)' = l
    BY <1>1, <1>2, CodecAssumption DEF Wanted
  <2>3. FirstAtZero'
    BY <2>1 DEF FirstAtZero
  <2> QED
    BY <1>2, <2>1, <2>2, <2>3 DEF Building
<1>6. PICK n, at : FileOf(n, at) /\ Loading(n, at)
  BY <1>2 DEF FileInv
<1>7. FileOf(n, at)'
  BY <1>2, <1>6, SameFile
<1>8. Loading(n, at)'
  BY <1>2, <1>6 DEF Loading
<1> QED
  BY <1>2, <1>3, <1>4, <1>5, <1>7, <1>8 DEF FileInv

\* Its blocks; the first begins where nothing is written yet.
LEMMA CompressTermKeepsInv == ASSUME FileInv, CompressTerm PROVE FileInv'
<1>1. phase = "list" /\ UNCHANGED fileVars /\ phase' = phase /\ terms' = terms /\ term' = term
  BY DEF CompressTerm, fileVars
<1>2. IInv /\ IInv'
  BY CompressBlockKeepsInv, FinishCompressKeepsInv DEF FileInv, CompressTerm, Compress
<1>3. /\ mode' \in {"compress", "built"} /\ UNCHANGED input /\ FirstAtZero'
  <2>1. CASE CompressBlock
    <3>1. mode = "compress" /\ mode' \in {"no room", mode} /\ done' = done + BlockSize
          /\ UNCHANGED input
      BY <2>1 DEF CompressBlock
    <3>2. mode' # "no room"
      BY <1>2 DEF IInv, TypeInv, Working
    <3>3. /\ done \in Nat /\ done < size /\ size \in Nat /\ offset \in [Streams -> Nat]
          /\ done = BlockSize * (done \div BlockSize) /\ BlockSize \in Nat \ {0}
      BY <1>2, <2>1, <3>1, BlockSizeType DEF IInv, TypeInv, Progress, CompressBlock
    <3>4. done' # 0
      <4>1. done \in Nat /\ BlockSize \in Nat \ {0} /\ done' = done + BlockSize
        BY <3>1, <3>3
      <4> QED
        BY <4>1
    <3> DEFINE b == done \div BlockSize
    <3>5. b \in Nat
      BY <3>3, DivMod
    <3>6. PICK bytes \in [Streams -> ByteSizes] :
            block' = [block EXCEPT ![b].at = offset, ![b].bytes = bytes]
      BY <2>1 DEF CompressBlock
    <3>7. /\ 0 \in DOMAIN block
          /\ block[0] \in [max : Nat, at : [Streams -> Nat], bytes : [Streams -> Int]]
      <4>1. BlockSize * 0 = 0 /\ 0 < size
        BY <3>3
      <4>2. 0 \in 0 .. NumBlocks - 1
        BY <3>3, <4>1, BlockExists
      <4> QED
        BY <1>2, <4>2 DEF IInv, TypeInv
    <3>8. FirstAtZero
      BY <1>1 DEF FileInv, Building
    <3>9. \A s \in Streams : block'[0].at[s] = 0
      <4>1. CASE done = 0
        <5>1. b = 0
          <6> HIDE DEF b
          <6>1. b # 0 => BlockSize * b # 0
            BY <3>3, <3>5
          <6> QED
            BY <3>3, <4>1, <6>1 DEF b
        <5> HIDE DEF b
        <5>2. block'[0].at = offset
          BY <3>6, <3>7, <5>1
        <5> QED
          BY <3>8, <4>1, <5>2 DEF FirstAtZero
      <4>2. CASE done # 0
        <5>1. b # 0
          BY <3>3, <4>2
        <5> HIDE DEF b
        <5>2. block'[0] = block[0]
          BY <3>6, <3>7, <5>1
        <5> QED
          BY <3>8, <4>2, <5>2 DEF FirstAtZero
      <4> QED
        BY <4>1, <4>2
    <3> QED
      BY <3>1, <3>2, <3>4, <3>9 DEF FirstAtZero
  <2>2. CASE FinishCompress
    <3>1. mode' = "built" /\ UNCHANGED <<input, compressed>>
      BY <2>2 DEF FinishCompress
    <3> QED
      BY <1>1, <3>1 DEF FileInv, Building, FirstAtZero, compressed
  <2> QED
    BY <2>1, <2>2 DEF CompressTerm, Compress
<1>4. Building'
  <2>1. Wanted(term + 1)' = Wanted(term + 1)
    BY <1>1 DEF Wanted
  <2> QED
    BY <1>1, <1>3, <2>1 DEF FileInv, Building, input
<1> QED
  BY <1>1, <1>2, <1>4, SamePrograms DEF FileInv

\* The list is complete in the file.
LEMMA WriteListKeepsInv == ASSUME FileInv, WriteList PROVE FileInv'
<1>1. /\ phase = "list" /\ mode = "built" /\ file' = file \o Serialized
      /\ term' = term + 1 /\ phase' = "terms" /\ mode' = "idle"
      /\ UNCHANGED <<size, ids, freqs, done, offset, block, mem, blk, i, prev, buf, fbuf,
                     terms, dict, pos, lists, form>>
  BY DEF WriteList, input, compressed, decoded
<1>2. IInv'
  <2>1. NumBlocks' = NumBlocks /\ \A b : PostingsIn(b)' = PostingsIn(b)
    BY <1>1 DEF NumBlocks, PostingsIn
  <2>2. \A s, b : Content(s, b)' = Content(s, b)
    BY <1>1, <2>1 DEF Content, Delta
  <2>3. TypeInv'
    BY <1>1, <2>1 DEF FileInv, IInv, TypeInv
  <2>4. Progress'
    BY <1>1 DEF FileInv, IInv, Progress
  <2>5. OffsetsBounded'
    BY <1>1 DEF FileInv, IInv, OffsetsBounded
  <2>6. BlocksEnd' /\ LastIds'
    BY <1>1, <2>1 DEF FileInv, IInv, BlocksEnd, LastIds, Words
  <2>7. BlocksIntact'
    BY <1>1, <2>1, <2>2 DEF FileInv, IInv, BlocksIntact, Intact, Words
  <2>8. Counters' /\ DecodesBlock'
    BY <1>1 DEF Counters, DecodesBlock, Working
  <2> QED
    BY <2>3, <2>4, <2>5, <2>6, <2>7, <2>8 DEF IInv
<1>3. /\ Len(terms) \in Nat /\ term \in Nat /\ term + 1 <= Len(terms)
      /\ \A j \in 1 .. term : ~IsTilde(j)
      /\ ~IsTilde(term + 1)
  BY <1>1, Terms DEF FileInv, Passes
<1>4. Passes'
  <2>1. term' \in 0 .. Len(terms)
    BY <1>1, <1>3
  <2>2. \A j \in 1 .. term' : ~IsTilde(j)
    BY <1>1, <1>3
  <2> QED
    BY <1>1, <2>1, <2>2, SameLists DEF FileInv, Passes
<1>5. Building'
  BY <1>1 DEF Building
<1> DEFINE w == Wanted(term + 1)
<1>6. IsGiven(w) /\ IsList(w) /\ FirstAtZero
  BY <1>1 DEF FileInv, Building, IsGiven
<1>7. PICK n, at : FileOf(n, at) /\ Loading(n, at)
  BY <1>1 DEF FileInv
<1>8. IsSeq(file, n) /\ n \in Nat
  BY <1>7 DEF FileOf, IsSeq
<1>9. IsSeq(Serialized, Length) /\ Length \in Nat \ {0}
  <2>1. PICK f : f = [x \in 1 .. Length |-> Serialized[x]]
    OBVIOUS
  <2>2. \A x \in 1 .. Length : f[1 + x - 1] = Serialized[x]
    <3>1. ASSUME NEW x \in 1 .. Length PROVE f[1 + x - 1] = Serialized[x]
      <4>1. 1 + x - 1 = x
        OBVIOUS
      <4> QED
        BY <2>1, <4>1
    <3> QED
      BY <3>1
  <2>3. form \in {"bmw", "wand"} /\ IInv /\ 1 \in Nat \ {0}
    BY DEF FileInv, Passes
  <2> HIDE DEF w
  <2> QED
    BY <1>1, <1>6, <2>2, <2>3, ListWritten
<1>10. /\ IsSeq(file', n + Length)
       /\ \A x \in 1 .. n : file'[x] = file[x]
       /\ \A x \in 1 .. Length : file'[n + x] = Serialized[x]
  <2>1. Behind(file', file, n, Serialized, Length)
    BY <1>1, <1>8, <1>9 DEF Behind, Cat
  <2> QED
    BY <2>1, Joined
<1>17. PICK N \in Nat : N = n + Length
  BY <1>8, <1>9
<1>11. /\ Within(file', n + 1, N)
       /\ Reading(file', n + 1).next = N + 1
       /\ ListFor(Reading(file', n + 1), w)
  <2>1. \A x \in 1 .. Length : file'[(n + 1) + x - 1] = Serialized[x]
    <3>1. ASSUME NEW x \in 1 .. Length PROVE file'[(n + 1) + x - 1] = Serialized[x]
      <4>1. (n + 1) + x - 1 = n + x
        BY <1>8, <1>9
      <4> QED
        BY <1>10, <4>1
    <3> QED
      BY <3>1
  <2>2. form \in {"bmw", "wand"} /\ IInv
    BY DEF FileInv, Passes
  <2>3. n + 1 \in Nat \ {0} /\ (n + 1) + Length - 1 = N /\ (n + 1) + Length = N + 1
    BY <1>8, <1>9, <1>17
  <2> HIDE DEF w
  <2>4. /\ Within(file', n + 1, (n + 1) + Length - 1)
        /\ Reading(file', n + 1).next = (n + 1) + Length
        /\ ListFor(Reading(file', n + 1), w)
    BY <1>1, <1>6, <2>1, <2>2, <2>3, ListWritten
  <2> QED
    BY <2>3, <2>4
<1>12. ASSUME NEW j \in 0 .. term + 1
       PROVE  /\ at[j] \in Nat \ {0} /\ at[j] <= n
              /\ Within(file', at[j], N)
              /\ Reading(file', at[j]) = Reading(file, at[j])
              /\ Reading(file', at[j]).next = at[j + 1]
  <2>1. at[j] \in Nat \ {0} /\ Within(file, at[j], n) /\ Reading(file, at[j]).next = at[j + 1]
    BY <1>7 DEF FileOf
  <2>2. /\ Reading(file', at[j]) = Reading(file, at[j]) /\ Within(file', at[j], n) /\ at[j] <= n
    BY <1>8, <1>10, <2>1, ReadAgain
  <2>3. Within(file', at[j], N)
    <3>1. N \in Nat /\ n <= N
      BY <1>8, <1>9, <1>17
    <3> QED
      BY <1>8, <2>1, <2>2, <3>1, WithinMore
  <2> QED
    BY <2>1, <2>2, <2>3
<1>13. PICK to : \A j \in 0 .. term + 3 : to[j] = IF j <= term + 2 THEN at[j] ELSE N + 1
  <2>1. \A j \in 0 .. term + 3 :
          [x \in 0 .. term + 3 |-> IF x <= term + 2 THEN at[x] ELSE N + 1][j]
            = IF j <= term + 2 THEN at[j] ELSE N + 1
    OBVIOUS
  <2> QED
    BY <2>1
<1>14. at[0] = 2 /\ at[term + 2] = n + 1 /\ file[1] = Len(terms) + 2
  BY <1>7 DEF FileOf
<1>15. FileOf(N, to)'
  <2>1. IsSeq(file', N)
    BY <1>10, <1>17
  <2>2. file'[1] = Len(terms) + 2
    <3>1. 0 \in 0 .. term + 1
      BY <1>3
    <3>2. 1 \in 1 .. n
      BY <1>8, <1>12, <1>14, <3>1
    <3> QED
      BY <1>10, <1>14, <3>2
  <2>3. to[0] = 2 /\ to[term' + 2] = N + 1
    <3>1. 0 \in 0 .. term + 3 /\ 0 <= term + 2 /\ term' + 2 = term + 3 /\ ~(term + 3 <= term + 2)
          /\ term + 3 \in 0 .. term + 3
      BY <1>1, <1>3
    <3> QED
      BY <1>13, <1>14, <3>1
  <2>4. ASSUME NEW j \in 0 .. term' + 1
        PROVE  /\ to[j] \in Nat \ {0}
               /\ Within(file', to[j], N)
               /\ Reading(file', to[j]).next = to[j + 1]
    <3>1. CASE j \in 0 .. term + 1
      <4>1. j \in 0 .. term + 3 /\ j + 1 \in 0 .. term + 3 /\ j <= term + 2 /\ j + 1 <= term + 2
        BY <1>3, <3>1
      <4>2. to[j] = at[j] /\ to[j + 1] = at[j + 1]
        BY <1>13, <4>1
      <4> QED
        BY <1>12, <3>1, <4>2
    <3>2. CASE j = term + 2
      <4>1. /\ j \in 0 .. term + 3 /\ j + 1 \in 0 .. term + 3 /\ j <= term + 2
            /\ ~(j + 1 <= term + 2)
        BY <1>3, <3>2
      <4>2. to[j] = n + 1 /\ to[j + 1] = N + 1
        BY <1>13, <1>14, <3>2, <4>1
      <4> QED
        BY <1>8, <1>11, <4>2
    <3>3. j \in 0 .. term + 1 \/ j = term + 2
      BY <1>1, <1>3
    <3> QED
      BY <3>1, <3>2, <3>3
  <2>5. ASSUME NEW k \in 1 .. term' PROVE ListFor(Reading(file', to[k + 1]), Wanted(k))
    <3>1. CASE k \in 1 .. term
      <4>1. k + 1 \in 0 .. term + 3 /\ k + 1 <= term + 2 /\ k + 1 \in 0 .. term + 1
        BY <1>3, <3>1
      <4>2. to[k + 1] = at[k + 1] /\ Reading(file', at[k + 1]) = Reading(file, at[k + 1])
        BY <1>12, <1>13, <4>1
      <4>3. ListFor(Reading(file, at[k + 1]), Wanted(k))
        BY <1>7, <3>1 DEF FileOf
      <4> QED
        BY <4>2, <4>3
    <3>2. CASE k = term + 1
      <4>1. k + 1 \in 0 .. term + 3 /\ k + 1 <= term + 2 /\ k + 1 = term + 2
        BY <1>3, <3>2
      <4>2. to[k + 1] = n + 1
        BY <1>13, <1>14, <4>1
      <4> QED
        BY <1>11, <3>2, <4>2
    <3>3. k \in 1 .. term \/ k = term + 1
      BY <1>1, <1>3
    <3> QED
      BY <3>1, <3>2, <3>3
  <2>6. (\A k \in 1 .. term : ListFor(Reading(file, to[k + 1]), Wanted(k)))'
    <3>1. \A k : Wanted(k)' = Wanted(k)
      BY <1>1, SameLists
    <3>2. \A l, v : ListFor(l, v) => ListFor(l, v)'
      BY <1>1, SameLists
    <3> QED
      BY <2>5, <3>1, <3>2
  <2> QED
    BY <1>1, <2>1, <2>2, <2>3, <2>4, <2>6 DEF FileOf
<1>16. Loading(N, to)'
  <2>1. IsSeq(lists', 0) /\ 0 \in 0 .. Len(terms') + 2
    BY <1>1, <1>3, <1>7 DEF Loading
  <2>2. \A j \in 1 .. 0 : FALSE
    OBVIOUS
  <2> QED
    BY <1>1, <2>1, <2>2 DEF Loading
<1> QED
  BY <1>1, <1>2, <1>4, <1>5, <1>15, <1>16 DEF FileInv

\* The end of the second pass: the loader begins behind the header.
LEMMA CloseFileKeepsInv == ASSUME FileInv, CloseFile PROVE FileInv'
<1>1. /\ phase = "terms" /\ ~(term < Len(terms) /\ ~IsTilde(term + 1))
      /\ phase' = "load" /\ pos' = 2 /\ UNCHANGED vars
      /\ UNCHANGED <<terms, dict, term, file, lists, form>>
  BY DEF CloseFile
<1>2. IInv'
  BY <1>1, StutterKeepsInv DEF FileInv
<1>3. Passes'
  <2>1. ~(term < Len(terms) /\ ~IsTilde(term + 1))'
    BY <1>1 DEF IsTilde
  <2> QED
    BY <1>1, <2>1, SameLists DEF FileInv, Passes
<1>4. Building'
  BY <1>1 DEF FileInv, Building, vars
<1>5. PICK n, at : FileOf(n, at) /\ Loading(n, at)
  BY <1>1 DEF FileInv
<1>6. FileOf(n, at)'
  BY <1>1, <1>5, SameFile
<1>7. Loading(n, at)'
  <2>1. IsSeq(lists', 0) /\ 0 \in 0 .. Len(terms') + 2 /\ \A j \in 1 .. 0 : FALSE
    BY <1>1, <1>5 DEF Loading
  <2>2. pos' = at[0] /\ 0 <= term' + 2
    BY <1>1, <1>5, Terms DEF FileInv, FileOf
  <2> QED
    BY <1>1, <2>1, <2>2 DEF Loading
<1> QED
  BY <1>1, <1>2, <1>3, <1>4, <1>6, <1>7 DEF FileInv

\* What the loader knows of the lists it has.
LEMMA LoadingState ==
    ASSUME FileInv, phase \in {"load", "search"}
    PROVE  \E n, at, m :
              /\ FileOf(n, at) /\ Loading(n, at)
              /\ n \in Nat /\ m \in 0 .. Len(terms) + 2 /\ term \in Nat /\ Len(terms) \in Nat
              /\ Len(file) = n
              /\ IsSeq(lists, m) /\ Len(lists) = m
              /\ \A j \in 1 .. m :
                    lists[j] = IF j <= term + 2 THEN Reading(file, at[j - 1]) ELSE EmptyList
              /\ phase = "load" => pos = IF m <= term + 2 THEN at[m] ELSE n + 1
              /\ phase = "search" => m = Len(terms) + 2
              /\ \A j \in 0 .. term + 1 : at[j] \in Nat /\ at[j] <= n
<1>1. PICK n, at : FileOf(n, at) /\ Loading(n, at)
  BY DEF FileInv
<1>2. PICK m \in 0 .. Len(terms) + 2 :
        /\ IsSeq(lists, m)
        /\ \A j \in 1 .. m :
              lists[j] = IF j <= term + 2 THEN Reading(file, at[j - 1]) ELSE EmptyList
        /\ phase = "load" => pos = IF m <= term + 2 THEN at[m] ELSE n + 1
        /\ phase = "search" => m = Len(terms) + 2
  BY <1>1 DEF Loading
<1>3. IsSeq(file, n) /\ n \in Nat
  BY <1>1 DEF FileOf, IsSeq
<1>4. Len(file) = n /\ Len(lists) = m
  BY <1>2, <1>3, SeqLength
<1>5. \A j \in 0 .. term + 1 : at[j] \in Nat /\ at[j] <= n
  <2>1. ASSUME NEW j \in 0 .. term + 1 PROVE at[j] \in Nat /\ at[j] <= n
    <3>1. at[j] \in Nat \ {0} /\ Within(file, at[j], n)
      BY <1>1 DEF FileOf
    <3> QED
      BY <1>3, <3>1, WithinMore
  <2> QED
    BY <2>1
<1>6. term \in Nat /\ Len(terms) \in Nat
  BY Terms DEF FileInv
<1> WITNESS n, at, m
<1> QED
  BY <1>1, <1>2, <1>3, <1>4, <1>5, <1>6

\* The loader reads the next list of the file.
LEMMA LoadNextKeepsInv == ASSUME FileInv, LoadNext PROVE FileInv'
<1>1. /\ phase = "load" /\ phase' = "load" /\ Len(lists) < file[1] /\ pos <= Len(file)
      /\ lists' = Append(lists, Reading(file, pos)) /\ pos' = Reading(file, pos).next
      /\ UNCHANGED vars /\ UNCHANGED <<phase, terms, dict, term, file, form>>
  BY ReadIs DEF LoadNext
<1>2. IInv'
  BY <1>1, StutterKeepsInv DEF FileInv
<1>3. Passes'
  BY <1>1, SameLists DEF FileInv, Passes
<1>4. Building'
  BY <1>1 DEF FileInv, Building, vars
<1>5. PICK n, at, m :
        /\ FileOf(n, at)
        /\ n \in Nat /\ m \in 0 .. Len(terms) + 2 /\ term \in Nat /\ Len(terms) \in Nat
        /\ Len(file) = n
        /\ IsSeq(lists, m) /\ Len(lists) = m
        /\ \A j \in 1 .. m :
              lists[j] = IF j <= term + 2 THEN Reading(file, at[j - 1]) ELSE EmptyList
        /\ pos = IF m <= term + 2 THEN at[m] ELSE n + 1
  BY <1>1, LoadingState
<1>6. FileOf(n, at)'
  BY <1>1, <1>5, SameFile
<1>7. /\ file[1] = Len(terms) + 2 /\ at[term + 2] = n + 1
      /\ \A j \in 0 .. term + 1 : Reading(file, at[j]).next = at[j + 1]
  BY <1>5 DEF FileOf
<1>8. m <= term + 1 /\ pos = at[m] /\ m + 1 \in 0 .. Len(terms) + 2
  <2>1. pos <= n /\ m < Len(terms) + 2
    BY <1>1, <1>5, <1>7
  <2>2. m = term + 2 => pos = n + 1
    BY <1>5, <1>7
  <2>3. m > term + 2 => pos = n + 1
    BY <1>5
  <2>4. ~(n + 1 <= n)
    BY <1>5
  <2>5. m <= term + 1
    BY <1>5, <2>1, <2>2, <2>3, <2>4
  <2> QED
    BY <1>5, <2>1, <2>5
<1>9. /\ IsSeq(lists', m + 1) /\ \A j \in 1 .. m : lists'[j] = lists[j]
      /\ lists'[m + 1] = Reading(file, at[m])
  <2>1. lists' = Append(lists, Reading(file, at[m]))
    BY <1>1, <1>8
  <2> QED
    BY <1>5, <2>1, Appended
<1>10. EmptyList' = EmptyList
  BY <1>1 DEF EmptyList
<1>11. ASSUME NEW j \in 1 .. m + 1
       PROVE  lists'[j] = IF j <= term + 2 THEN Reading(file, at[j - 1]) ELSE EmptyList
  <2>1. CASE j = m + 1
    <3>1. j <= term + 2 /\ j - 1 = m
      BY <1>5, <1>8, <2>1
    <3> QED
      BY <1>9, <2>1, <3>1
  <2>2. CASE j # m + 1
    <3>1. j \in 1 .. m
      BY <1>5, <2>2
    <3> QED
      BY <1>5, <1>9, <3>1
  <2> QED
    BY <2>1, <2>2
<1>12. pos' = at[m + 1] /\ m + 1 <= term + 2
  <2>1. m \in 0 .. term + 1
    BY <1>5, <1>8
  <2> QED
    BY <1>1, <1>5, <1>7, <1>8, <2>1
<1>13. Loading(n, at)'
  <2>1. m + 1 \in 0 .. Len(terms') + 2
    BY <1>1, <1>8
  <2> QED
    BY <1>1, <1>9, <1>10, <1>11, <1>12, <2>1 DEF Loading
<1> QED
  BY <1>1, <1>2, <1>3, <1>4, <1>6, <1>13 DEF FileInv

\* The file has no list left, but the header promises one.
LEMMA LoadPastEndKeepsInv == ASSUME FileInv, LoadPastEnd PROVE FileInv'
<1>1. /\ phase = "load" /\ Len(lists) < file[1] /\ pos > Len(file)
      /\ UNCHANGED vars /\ UNCHANGED <<terms, dict, term, pos, file, form>>
      /\ \/ lists' = Append(lists, EmptyList) /\ phase' = phase
         \/ lists' = lists /\ phase' = "aborted"
  BY DEF LoadPastEnd
<1>2. IInv'
  BY <1>1, StutterKeepsInv DEF FileInv
<1>3. Passes'
  BY <1>1, SameLists DEF FileInv, Passes
<1>4. Building'
  BY <1>1 DEF FileInv, Building, vars
<1>5. PICK n, at, m :
        /\ FileOf(n, at)
        /\ n \in Nat /\ m \in 0 .. Len(terms) + 2 /\ term \in Nat /\ Len(terms) \in Nat
        /\ Len(file) = n
        /\ IsSeq(lists, m) /\ Len(lists) = m
        /\ \A j \in 1 .. m :
              lists[j] = IF j <= term + 2 THEN Reading(file, at[j - 1]) ELSE EmptyList
        /\ pos = IF m <= term + 2 THEN at[m] ELSE n + 1
        /\ \A j \in 0 .. term + 1 : at[j] \in Nat /\ at[j] <= n
  BY <1>1, LoadingState
<1>6. FileOf(n, at)'
  BY <1>1, <1>5, SameFile
<1>7. file[1] = Len(terms) + 2 /\ at[term + 2] = n + 1
  BY <1>5 DEF FileOf
<1>8. m >= term + 2 /\ pos = n + 1 /\ m + 1 \in 0 .. Len(terms) + 2
  <2>1. ~(pos <= n) /\ m < Len(terms) + 2
    <3>1. pos \in Nat
      BY <1>5, <1>7
    <3> QED
      BY <1>1, <1>5, <1>7, <3>1
  <2>2. ~(m \in 0 .. term + 1)
    <3>1. ASSUME m \in 0 .. term + 1 PROVE FALSE
      <4>1. m <= term + 2 /\ at[m] <= n
        BY <1>5, <3>1
      <4> QED
        BY <1>5, <2>1, <4>1
    <3> QED
      BY <3>1
  <2>3. m >= term + 2
    BY <1>5, <2>2
  <2>4. m = term + 2 => pos = n + 1
    BY <1>5, <1>7
  <2>5. m > term + 2 => pos = n + 1
    BY <1>5
  <2> QED
    BY <1>5, <2>1, <2>3, <2>4, <2>5
<1>9. EmptyList' = EmptyList
  BY <1>1 DEF EmptyList
<1>10. Loading(n, at)'
  <2>1. CASE lists' = Append(lists, EmptyList) /\ phase' = phase
    <3>1. /\ IsSeq(lists', m + 1) /\ \A j \in 1 .. m : lists'[j] = lists[j]
          /\ lists'[m + 1] = EmptyList
      BY <1>5, <2>1, Appended
    <3>2. ASSUME NEW j \in 1 .. m + 1
          PROVE  lists'[j] = IF j <= term + 2 THEN Reading(file, at[j - 1]) ELSE EmptyList
      <4>1. CASE j = m + 1
        <5>1. ~(j <= term + 2)
          BY <1>5, <1>8, <4>1
        <5> QED
          BY <3>1, <4>1, <5>1
      <4>2. CASE j # m + 1
        <5>1. j \in 1 .. m
          BY <1>5, <4>2
        <5> QED
          BY <1>5, <3>1, <5>1
      <4> QED
        BY <4>1, <4>2
    <3>3. ~(m + 1 <= term + 2)
      BY <1>5, <1>8
    <3>4. m + 1 \in 0 .. Len(terms') + 2
      BY <1>1, <1>8
    <3> QED
      BY <1>1, <1>8, <1>9, <2>1, <3>1, <3>2, <3>3, <3>4 DEF Loading
  <2>2. CASE lists' = lists /\ phase' = "aborted"
    BY <1>1, <1>5, <1>9, <2>2 DEF Loading
  <2> QED
    BY <1>1, <2>1, <2>2
<1> QED
  BY <1>1, <1>2, <1>3, <1>4, <1>6, <1>10 DEF FileInv

\* All lists are there.
LEMMA LoadedKeepsInv == ASSUME FileInv, Loaded PROVE FileInv'
<1>1. /\ phase = "load" /\ Len(lists) = file[1] /\ phase' = "search"
      /\ UNCHANGED vars /\ UNCHANGED <<terms, dict, term, file, pos, lists, form>>
  BY DEF Loaded
<1>2. IInv'
  BY <1>1, StutterKeepsInv DEF FileInv
<1>3. Passes'
  BY <1>1, SameLists DEF FileInv, Passes
<1>4. Building'
  BY <1>1 DEF FileInv, Building, vars
<1>5. PICK n, at, m :
        /\ FileOf(n, at)
        /\ m \in 0 .. Len(terms) + 2
        /\ IsSeq(lists, m) /\ Len(lists) = m
        /\ \A j \in 1 .. m :
              lists[j] = IF j <= term + 2 THEN Reading(file, at[j - 1]) ELSE EmptyList
  BY <1>1, LoadingState
<1>6. FileOf(n, at)'
  BY <1>1, <1>5, SameFile
<1>7. m = Len(terms) + 2
  BY <1>1, <1>5 DEF FileOf
<1>8. EmptyList' = EmptyList
  BY <1>1 DEF EmptyList
<1>9. Loading(n, at)'
  BY <1>1, <1>5, <1>7, <1>8 DEF Loading
<1> QED
  BY <1>1, <1>2, <1>3, <1>4, <1>6, <1>9 DEF FileInv

\* The list the dictionary names is the one of the term, or empty.
LEMMA FoundList ==
    ASSUME FileInv, phase = "search", NEW k \in 1 .. Len(terms), NEW l, l = lists[dict[k] + 1]
    PROVE  IF PastTilde(k) THEN l = EmptyList ELSE ListFor(l, Wanted(k))
<1>1. PICK n, at, m :
        /\ FileOf(n, at)
        /\ m \in 0 .. Len(terms) + 2 /\ term \in Nat /\ Len(terms) \in Nat
        /\ \A j \in 1 .. m :
              lists[j] = IF j <= term + 2 THEN Reading(file, at[j - 1]) ELSE EmptyList
        /\ m = Len(terms) + 2
  BY LoadingState
<1>2. dict[k] = k + 1
  BY DEF FileInv, Passes
<1>3. k + 2 \in 1 .. m /\ l = lists[k + 2] /\ (k + 2) - 1 = k + 1
  <2>1. (k + 1) + 1 = k + 2
    BY <1>1
  <2> QED
    BY <1>1, <1>2, <2>1
<1>4. CASE k <= term
  <2>1. ~PastTilde(k)
    <3>1. \A j \in 1 .. term : ~IsTilde(j)
      BY DEF FileInv, Passes
    <3>2. \A j \in 1 .. k : j \in 1 .. term
      BY <1>1, <1>4
    <3> QED
      BY <3>1, <3>2 DEF PastTilde
  <2>2. k \in 1 .. term /\ k + 2 <= term + 2
    BY <1>1, <1>4
  <2>3. l = Reading(file, at[k + 1])
    BY <1>1, <1>3, <2>2
  <2>4. ListFor(Reading(file, at[k + 1]), Wanted(k))
    BY <1>1, <2>2 DEF FileOf
  <2> QED
    BY <2>1, <2>3, <2>4
<1>5. CASE ~(k <= term)
  <2>1. term < Len(terms) /\ term + 1 \in 1 .. k /\ ~(k + 2 <= term + 2)
    BY <1>1, <1>5
  <2>2. IsTilde(term + 1)
    BY <2>1 DEF FileInv, Passes
  <2>3. PastTilde(k)
    BY <2>1, <2>2 DEF PastTilde
  <2>4. l = EmptyList
    BY <1>1, <1>3, <2>1
  <2> QED
    BY <2>3, <2>4
<1> QED
  BY <1>4, <1>5

\* A term is looked up.
LEMMA LookUpKeepsInv == ASSUME FileInv, NEW k \in 1 .. Len(terms), LookUp(k) PROVE FileInv'
<1>1. /\ phase = "search" /\ mode' = "built" /\ UNCHANGED fileVars /\ phase' = phase
  BY DEF LookUp, fileVars
<1>2. PICK l : /\ l = lists[dict[k] + 1]
               /\ size' = l.size /\ block' = l.block /\ mem' = l.mem /\ offset' = l.words
  BY DEF LookUp
<1>3. PICK w : /\ w = IF PastTilde(k) THEN NoList ELSE Wanted(k)
               /\ ids' = w.ids /\ freqs' = w.freqs /\ done' = w.size
  BY DEF LookUp
<1>4. IF PastTilde(k) THEN l = EmptyList ELSE ListFor(l, Wanted(k))
  BY <1>1, <1>2, FoundList
<1>5. IInv'
  <2>1. CASE PastTilde(k)
    <3>1. l = EmptyList /\ l.size = 0
      BY <1>4, <2>1 DEF EmptyList
    <3>2. ids' = <<>> /\ freqs' = <<>> /\ done' = 0
      BY <1>3, <2>1 DEF NoList
    <3> QED
      BY <1>1, <1>2, <3>1, <3>2, TakenEmpty
  <2>2. CASE ~PastTilde(k)
    <3>1. ListFor(l, w)
      BY <1>3, <1>4, <2>2
    <3> QED
      BY <1>1, <1>2, <1>3, <3>1, TakenList
  <2> QED
    BY <2>1, <2>2
<1>6. Building'
  BY <1>1 DEF Building
<1> QED
  BY <1>1, <1>5, <1>6, SamePrograms DEF FileInv

\* Its blocks are decompressed.
LEMMA DecompressTermKeepsInv == ASSUME FileInv, DecompressTerm PROVE FileInv'
<1>1. phase = "search" /\ UNCHANGED fileVars /\ phase' = phase
  BY DEF DecompressTerm, fileVars
<1>2. IInv'
  BY BeginDecodeKeepsInv, SimdGroupKeepsInv, EndSimdKeepsInv, ScalarStepKeepsInv,
     DecodeFreqsKeepsInv DEF FileInv, DecompressTerm, Decompress
<1>3. Building'
  BY <1>1 DEF Building
<1> QED
  BY <1>1, <1>2, <1>3, SamePrograms DEF FileInv

\* Nothing happens.
LEMMA FileStutterKeepsInv == ASSUME FileInv, UNCHANGED allVars PROVE FileInv'
<1>1. UNCHANGED vars /\ UNCHANGED fileVars
  BY DEF allVars
<1>2. IInv'
  BY <1>1, StutterKeepsInv DEF FileInv
<1>3. Building'
  <2>1. Wanted(term + 1)' = Wanted(term + 1)
    BY <1>1 DEF Wanted, fileVars
  <2> QED
    BY <1>1, <2>1 DEF FileInv, Building, FirstAtZero, vars, input, compressed, fileVars
<1> QED
  BY <1>1, <1>2, <1>3, SamePrograms DEF FileInv

\* What the two programs have written, read and are compressing or
\* decompressing fits together in every state.
THEOREM FileInvariant == FileSpec => []FileInv
<1>1. FileInit => FileInv
  BY FileInitInv
<1>2. FileInv /\ [FileNext]_allVars => FileInv'
  <2> SUFFICES ASSUME FileInv, [FileNext]_allVars PROVE FileInv'
    OBVIOUS
  <2>1. CASE WriteDictionary
    BY <2>1, WriteDictionaryKeepsInv
  <2>2. CASE WriteHeader
    BY <2>2, WriteHeaderKeepsInv
  <2>3. CASE NextTerm
    BY <2>3, NextTermKeepsInv
  <2>4. CASE CompressTerm
    BY <2>4, CompressTermKeepsInv
  <2>5. CASE WriteList
    BY <2>5, WriteListKeepsInv
  <2>6. CASE CloseFile
    BY <2>6, CloseFileKeepsInv
  <2>7. CASE LoadNext
    BY <2>7, LoadNextKeepsInv
  <2>8. CASE LoadPastEnd
    BY <2>8, LoadPastEndKeepsInv
  <2>9. CASE Loaded
    BY <2>9, LoadedKeepsInv
  <2>10. CASE \E k \in 1 .. Len(terms) : LookUp(k)
    BY <2>10, LookUpKeepsInv
  <2>11. CASE DecompressTerm
    BY <2>11, DecompressTermKeepsInv
  <2>12. CASE UNCHANGED allVars
    BY <2>12, FileStutterKeepsInv
  <2> QED
    BY <2>1, <2>2, <2>3, <2>4, <2>5, <2>6, <2>7, <2>8, <2>9, <2>10, <2>11, <2>12 DEF FileNext
<1> QED
  BY <1>1, <1>2, PTL DEF FileSpec

\* No list of any collection runs out of room when it is compressed, and none
\* that is loaded again reaches beyond its arrays.
THEOREM FileRoomSuffices == FileSpec => []RoomSuffices
<1>1. FileInv => RoomSuffices
  BY InvRoomSuffices DEF FileInv
<1> QED
  BY <1>1, FileInvariant, PTL

\* The blocks of a list that went through the file are as they were encoded.
THEOREM FileBlocksIntact == FileSpec => []BlocksIntact
<1>1. FileInv => BlocksIntact
  BY DEF FileInv, IInv
<1> QED
  BY <1>1, FileInvariant, PTL

\* Decompressing a block of a loaded list gives the ids and frequencies of the
\* dump.
THEOREM FileDecodesBlock == FileSpec => []DecodesBlock
<1>1. FileInv => DecodesBlock
  BY DEF FileInv, IInv
<1> QED
  BY <1>1, FileInvariant, PTL

\* The number the dictionary gives a term leads to the list of that term, with
\* the bounds of its postings; from the first tilde on to a list of none.
THEOREM DictionaryIsRight == FileSpec => []DictionaryFindsList
<1>1. ASSUME FileInv, phase = "search", NEW k \in DOMAIN terms, ~PastTilde(k)
      PROVE  ListFor(lists[dict[k] + 1], Wanted(k))
  <2>1. k \in 1 .. Len(terms)
    BY <1>1, Terms DEF FileInv
  <2> QED
    BY <1>1, <2>1, FoundList
<1>2. ASSUME FileInv, phase = "search", NEW k \in DOMAIN terms, PastTilde(k)
      PROVE  lists[dict[k] + 1].size = 0
  <2>1. k \in 1 .. Len(terms)
    BY <1>2, Terms DEF FileInv
  <2>2. lists[dict[k] + 1] = EmptyList
    BY <1>2, <2>1, FoundList
  <2> QED
    BY <2>2 DEF EmptyList
<1>3. ASSUME NEW l, NEW w, ListFor(l, w)
      PROVE  /\ l.size = w.size
             /\ l.max = Max({w.freqs[p] : p \in 0 .. w.size - 1})
             /\ \A b \in DOMAIN l.block :
                   l.block[b].max = w.ids[Max({p \in 0 .. w.size - 1 : p \div BlockSize = b})]
             /\ \A p \in 0 .. w.size - 1 : p \div BlockSize \in DOMAIN l.block
             /\ form = "bmw" =>
                   l.bmax = [b \in 1 .. (w.size + BlockSize - 1) \div BlockSize |->
                               Max({w.freqs[p] : p \in {q \in 0 .. w.size - 1 :
                                                          q \div BlockSize = b - 1}})]
  <2>1. l.size = w.size
    BY <1>3 DEF ListFor, ArraysOf
  <2>2. l.max = Max({w.freqs[p] : p \in 0 .. w.size - 1})
    BY <1>3 DEF ListFor, BoundsOf, TopOf
  <2>3. \A b \in DOMAIN l.block :
           l.block[b].max = w.ids[Max({p \in 0 .. w.size - 1 : p \div BlockSize = b})]
    BY <1>3 DEF ListFor, BoundsOf, InBlock
  <2>4. \A p \in 0 .. w.size - 1 : p \div BlockSize \in DOMAIN l.block
    BY <1>3 DEF ListFor, BoundsOf
  <2>5. form = "bmw" =>
           l.bmax = [b \in 1 .. (w.size + BlockSize - 1) \div BlockSize |->
                       Max({w.freqs[p] : p \in {q \in 0 .. w.size - 1 :
                                                  q \div BlockSize = b - 1}})]
    BY <1>3 DEF ListFor, BoundsOf, TopOf, InBlock, BlocksOf
  <2> QED
    BY <2>1, <2>2, <2>3, <2>4, <2>5
<1>4. FileInv => DictionaryFindsList
  <2> SUFFICES ASSUME FileInv, phase = "search" PROVE DictionaryFindsList
    BY DEF DictionaryFindsList
  <2> QED
    BY <1>1, <1>2, <1>3, Zenon DEF DictionaryFindsList
<1> QED
  BY <1>4, FileInvariant, PTL

=============================================================================
