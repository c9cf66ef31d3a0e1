------------------------------ MODULE PostingsList ------------------------------
(***************************************************************************)
(* One compressed postings list (block_postings_list) and the iterator the *)
(* query engine moves over it (plist_iterator), as pure operators.  A list *)
(* is a record                                                             *)
(*                                                                         *)
(*     n    the number of postings (m_size)                                *)
(*     ids  the document identifiers, by position, strictly increasing     *)
(*     w    what the ranker scores each posting (calculate_docscore)       *)
(*     max  the upper bound for the whole list (m_list_maximum)            *)
(*     bmax the upper bounds of the blocks (m_block_maximums)              *)
(*                                                                         *)
(* cut into blocks of BlockSize postings.  Positions and blocks are        *)
(* numbered from 0, as in the code.  What decoding a block yields is its   *)
(* slice of ids: the codec itself is not part of this module.              *)
(*                                                                         *)
(* An iterator is a record of the fields of plist_iterator:                *)
(*                                                                         *)
(*     pos     m_cur_pos                                                   *)
(*     blk     m_cur_block_id, which block_containing_id moves on its own  *)
(*     accBlk  m_last_accessed_block, the block the decode buffer holds    *)
(*     accPos  m_last_accessed_id, the position docid was cached for       *)
(*     docid   m_cur_docid, the cached identifier (m_cur_freq is written   *)
(*             with it, always from the same slot)                         *)
(***************************************************************************)
EXTENDS Integers

CONSTANTS
    BlockSize,      \* t_block_size, 128 in every build of the program
    MaxSize         \* numeric_limits<uint64_t>::max(), the "unset" value

ASSUME BlockSizeAssumption == BlockSize \in Nat \ {0}
ASSUME MaxSizeAssumption == MaxSize \in Nat \ {0}

\* The least element of a set of numbers.
Least(S) == CHOOSE x \in S : \A y \in S : x <= y

-----------------------------------------------------------------------------
(* Lists and their blocks.                                                 *)

\* The lists the index holds: fewer than MaxSize - 1 postings, in document
\* order and without duplicates.
IsPostingsList(pl) ==
    /\ pl.n \in Nat
    /\ pl.n < MaxSize - 1
    /\ pl.ids \in [0 .. pl.n - 1 -> Nat]
    /\ \A p, q \in 0 .. pl.n - 1 : p < q => pl.ids[p] < pl.ids[q]

NumBlocks(pl) ==
    pl.n \div BlockSize + (IF pl.n % BlockSize # 0 THEN 1 ELSE 0)

BlockOf(p) == p \div BlockSize

\* One past the last position of block b, which is short when it is the last.
BlockEnd(pl, b) ==
    IF BlockSize * (b + 1) <= pl.n THEN BlockSize * (b + 1) ELSE pl.n

BlockPositions(pl, b) == BlockSize * b .. BlockEnd(pl, b) - 1

\* m_block_data[b].max_block_id, the representative of the block.
BlockRep(pl, b) == pl.ids[BlockEnd(pl, b) - 1]

\* The upper bounds a list is stored with really bound its scores.
IsBounded(pl) ==
    /\ \A p \in 0 .. pl.n - 1 : pl.w[p] <= pl.max
    /\ \A b \in 0 .. NumBlocks(pl) - 1 : \A p \in BlockPositions(pl, b) :
          pl.w[p] <= pl.bmax[b]

\* Mutant: a block whose representative is id itself is passed over.
MutFindBlock(pl, id, start) ==
    IF start >= NumBlocks(pl) THEN start
    ELSE Least({b \in start .. NumBlocks(pl) - 1 : BlockRep(pl, b) > id}
                 \cup {NumBlocks(pl)})

\* The first block from start on whose representative reaches id, and the
\* number of blocks when there is none.  The loop leaves a start that is
\* already past the last block as it is.
FindBlock(pl, id, start) ==
    IF start >= NumBlocks(pl) THEN start
    ELSE Least({b \in start .. NumBlocks(pl) - 1 : BlockRep(pl, b) >= id}
                 \cup {NumBlocks(pl)})

-----------------------------------------------------------------------------
(* The iterator.                                                           *)

\* begin(): a fresh iterator at position 0, its caches unset.
Begin == [pos |-> 0, blk |-> MaxSize, accBlk |-> MaxSize - 1,
          accPos |-> MaxSize - 1, docid |-> 0]

\* cur == end
AtEnd(pl, it) == it.pos = pl.n

Remaining(pl, it) == pl.n - it.pos

\* operator++ moves the position and nothing else: the cached document and
\* the block pointer stay behind.
Increment(it) == [it EXCEPT !.pos = it.pos + 1]

\* Mutant: decoding leaves the block pointer where a shallow move put it.
MutDeref(pl, it) ==
    IF it.pos = it.accPos THEN it
    ELSE [it EXCEPT !.accBlk = BlockOf(it.pos), !.accPos = it.pos,
                    !.docid = pl.ids[it.pos]]

\* Mutant: the cache is taken for valid when the decode buffer is.
MutDerefStale(pl, it) ==
    IF BlockOf(it.pos) = it.accBlk THEN it
    ELSE [it EXCEPT !.blk = BlockOf(it.pos), !.accBlk = BlockOf(it.pos),
                    !.accPos = it.pos, !.docid = pl.ids[it.pos]]

\* docid() and freq(): the cache when it was filled for this position, the
\* decoded slot of the position's own block otherwise.
Deref(pl, it) ==
    IF it.pos = it.accPos THEN it
    ELSE [it EXCEPT !.blk = BlockOf(it.pos), !.accBlk = BlockOf(it.pos),
                    !.accPos = it.pos, !.docid = pl.ids[it.pos]]

\* block_containing_id(id), the shallow move: the block pointer goes to the
\* block that would hold id, the position does not follow.
ShallowMove(pl, it, id) == [it EXCEPT !.blk = FindBlock(pl, id, it.blk)]

\* The slot lower_bound(first slot of the buffer or current slot, end, id)
\* finds, as a position of block b.
LowerBound(pl, b, from, id) ==
    Least({p \in BlockPositions(pl, b) : p >= from /\ pl.ids[p] >= id}
            \cup {BlockEnd(pl, b)})

\* Mutant: the end of the list is one block past the last, not its size.
MutSkipPastEnd(pl, it, id) ==
    LET b    == FindBlock(pl, id, it.blk)
        pos  == IF b = it.blk THEN it.pos ELSE BlockSize * b
        from == IF it.accBlk # b THEN BlockSize * b
                ELSE BlockSize * b + (pos % BlockSize)
        p    == LowerBound(pl, b, from, id)
    IN  IF id = it.docid THEN it
        ELSE IF b >= NumBlocks(pl)
             THEN [it EXCEPT !.blk = b, !.pos = BlockSize * b]
             ELSE [pos |-> p, blk |-> b, accBlk |-> b, accPos |-> p,
                   docid |-> pl.ids[BlockSize * b + (p % BlockSize)]]

\* skip_to_id(id).  The block search starts at the block pointer.  When the
\* pointer moves, the position moves to the first slot of the new block; the
\* search inside it starts at the first slot when the block had to be decoded
\* and at the current slot when the buffer held it already.
SkipTo(pl, it, id) ==
    LET b    == FindBlock(pl, id, it.blk)
        pos  == IF b = it.blk THEN it.pos ELSE BlockSize * b
        from == IF it.accBlk # b THEN BlockSize * b
                ELSE BlockSize * b + (pos % BlockSize)
        p    == LowerBound(pl, b, from, id)
    IN  IF id = it.docid THEN it
        ELSE IF b >= NumBlocks(pl)
             THEN [it EXCEPT !.blk = b, !.pos = pl.n]
             ELSE [pos |-> p, blk |-> b, accBlk |-> b, accPos |-> p,
                   docid |-> pl.ids[BlockSize * b + (p % BlockSize)]]

=============================================================================
