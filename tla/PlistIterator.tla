------------------------------ MODULE PlistIterator ------------------------------
(***************************************************************************)
(* One plist_iterator and a client that uses it as the query engine does.  *)
(*                                                                         *)
(* The iterator is not a general-purpose one.  ++ moves only the position; *)
(* the cached document and the block pointer catch up at the next docid(). *)
(* skip_to_id compares its argument with the cached document and starts    *)
(* from the block pointer, and block_containing_id moves that pointer      *)
(* without the position.  The engine relies on a protocol nobody wrote     *)
(* down, which the guards below make explicit:                             *)
(*                                                                         *)
(*   - docid() is read between ++ (or begin()) and the next search;        *)
(*   - the identifiers passed to the searches never decrease (floor);      *)
(*   - nothing is called at the end of the list (docid() and ++ throw).    *)
(*                                                                         *)
(* BmwSearch shows that the engine keeps it.                               *)
(***************************************************************************)
EXTENDS PostingsList

CONSTANTS
    Lists,      \* the postings lists to iterate over
    Ids         \* the identifiers the client may search for

ASSUME ListsAssumption == \A pl \in Lists : IsPostingsList(pl)
ASSUME IdsAssumption == Ids \subseteq Nat

VARIABLES
    pl,         \* the list (m_plist_ptr)
    it,         \* the iterator
    floor,      \* ghost: the largest identifier searched for so far
    out         \* what the last docid() returned, -1 before the first one

vars == <<pl, it, floor, out>>

\* The caches are in step with the position.
Synced == it.accPos = it.pos

TypeOK ==
    /\ pl \in Lists
    /\ it \in [pos : Nat, blk : Nat, accBlk : Nat, accPos : Nat, docid : Nat]
    /\ it.pos <= pl.n
    /\ floor \in Nat
    /\ out \in Nat \cup {-1}

Init ==
    /\ pl \in Lists
    /\ it = Begin
    /\ floor = 0
    /\ out = -1

\* docid()
Docid ==
    /\ ~AtEnd(pl, it)
    /\ it' = Deref(pl, it)
    /\ out' = it'.docid
    /\ UNCHANGED <<pl, floor>>

\* operator++
Advance ==
    /\ ~AtEnd(pl, it)
    /\ it' = Increment(it)
    /\ UNCHANGED <<pl, floor, out>>

\* block_containing_id(id)
BlockContainingId(id) ==
    /\ ~AtEnd(pl, it) /\ Synced /\ id >= floor
    /\ it' = ShallowMove(pl, it, id)
    /\ floor' = id
    /\ UNCHANGED <<pl, out>>

\* skip_to_id(id)
SkipToId(id) ==
    /\ ~AtEnd(pl, it) /\ Synced /\ id >= floor
    /\ it' = SkipTo(pl, it, id)
    /\ floor' = id
    /\ UNCHANGED <<pl, out>>

Next ==
    \/ Docid
    \/ Advance
    \/ \E id \in Ids : BlockContainingId(id) \/ SkipToId(id)

Spec == Init /\ [][Next]_vars

-----------------------------------------------------------------------------
(* Properties.                                                             *)

\* The caches are what they claim: whenever a document has been read, the
\* cached identifier and the decode buffer belong to the cached position; and
\* while the caches are in step, the block pointer is not behind the position
\* and has not been moved past a block that still matters, one whose
\* representative reaches every identifier the client may ask for next.
\* skip_to_id and block_containing_id start their block search there.
CachesSound ==
    /\ it.accPos < pl.n => /\ it.docid = pl.ids[it.accPos]
                           /\ it.accBlk = BlockOf(it.accPos)
    /\ it.accPos <= it.pos \/ it.accPos = MaxSize - 1
    /\ (Synced /\ ~AtEnd(pl, it)) =>
          /\ it.blk \in BlockOf(it.pos) .. NumBlocks(pl)
          /\ it.blk > BlockOf(it.pos) => BlockRep(pl, it.blk - 1) < floor

\* Once its document has reached every identifier asked for, the iterator's
\* block pointer is at the document's own block, so block_max(), which the
\* engine reads for the pivot list, bounds the score of that posting.
BlockMaxExact ==
    (Synced /\ ~AtEnd(pl, it) /\ it.docid >= floor) => it.blk = BlockOf(it.pos)

\* Block pointers, decode buffer and caches never show: under the protocol
\* the iterator behaves as the cursor of PostingsCursor.  In particular a
\* search lands on the first document at or after its argument, no search
\* drops a document it should not, and a stale cache is never returned.
Cursor == INSTANCE PostingsCursor
            WITH ahead <- {pl.ids[p] : p \in it.pos .. pl.n - 1}

ImplementsCursor == Cursor!Spec

=============================================================================
