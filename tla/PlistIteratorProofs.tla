--------------------------- MODULE PlistIteratorProofs ---------------------------
(***************************************************************************)
(* The postings iterator, for every block size, every list and every set   *)
(* of identifiers: the caches are sound (CachesSound, which is inductive   *)
(* with TypeOK), the block maximum the engine reads is the one of the      *)
(* posting's block, and block pointer, buffer and caches never show:       *)
(* PlistIterator implements PostingsCursor.                                *)
(***************************************************************************)
EXTENDS PlistIterator, CommonLemmas

-----------------------------------------------------------------------------
(* The iterator under the protocol of its client.                          *)

\* CachesSound is inductive together with the types.
IInv == TypeOK /\ CachesSound

\* The list the iterator moves over is one of those of the assumption.
LEMMA ListIsPostingsList ==
    ASSUME TypeOK
    PROVE  /\ IsPostingsList(pl) /\ pl.n \in Nat /\ pl.n < MaxSize - 1
           /\ \A p \in 0 .. pl.n - 1 : pl.ids[p] \in Nat
BY ListsAssumption DEF TypeOK, IsPostingsList

\* Once the caches are filled for the position the iterator stands on, the
\* invariant makes it ready for every search the client may ask for.
LEMMA InvGivesReady ==
    ASSUME IInv, ~AtEnd(pl, it), Synced, NEW id \in Nat, id >= floor
    PROVE  SearchReady(pl, it, id)
<1>1. IsPostingsList(pl) /\ pl.n \in Nat
  BY ListIsPostingsList DEF IInv
<1>2. it \in Iterators /\ it.pos \in Nat /\ it.pos < pl.n /\ floor \in Nat
      /\ it.blk \in Nat
  BY <1>1 DEF IInv, TypeOK, Iterators, AtEnd
<1>3. /\ it.docid = pl.ids[it.pos] /\ it.accBlk = BlockOf(it.pos)
      /\ it.accPos = it.pos
      /\ it.blk \in BlockOf(it.pos) .. NumBlocks(pl)
      /\ it.blk > BlockOf(it.pos) => BlockRep(pl, it.blk - 1) < floor
  BY <1>2 DEF IInv, CachesSound, Synced
<1>4. ASSUME it.blk > BlockOf(it.pos) PROVE BlockRep(pl, it.blk - 1) < id
  <2>1. BlockOf(it.pos) \in 0 .. NumBlocks(pl) - 1 /\ NumBlocks(pl) \in Nat
    BY <1>1, <1>2, PositionInBlock
  <2>2. it.blk - 1 \in 0 .. NumBlocks(pl) - 1
    BY <2>1, <1>2, <1>3, <1>4
  <2>3. BlockRep(pl, it.blk - 1) \in Nat
    BY <1>1, <2>2, BlockMembers
  <2> QED
    BY <2>3, <1>2, <1>3, <1>4
<1> QED
  BY <1>1, <1>2, <1>3, <1>4 DEF SearchReady

\* The invariant holds at first.
LEMMA InitInv == Init => IInv
<1> SUFFICES ASSUME Init PROVE IInv
  OBVIOUS
<1>1. pl.n \in Nat /\ pl.n < MaxSize - 1
  BY ListsAssumption DEF Init, IsPostingsList
<1>2. MaxSize \in Nat \ {0}
  BY MaxSizeAssumption
<1>3. TypeOK
  BY <1>1, <1>2 DEF Init, TypeOK, Begin
<1>4. it.accPos = MaxSize - 1 /\ it.pos = 0
  BY DEF Init, Begin
<1>5. CachesSound
  BY <1>1, <1>2, <1>4 DEF CachesSound, Synced
<1> QED
  BY <1>3, <1>5 DEF IInv

\* Reading the document keeps the invariant.
LEMMA DocidKeepsInv == IInv /\ Docid => IInv'
<1> SUFFICES ASSUME IInv, Docid PROVE IInv'
  OBVIOUS
<1>1. IsPostingsList(pl) /\ pl.n \in Nat /\ pl.n < MaxSize - 1
      /\ \A p \in 0 .. pl.n - 1 : pl.ids[p] \in Nat
  BY ListIsPostingsList DEF IInv
<1>2. /\ it \in Iterators /\ it.pos \in 0 .. pl.n - 1 /\ pl \in Lists
      /\ floor \in Nat /\ it.accPos \in Nat /\ it.docid \in Nat
  BY <1>1 DEF IInv, TypeOK, Iterators, Docid, AtEnd
<1>3. pl' = pl /\ floor' = floor /\ it' = Deref(pl, it) /\ out' = it'.docid
  BY DEF Docid
<1>4. BlockOf(it.pos) \in 0 .. NumBlocks(pl) - 1 /\ NumBlocks(pl) \in Nat
  BY <1>1, <1>2, PositionInBlock
<1>5. CASE it.pos = it.accPos
  <2>1. it' = it
    BY <1>3, <1>5 DEF Deref
  <2> QED
    BY <2>1, <1>2, <1>3 DEF IInv, TypeOK, CachesSound, Synced, AtEnd
<1>6. CASE it.pos # it.accPos
  <2>1. it' = [it EXCEPT !.blk = BlockOf(it.pos), !.accBlk = BlockOf(it.pos),
                         !.accPos = it.pos, !.docid = pl.ids[it.pos]]
    BY <1>3, <1>6 DEF Deref
  <2>2. /\ it' \in Iterators /\ it'.pos = it.pos /\ it'.accPos = it.pos
        /\ it'.blk = BlockOf(it.pos) /\ it'.accBlk = BlockOf(it.pos)
        /\ it'.docid = pl.ids[it.pos] /\ it'.docid \in Nat
    <3>1. /\ it \in Iterators /\ it.pos \in Nat /\ BlockOf(it.pos) \in Nat
          /\ pl.ids[it.pos] \in Nat
      BY <1>1, <1>2, <1>4
    <3> DEFINE b == BlockOf(it.pos)  d == pl.ids[it.pos]  p == it.pos
    <3> HIDE DEF b, d, p
    <3>2. /\ it' = [it EXCEPT !.blk = b, !.accBlk = b, !.accPos = p, !.docid = d]
          /\ b \in Nat /\ d \in Nat /\ p \in Nat
      BY <3>1, <2>1 DEF b, d, p
    <3>3. /\ it' \in Iterators /\ it'.pos = it.pos /\ it'.accPos = p
          /\ it'.blk = b /\ it'.accBlk = b /\ it'.docid = d
      BY <3>1, <3>2 DEF Iterators
    <3> QED
      BY <3>2, <3>3 DEF b, d, p
  <2>3. TypeOK'
    BY <2>2, <1>1, <1>2, <1>3 DEF TypeOK, Iterators
  <2>4. CachesSound'
    BY <2>2, <1>1, <1>2, <1>3, <1>4 DEF CachesSound, Synced
  <2> QED
    BY <2>3, <2>4 DEF IInv
<1> QED
  BY <1>5, <1>6

\* Moving on keeps the invariant.
LEMMA AdvanceKeepsInv == IInv /\ Advance => IInv'
<1> SUFFICES ASSUME IInv, Advance PROVE IInv'
  OBVIOUS
<1>1. pl.n \in Nat /\ pl.n < MaxSize - 1
  BY ListIsPostingsList DEF IInv
<1>2. /\ it \in Iterators /\ it.pos \in 0 .. pl.n - 1 /\ it.accPos \in Nat
  BY <1>1 DEF IInv, TypeOK, Iterators, Advance, AtEnd
<1>3. /\ it' = [it EXCEPT !.pos = it.pos + 1]
      /\ pl' = pl /\ floor' = floor /\ out' = out
  BY DEF Advance, Increment
<1>4. /\ it' \in Iterators /\ it'.pos = it.pos + 1 /\ it'.accPos = it.accPos
      /\ it'.blk = it.blk /\ it'.accBlk = it.accBlk /\ it'.docid = it.docid
  BY <1>2, <1>3 DEF Iterators
<1>5. TypeOK'
  BY <1>1, <1>2, <1>3, <1>4 DEF IInv, TypeOK, Iterators
<1>6. MaxSize \in Nat
  BY MaxSizeAssumption
<1>7. it.accPos <= it.pos \/ it.accPos = MaxSize - 1
  BY DEF IInv, CachesSound
<1>8. ~Synced'
  BY <1>1, <1>2, <1>4, <1>6, <1>7 DEF Synced
<1>9. CachesSound'
  BY <1>2, <1>3, <1>4, <1>6, <1>7, <1>8 DEF IInv, CachesSound
<1> QED
  BY <1>5, <1>9 DEF IInv

\* A shallow move keeps the invariant.
LEMMA ShallowKeepsInv ==
    ASSUME IInv, NEW id \in Ids, BlockContainingId(id) PROVE IInv'
<1>1. IsPostingsList(pl) /\ pl.n \in Nat /\ pl.n < MaxSize - 1 /\ id \in Nat
  BY ListIsPostingsList, IdsAssumption DEF IInv
<1>2. SearchReady(pl, it, id) /\ ~AtEnd(pl, it) /\ Synced /\ floor \in Nat /\ id >= floor
  BY <1>1, InvGivesReady DEF BlockContainingId, IInv, TypeOK
<1>3. /\ it \in Iterators /\ it.pos \in 0 .. pl.n - 1 /\ it.blk \in Nat
      /\ it.blk >= BlockOf(it.pos) /\ it.blk <= NumBlocks(pl)
      /\ it.blk > BlockOf(it.pos) => BlockRep(pl, it.blk - 1) < id
  <2>1. it.blk \in Nat
    BY DEF IInv, TypeOK
  <2>2. BlockOf(it.pos) \in Nat /\ NumBlocks(pl) \in Nat
    BY <1>1, <1>2, PositionInBlock DEF SearchReady
  <2> QED
    BY <2>1, <2>2, <1>2 DEF SearchReady
<1>4. BlockOf(it.pos) \in Nat /\ NumBlocks(pl) \in Nat
  BY <1>1, <1>3, PositionInBlock
<1> DEFINE b == FindBlock(pl, id, it.blk)
<1>5. /\ b \in it.blk .. NumBlocks(pl)
      /\ \A c \in it.blk .. b - 1 : BlockRep(pl, c) < id
  <2>1. /\ b \in Nat /\ it.blk <= b
        /\ it.blk <= NumBlocks(pl) => b <= NumBlocks(pl)
        /\ \A c \in it.blk .. b - 1 : BlockRep(pl, c) < id
    BY <1>1, <1>3, <1>4, FindBlockFinds
  <2> QED
    BY <2>1, <1>3, <1>4
<1> HIDE DEF b
<1>6. /\ it' = [it EXCEPT !.blk = b] /\ pl' = pl /\ floor' = id /\ out' = out
  BY DEF BlockContainingId, ShallowMove, b
<1>7. /\ it' \in Iterators /\ it'.pos = it.pos /\ it'.accPos = it.accPos
      /\ it'.blk = b /\ it'.accBlk = it.accBlk /\ it'.docid = it.docid
  BY <1>3, <1>4, <1>5, <1>6 DEF Iterators
<1>8. TypeOK'
  BY <1>1, <1>6, <1>7 DEF IInv, TypeOK, Iterators
<1>9. b > BlockOf(it.pos) => BlockRep(pl, b - 1) < id
  <2>1. SUFFICES ASSUME b > BlockOf(it.pos) PROVE BlockRep(pl, b - 1) < id
    OBVIOUS
  <2>2. b = it.blk \/ b - 1 \in it.blk .. b - 1
    BY <1>3, <1>4, <1>5
  <2> QED
    BY <2>1, <2>2, <1>3, <1>5
<1>10. CachesSound'
  BY <1>3, <1>4, <1>5, <1>6, <1>7, <1>9 DEF IInv, CachesSound, Synced, AtEnd
<1> QED
  BY <1>8, <1>10 DEF IInv

\* A skip keeps the invariant.
LEMMA SkipKeepsInv ==
    ASSUME IInv, NEW id \in Ids, SkipToId(id) PROVE IInv'
<1>1. IsPostingsList(pl) /\ pl.n \in Nat /\ pl.n < MaxSize - 1 /\ id \in Nat
  BY ListIsPostingsList, IdsAssumption DEF IInv
<1>2. SearchReady(pl, it, id) /\ ~AtEnd(pl, it) /\ Synced
  BY <1>1, InvGivesReady DEF SkipToId, IInv, TypeOK
<1>3. it' = SkipTo(pl, it, id) /\ pl' = pl /\ floor' = id /\ out' = out
  BY DEF SkipToId
<1>4. /\ it' \in Iterators
      /\ it'.pos \in it.pos .. pl.n
      /\ it'.pos < pl.n => SearchReady(pl, it', id)
      /\ it'.pos = pl.n => /\ it'.accPos = it.accPos /\ it'.accBlk = it.accBlk
                           /\ it'.docid = it.docid
  BY <1>1, <1>2, <1>3, SkipLands
<1>5. it.pos \in Nat /\ it.pos < pl.n /\ it.accPos = it.pos
  BY <1>1, <1>2 DEF SearchReady
<1>6. TypeOK'
  BY <1>1, <1>3, <1>4, <1>5 DEF IInv, TypeOK, Iterators
<1>7. CASE it'.pos < pl.n
  BY <1>3, <1>4, <1>6, <1>7 DEF IInv, CachesSound, Synced, SearchReady
<1>8. CASE it'.pos = pl.n
  <2>1. AtEnd(pl, it)'
    BY <1>3, <1>8 DEF AtEnd
  <2> QED
    BY <2>1, <1>3, <1>4, <1>5, <1>6, <1>8 DEF IInv, CachesSound, Synced, AtEnd
<1> QED
  BY <1>1, <1>4, <1>5, <1>7, <1>8

\* Every step keeps the invariant.
LEMMA NextInv == IInv /\ [Next]_vars => IInv'
<1> SUFFICES ASSUME IInv, [Next]_vars PROVE IInv'
  OBVIOUS
<1>1. CASE Docid
  BY <1>1, DocidKeepsInv
<1>2. CASE Advance
  BY <1>2, AdvanceKeepsInv
<1>3. CASE \E id \in Ids : BlockContainingId(id) \/ SkipToId(id)
  BY <1>3, ShallowKeepsInv, SkipKeepsInv
<1>4. CASE UNCHANGED vars
  BY <1>4 DEF IInv, TypeOK, CachesSound, Synced, AtEnd, vars
<1> QED
  BY <1>1, <1>2, <1>3, <1>4 DEF Next

\* The invariant always holds.
LEMMA InvAlways == Spec => []IInv
BY InitInv, NextInv, PTL DEF Spec

\* The iterator's position never leaves the list, whatever the sequence of
\* calls the protocol allows.
THEOREM TypeCorrect == Spec => []TypeOK
<1>1. IInv => TypeOK
  BY DEF IInv
<1> QED
  BY <1>1, InvAlways, PTL

\* skip_to_id, block_containing_id, docid and ++ keep the cached document, the
\* decode buffer and the block pointer in step, in every block size.
THEOREM CachesStaySound == Spec => []CachesSound
<1>1. IInv => CachesSound
  BY DEF IInv
<1> QED
  BY <1>1, InvAlways, PTL

\* block_max() reads the bound of the document's own block.
THEOREM BlockMaxStaysExact == Spec => []BlockMaxExact
<1>1. ASSUME IInv PROVE BlockMaxExact
  <2>1. SUFFICES ASSUME Synced, ~AtEnd(pl, it), it.docid >= floor,
                        it.blk # BlockOf(it.pos)
                 PROVE  FALSE
    BY DEF BlockMaxExact
  <2>2. IsPostingsList(pl) /\ floor \in Nat
    BY <1>1, ListIsPostingsList DEF IInv, TypeOK
  <2>3. SearchReady(pl, it, floor)
    BY <1>1, <2>1, <2>2, InvGivesReady
  <2> DEFINE c == BlockOf(it.pos)
  <2>4. c \in 0 .. NumBlocks(pl) - 1 /\ it.pos \in BlockPositions(pl, c)
        /\ NumBlocks(pl) \in Nat
    BY <2>2, <2>3, PositionInBlock DEF SearchReady
  <2>5. it.docid \in Nat /\ it.docid <= BlockRep(pl, c) /\ BlockRep(pl, c) \in Nat
    BY <2>2, <2>3, <2>4, BlockMembers DEF SearchReady
  <2>6. it.blk - 1 \in 0 .. NumBlocks(pl) - 1 /\ c <= it.blk - 1
        /\ BlockRep(pl, it.blk - 1) < floor
    <3>1. it.blk \in c .. NumBlocks(pl)
      BY <2>3 DEF SearchReady
    <3>2. it.blk > c
      BY <3>1, <2>1, <2>4
    <3> QED
      BY <3>1, <3>2, <2>3, <2>4 DEF SearchReady
  <2>7. BlockRep(pl, c) <= BlockRep(pl, it.blk - 1)
    <3>1. c = it.blk - 1 \/ BlockRep(pl, c) < BlockRep(pl, it.blk - 1)
      BY <2>2, <2>4, <2>6, RepsAscend
    <3>2. BlockRep(pl, it.blk - 1) \in Nat
      BY <2>2, <2>6, BlockMembers
    <3> QED
      BY <3>1, <3>2, <2>5
  <2>8. BlockRep(pl, it.blk - 1) \in Nat
    BY <2>2, <2>6, BlockMembers
  <2> QED
    BY <2>1, <2>2, <2>5, <2>6, <2>7, <2>8
<1> QED
  BY <1>1, InvAlways, PTL

-----------------------------------------------------------------------------
(* The iterator implements the cursor.                                     *)

Ahead == {pl.ids[p] : p \in it.pos .. pl.n - 1}

\* The document the iterator stands on is the first one ahead.
LEMMA FirstAhead ==
    ASSUME IInv, ~AtEnd(pl, it)
    PROVE  /\ it.pos \in 0 .. pl.n - 1 /\ Ahead # {}
           /\ Cursor!First(Ahead) = pl.ids[it.pos]
           /\ Ahead \ {pl.ids[it.pos]} = {pl.ids[p] : p \in it.pos + 1 .. pl.n - 1}
<1>1. /\ pl.n \in Nat /\ it.pos \in 0 .. pl.n - 1
      /\ \A p \in 0 .. pl.n - 1 : pl.ids[p] \in Nat
      /\ \A p, q \in 0 .. pl.n - 1 : p < q => pl.ids[p] < pl.ids[q]
  <2>1. IsPostingsList(pl) /\ pl.n \in Nat
    BY ListIsPostingsList DEF IInv
  <2>2. it.pos \in Nat /\ it.pos <= pl.n /\ it.pos # pl.n
    BY DEF IInv, TypeOK, AtEnd
  <2>3. it.pos \in 0 .. pl.n - 1
    BY <2>1, <2>2
  <2> QED
    BY <2>1, <2>3 DEF IsPostingsList
<1> DEFINE d == pl.ids[it.pos]
<1>2. d \in Ahead
  BY <1>1 DEF Ahead
<1>3. ASSUME NEW p \in it.pos + 1 .. pl.n - 1 PROVE pl.ids[p] > d /\ pl.ids[p] \in Nat
  BY <1>1
<1>4. it.pos .. pl.n - 1 = {it.pos} \cup (it.pos + 1 .. pl.n - 1)
  BY <1>1
<1>5. d \in Nat
  BY <1>1
<1>6. Ahead = {d} \cup {pl.ids[p] : p \in it.pos + 1 .. pl.n - 1}
  BY <1>4 DEF Ahead
<1> HIDE DEF d
<1>7. \A e \in Ahead : e = d \/ (e \in Nat /\ e > d)
  BY <1>3, <1>6
<1>8. Cursor!First(Ahead) = d
  <2>1. \A e \in Ahead : e \in Nat /\ d <= e
    BY <1>5, <1>7
  <2> DEFINE f == Cursor!First(Ahead)
  <2>2. f \in Ahead /\ \A e \in Ahead : f <= e
    BY <1>2, <2>1 DEF Cursor!First
  <2> HIDE DEF f
  <2>3. f \in Nat /\ d <= f /\ f <= d
    BY <1>2, <2>1, <2>2
  <2>4. f = d
    BY <1>5, <2>3
  <2> QED
    BY <2>4 DEF f
<1>9. Ahead \ {d} = {pl.ids[p] : p \in it.pos + 1 .. pl.n - 1}
  BY <1>3, <1>5, <1>6
<1> QED
  BY <1>1, <1>2, <1>8, <1>9 DEF d

\* Initial states map to initial states.
LEMMA InitMaps == Init => Cursor!Init
<1> SUFFICES ASSUME Init PROVE Cursor!Init
  OBVIOUS
<1>1. /\ it.pos = 0 /\ out = -1
      /\ \A p \in 0 .. pl.n - 1 : pl.ids[p] \in Nat
  BY ListsAssumption DEF Init, Begin, IsPostingsList
<1>2. {pl.ids[p] : p \in it.pos .. pl.n - 1} \in SUBSET Nat
  BY <1>1
<1> QED
  BY <1>1, <1>2 DEF Cursor!Init

\* docid() reads, the first time as well as from the cache.
LEMMA DocidMaps == IInv /\ Docid => Cursor!Read
<1> SUFFICES ASSUME IInv, Docid PROVE Cursor!Read
  OBVIOUS
<1>1. ~AtEnd(pl, it) /\ it' = Deref(pl, it) /\ out' = it'.docid /\ pl' = pl
  BY DEF Docid
<1>2. it.pos \in 0 .. pl.n - 1 /\ Ahead # {} /\ Cursor!First(Ahead) = pl.ids[it.pos]
  BY <1>1, FirstAhead
<1>3. it \in Iterators /\ pl.n \in Nat /\ it.pos < pl.n
  BY <1>2, ListIsPostingsList DEF IInv, TypeOK, Iterators
<1>4. it'.pos = it.pos /\ it'.docid = pl.ids[it.pos]
  <2>1. CASE it.pos = it.accPos
    <3>1. it' = it
      BY <1>1, <2>1 DEF Deref
    <3> QED
      BY <3>1, <2>1, <1>2, <1>3 DEF IInv, CachesSound
  <2>2. CASE it.pos # it.accPos
    BY <1>1, <1>3, <2>2 DEF Deref, Iterators
  <2> QED
    BY <2>1, <2>2
<1>5. Ahead' = Ahead
  BY <1>1, <1>4 DEF Ahead
<1> QED
  BY <1>1, <1>2, <1>4, <1>5 DEF Cursor!Read, Ahead

\* Moving on is the cursor's step to the next document.
LEMMA AdvanceMaps == IInv /\ Advance => Cursor!Advance
<1> SUFFICES ASSUME IInv, Advance PROVE Cursor!Advance
  OBVIOUS
<1>1. ~AtEnd(pl, it) /\ it' = Increment(it) /\ out' = out /\ pl' = pl
  BY DEF Advance
<1>2. it \in Iterators
  BY DEF IInv, TypeOK, Iterators
<1>3. it'.pos = it.pos + 1
  BY <1>1, <1>2 DEF Increment, Iterators
<1>4. Ahead' = {pl.ids[p] : p \in it.pos + 1 .. pl.n - 1}
  BY <1>1, <1>3 DEF Ahead
<1>5. Ahead # {} /\ Ahead' = Ahead \ {Cursor!First(Ahead)}
  BY <1>1, <1>4, FirstAhead
<1> QED
  BY <1>1, <1>5 DEF Cursor!Advance, Ahead

\* The shallow move is invisible.
LEMMA ShallowMaps ==
    ASSUME IInv, NEW id \in Ids, BlockContainingId(id) PROVE UNCHANGED Cursor!vars
<1>1. it' = [it EXCEPT !.blk = FindBlock(pl, id, it.blk)] /\ pl' = pl /\ out' = out
  BY DEF BlockContainingId, ShallowMove
<1>2. it \in Iterators
  BY DEF IInv, TypeOK, Iterators
<1>3. it'.pos = it.pos
  BY <1>1, <1>2 DEF Iterators
<1> QED
  BY <1>1, <1>3 DEF Cursor!vars

\* skip_to_id drops exactly the documents before its argument.
LEMMA SkipMaps ==
    ASSUME IInv, NEW id \in Ids, SkipToId(id) PROVE Cursor!Seek(id)
<1>1. IsPostingsList(pl) /\ pl.n \in Nat /\ id \in Nat
  BY ListIsPostingsList, IdsAssumption DEF IInv
<1>2. SearchReady(pl, it, id)
  BY <1>1, InvGivesReady DEF SkipToId, IInv, TypeOK
<1>3. it' = SkipTo(pl, it, id) /\ pl' = pl /\ out' = out
  BY DEF SkipToId
<1>4. /\ it'.pos \in it.pos .. pl.n
      /\ \A q \in it.pos .. it'.pos - 1 : pl.ids[q] < id
      /\ it'.pos < pl.n => pl.ids[it'.pos] >= id
  BY <1>1, <1>2, <1>3, SkipLands
<1>5. it.pos \in 0 .. pl.n - 1
  BY <1>2 DEF SearchReady
<1> DEFINE k == it'.pos
<1>6. /\ k \in Nat /\ it.pos <= k /\ k <= pl.n
      /\ k < pl.n => pl.ids[k] >= id
  BY <1>4, <1>5, <1>1
<1> HIDE DEF k
<1>7. /\ \A p \in 0 .. pl.n - 1 : pl.ids[p] \in Nat
      /\ \A p, q \in 0 .. pl.n - 1 : p < q => pl.ids[p] < pl.ids[q]
  BY <1>1 DEF IsPostingsList
<1>8. ASSUME NEW q \in it.pos .. pl.n - 1 PROVE pl.ids[q] >= id <=> q >= k
  <2>1. CASE q < k
    <3>1. q \in it.pos .. k - 1
      BY <2>1, <1>5, <1>6
    <3>2. pl.ids[q] < id
      BY <3>1, <1>4 DEF k
    <3> QED
      BY <3>2, <2>1, <1>1, <1>5, <1>6, <1>7
  <2>2. CASE q = k
    BY <2>2, <1>1, <1>5, <1>6
  <2>3. CASE q > k
    <3>1. k \in 0 .. pl.n - 1 /\ q \in 0 .. pl.n - 1
      BY <2>3, <1>1, <1>5, <1>6
    <3>2. pl.ids[k] < pl.ids[q] /\ pl.ids[k] \in Nat /\ pl.ids[q] \in Nat
      BY <3>1, <2>3, <1>7
    <3>3. pl.ids[k] >= id
      BY <3>1, <1>1, <1>6
    <3> QED
      BY <3>1, <3>2, <3>3, <2>3, <1>1
  <2> QED
    BY <2>1, <2>2, <2>3, <1>1, <1>5, <1>6
<1>9. k .. pl.n - 1 = {q \in it.pos .. pl.n - 1 : q >= k}
  BY <1>1, <1>5, <1>6
<1>10. {pl.ids[q] : q \in k .. pl.n - 1} = {d \in Ahead : d >= id}
  BY <1>8, <1>9 DEF Ahead
<1>11. Ahead' = {d \in Ahead : d >= id}
  BY <1>3, <1>10 DEF Ahead, k
<1> QED
  BY <1>3, <1>11 DEF Cursor!Seek, Ahead

\* The iterator, with its lazy decoding, its caches and its shallow moves,
\* gives the client what a plain cursor over the identifiers would.
THEOREM IteratorImplementsCursor == Spec => ImplementsCursor
<1>1. Init => Cursor!Init
  BY InitMaps
<1>2. ASSUME IInv, [Next]_vars PROVE [Cursor!Next]_(Cursor!vars)
  <2>1. CASE Docid
    BY <1>2, <2>1, DocidMaps DEF Cursor!Next
  <2>2. CASE Advance
    BY <1>2, <2>2, AdvanceMaps DEF Cursor!Next
  <2>3. CASE \E id \in Ids : BlockContainingId(id)
    BY <1>2, <2>3, ShallowMaps
  <2>4. CASE \E id \in Ids : SkipToId(id)
    BY <1>2, <2>4, SkipMaps DEF Cursor!Next
  <2>5. CASE UNCHANGED vars
    BY <2>5 DEF vars, Cursor!vars
  <2> QED
    BY <1>2, <2>1, <2>2, <2>3, <2>4, <2>5 DEF Next
<1>3. Cursor!Init /\ [][Cursor!Next]_(Cursor!vars) => Cursor!Spec
  BY DEF Cursor!Spec
<1> QED
  BY <1>1, <1>2, <1>3, InvAlways, PTL DEF Spec, ImplementsCursor

=============================================================================
