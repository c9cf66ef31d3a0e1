------------------------------ MODULE SmallIndexes ------------------------------
(***************************************************************************)
(* Small indexes for model checking.  A postings list over the documents   *)
(* 0 .. D-1 is named by a number: its digits in base W + 1 are the impacts *)
(* of the documents, 0 where the term does not occur.                      *)
(***************************************************************************)
EXTENDS PostingsList, Sequences, FiniteSets

LOCAL INSTANCE FiniteSetsExt

PostingsOf(f) ==
    LET S   == {d \in DOMAIN f : f[d] > 0}
        n   == Cardinality(S)
        ids == [p \in 0 .. n - 1 |->
                  CHOOSE d \in S : Cardinality({e \in S : e < d}) = p]
        w   == [p \in 0 .. n - 1 |-> f[ids[p]]]
        pl  == [n |-> n, ids |-> ids, w |-> w]
        top(P) == Max({w[p] : p \in P})
    IN  [n |-> n, ids |-> ids, w |-> w, max |-> top(0 .. n - 1),
         bmax |-> [b \in 0 .. NumBlocks(pl) - 1 |-> top(BlockPositions(pl, b))]]

\* The impact of document d in the list named c.
Impact(c, d, W) == (c \div ((W + 1) ^ d)) % (W + 1)

ListNamed(c, D, W) == PostingsOf([d \in 0 .. D - 1 |-> Impact(c, d, W)])

\* The names of the lists with at least n postings.  With contrast, only of
\* those whose impacts are not all the same: in the others every block is
\* worth as much as the whole list.  No list is empty, as in the index files.
Names(D, W, n, contrast) ==
    {c \in 1 .. (W + 1) ^ D - 1 :
        LET impacts == {Impact(c, d, W) : d \in 0 .. D - 1} \ {0}
        IN  /\ Cardinality({d \in 0 .. D - 1 : Impact(c, d, W) > 0}) >= n
            /\ contrast => Cardinality(impacts) > 1}

\* The indexes for a query made of the lists named in C, up to the names of
\* the tokens: the engines sort the lists by document and treat them alike
\* otherwise, so an index says nothing that its permutations do not.
IndexesOf(query, C, D, W) ==
    LET list == [c \in C |-> ListNamed(c, D, W)]
        n    == Len(query)
        place(t) == CHOOSE i \in 1 .. n : query[i] = t
    IN  {[t \in {query[i] : i \in 1 .. n} |-> list[g[place(t)]]] :
            g \in {h \in [1 .. n -> C] : \A i \in 1 .. n - 1 : h[i] <= h[i + 1]}}

=============================================================================
