----------------------------- MODULE MCIndexFile -----------------------------
(***************************************************************************)
(* Collections for the index file: lists of one posting, of a whole block  *)
(* of 32, of blocks that four does and does not divide, given in one or    *)
(* two impacts; with and without terms of ATIRE's own at the end, and one  *)
(* ordinary term behind them.                                              *)
(***************************************************************************)
EXTENDS IndexFile

\* n documents from first on, in steps.
Docs(first, n, step) == [d \in 1 .. n |-> first + step * (d - 1)]

Quantum(impact, docs) == [impact |-> impact, docs |-> docs]
Term(quanta) == [tilde |-> FALSE, quanta |-> quanta]
Tilde == [tilde |-> TRUE, quanta |-> <<Quantum(1, <<0>>)>>]

One   == Term(<<Quantum(3, <<0>>)>>)
Five  == Term(<<Quantum(2, <<1, 4, 9>>), Quantum(1, <<0, 7>>)>>)
Block == Term(<<Quantum(2, Docs(1, 16, 2)), Quantum(1, Docs(0, 16, 2))>>)
Two   == Term(<<Quantum(3, <<33, 40>>), Quantum(1, Docs(2, 31, 1))>>)
Full  == Term(<<Quantum(1, Docs(5, 64, 3))>>)
Three == Term(<<Quantum(4, Docs(0, 20, 5)), Quantum(2, Docs(1, 46, 5))>>)

MCCollections ==
    {<<One>>, <<Full>>, <<Three>>,
     <<Five, Two, Tilde>>, <<Block, One, Tilde, Tilde>>, <<Tilde, One>>}

\* The lists the dumps of these terms make.
MCLists ==
    {ListOf(Sorted(Dumped(t))) : t \in {One, Five, Block, Two, Full, Three}}
=============================================================================
