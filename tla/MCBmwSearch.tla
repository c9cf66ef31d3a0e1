-------------------------------- MODULE MCBmwSearch ------------------------------
(***************************************************************************)
(* Block-Max WAND over every index of two or three tokens and a few        *)
(* documents.                                                              *)
(***************************************************************************)
EXTENDS BmwSearch, SmallIndexes

CONSTANTS
    Tokens,         \* how many tokens the query has
    MaxImpact,      \* the highest impact in the index
    MinPostings,    \* the length of the shortest list
    Contrast        \* whether lists whose impacts are all the same are left out

MCQuery == SubSeq(<<"a", "b", "c">>, 1, Tokens)
\* The name of the list with the impacts f of four documents, each at most 2.
NameOf(f) == f[1] + 3 * f[2] + 9 * f[3] + 27 * f[4]

MCIndexes == IndexesOf(MCQuery, Names(NumDocs, MaxImpact, MinPostings, Contrast),
                       NumDocs, MaxImpact)
MCSeeds == {2 * s : s \in 0 .. (Tokens * MaxImpact) \div 2}

\* Lists for the run in which a read past the block maxima gives -1: one that
\* ends before document 3 and is longer than what another one that holds
\* document 3 has left, and two more.
MCBeyondIndexes ==
    IndexesOf(MCQuery, {NameOf(<<1, 1, 1, 0>>), NameOf(<<0, 0, 1, 1>>),
                        NameOf(<<0, 0, 0, 2>>), NameOf(<<1, 0, 2, 1>>)}, 4, 2)
MCBeyondSeeds == 0 .. 6
MCNegative == {-1}

=============================================================================
