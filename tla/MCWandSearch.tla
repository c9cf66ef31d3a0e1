------------------------------- MODULE MCWandSearch ------------------------------
(***************************************************************************)
(* WAND over every index of two or three tokens and a few documents.       *)
(***************************************************************************)
EXTENDS WandSearch, SmallIndexes

CONSTANTS
    Tokens,         \* how many tokens the query has
    MaxImpact,      \* the highest impact in the index
    MinPostings,    \* the length of the shortest list
    Contrast        \* whether lists whose impacts are all the same are left out

MCQuery == SubSeq(<<"a", "b", "c">>, 1, Tokens)
MCIndexes == IndexesOf(MCQuery, Names(NumDocs, MaxImpact, MinPostings, Contrast),
                       NumDocs, MaxImpact)
MCSeeds == {2 * s : s \in 0 .. (Tokens * MaxImpact) \div 2}

=============================================================================
