---------------------------- MODULE MCBlockMaxBuild ------------------------------
(***************************************************************************)
(* The construction of every list over five documents with impacts 1 and   *)
(* 2, in blocks of two: from one to three blocks, the last full or short.  *)
(***************************************************************************)
EXTENDS BlockMaxBuild, SmallIndexes

MCLists == {ListNamed(c, 5, 2) : c \in Names(5, 2, 1, FALSE)}

=============================================================================
