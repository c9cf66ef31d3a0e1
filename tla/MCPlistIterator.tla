----------------------------- MODULE MCPlistIterator -----------------------------
(***************************************************************************)
(* Every list with up to seven documents out of 0..6, in blocks of two:    *)
(* up to four blocks, the last one full or short, and every sequence of    *)
(* calls the protocol allows with identifiers up to one past the last.     *)
(***************************************************************************)
EXTENDS PlistIterator, SmallIndexes

MCLists == {ListNamed(c, 7, 1) : c \in Names(7, 1, 1, FALSE)}
MCIds == 0 .. 7

=============================================================================
