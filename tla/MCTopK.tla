---------------------------------- MODULE MCTopK ---------------------------------
(***************************************************************************)
(* Five documents, every combination of scores from 0 to 3, two results.   *)
(***************************************************************************)
EXTENDS TopK

MCScores == [0 .. 4 -> 0 .. 3]

=============================================================================
