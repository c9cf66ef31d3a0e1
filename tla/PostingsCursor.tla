----------------------------- MODULE PostingsCursor -----------------------------
(***************************************************************************)
(* What a postings iterator promises its client, without blocks, buffers   *)
(* or caches: a set of documents is still ahead, reading gives the first   *)
(* of them, ++ drops it, and skipping to an identifier drops exactly the   *)
(* documents before it.                                                    *)
(***************************************************************************)
EXTENDS Integers

CONSTANT Ids     \* the identifiers a client may seek

VARIABLES
    ahead,      \* the documents the cursor has not passed
    out         \* what the last read returned, -1 before the first one

vars == <<ahead, out>>

First(S) == CHOOSE d \in S : \A e \in S : d <= e

Init == ahead \in SUBSET Nat /\ out = -1

Read == /\ ahead # {}
        /\ out' = First(ahead)
        /\ UNCHANGED ahead

Advance == /\ ahead # {}
           /\ ahead' = ahead \ {First(ahead)}
           /\ UNCHANGED out

Seek(id) == /\ ahead' = {d \in ahead : d >= id}
            /\ UNCHANGED out

Next == Read \/ Advance \/ \E id \in Ids : Seek(id)

Spec == Init /\ [][Next]_vars

=============================================================================
