------------------------------ MODULE MCQuerySession -----------------------------
(***************************************************************************)
(* Sessions over files of up to four queries of one to four tokens, three  *)
(* documents and every heuristic, with and without cache files, with the   *)
(* cache growing or not, in one to three runs.                             *)
(***************************************************************************)
EXTENDS QuerySession, FiniteSetsExt

MCTokens == 1 .. 4

MCDictionary == [w \in {"w1", "w2", "w3", "w4"} |->
                    CASE w = "w1" -> 1 [] w = "w2" -> 2 [] w = "w3" -> 3 [] w = "w4" -> 4]

Parser == INSTANCE QueryParser WITH Dictionary <- MCDictionary

\* The impacts of the tokens in the three documents, 0 where a token does not
\* occur: in the first collection every pair is worth more than its tokens, in
\* the second a token is in one document only, the third has ties.
Impacts == {<< <<2, 1, 0>>, <<1, 1, 0>>, <<0, 2, 2>>, <<1, 0, 1>> >>,
            << <<0, 0, 2>>, <<2, 1, 0>>, <<1, 1, 1>>, <<0, 2, 1>> >>,
            << <<1, 1, 1>>, <<1, 1, 0>>, <<1, 0, 1>>, <<0, 1, 1>> >>}

MCCollections ==
    {[q \in SUBSET MCTokens |->
        [d \in 0 .. 2 |-> MapThenSumSet(LAMBDA t : impact[t][d + 1], q)]] :
            impact \in Impacts}

\* Files with an unknown word, a word twice, a line of nothing known, the same
\* query in another order; queries before and after the parts of them.
Files == {<< <<"w1">>, <<"w2", "w1">>, <<"w4", "w1", "w2", "w3">> >>,
          << <<"w1", "w2", "w3", "w4">>, <<"w3", "w2", "w1">>, <<"w2">> >>,
          << <<"w1", "w3", "w1">>, <<"off">>, <<"w3", "w1">>, <<"w2", "w3", "w4">>,
             <<"w1", "w2", "w3", "w4">> >>,
          << <<"w3", "w4">>, <<"w1", "w2", "off">>, <<"w1", "w2", "w4">> >>}
MCQueries == {Parser!ParseQueries(f) : f \in Files}

Pairs == {{1, 2}, {2, 3}, {3, 4}}
Triples == {{1, 2, 3}, {1, 2, 4}}
KeySets == {{}, {{1}, {2}} \cup Pairs, Pairs \cup Triples}

MCArguments ==
    LET Args(methods, dyn, traversal, index, keys) ==
            [method : methods, dyn : dyn, traversal : traversal, runs : 1 .. 3,
             useFile : {FALSE}, fileKeys : {{}}, termKeys : keys, index : index]
        WithFile(lines, keys) ==
            {[a EXCEPT !.useFile = TRUE, !.fileKeys = k] : a \in lines, k \in keys}
        some == {{{1}, {2}, {4}}}
        disjunctive == Args(Methods, BOOLEAN, {"OR"}, {"BMW"}, some)
    IN  disjunctive
          \cup WithFile(disjunctive, KeySets)
          \cup Args({"HR2"}, {TRUE}, {"OR"}, {"WAND"}, some)
          \cup Args({"NAIVE"}, {TRUE}, {"AND"}, {"BMW"}, some)

\* No result, or a result that is there for no reason.
MCUndefined == {{}, {[doc |-> 2, score |-> 1]}}

=============================================================================
