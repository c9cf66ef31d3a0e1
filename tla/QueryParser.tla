------------------------------- MODULE QueryParser -------------------------------
(***************************************************************************)
(* query_parser: from the lines of a query file to queries.  A line is the *)
(* sequence of its words; the number before the semicolon is left out, a   *)
(* query is known by its place.                                            *)
(***************************************************************************)
EXTENDS Sequences

CONSTANT Dictionary     \* from the words of the collection to their tokens

\* parse_query: words that are not in the dictionary are dropped, those that
\* occur several times are counted once, and the tokens are sorted, so that
\* the order of the words does not matter either.
ParseQuery(line) ==
    {Dictionary[w] : w \in {line[i] : i \in DOMAIN line} \cap DOMAIN Dictionary}

\* parse_queries: lines without a known word are dropped.
ParseQueries(file) ==
    SelectSeq([i \in DOMAIN file |-> ParseQuery(file[i])], LAMBDA q : q # {})

=============================================================================
