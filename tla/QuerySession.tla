------------------------------- MODULE QuerySession ------------------------------
(***************************************************************************)
(* search_index: the runs over a query file, the score cache that lives    *)
(* through them, and what idx_invfile::search does with a query.           *)
(*                                                                         *)
(* An engine is what TopK promises of it: from a threshold that K          *)
(* documents reach it returns a top-K of the collection, and from any      *)
(* other threshold nothing is known of its answer.  Whether the threshold  *)
(* that comes out of the cache is one that K documents reach is up to the  *)
(* session.                                                                *)
(***************************************************************************)
EXTENDS ScoreCache, ScoreHeap, Sequences

CONSTANTS
    Tokens,         \* the terms of the collection
    NumDocs,        \* the documents are 0 .. NumDocs - 1
    MaxScore,       \* no document scores more
    Collections,    \* what each document scores for each query
    Queries,        \* the query files, parsed
    Arguments,      \* the command lines
    FileRank,       \* the rank whose scores the cache files hold
    Undefined       \* what search may be taken to return when it returns nothing

Docs == 0 .. NumDocs - 1

ASSUME NumDocsAssumption == NumDocs \in Nat
ASSUME MaxScoreAssumption == MaxScore \in Nat
ASSUME TokensAssumption == IsFiniteSet(Tokens)

\* Scores are sums of impacts: a further token never takes any away.
ASSUME CollectionsAssumption ==
    \A sc \in Collections :
        /\ sc \in [SUBSET Tokens -> [Docs -> 0 .. MaxScore]]
        /\ \A q \in SUBSET Tokens : \A s \in SUBSET q : \A d \in Docs :
              sc[s][d] <= sc[q][d]

ASSUME QueriesAssumption == Queries \subseteq Seq(SUBSET Tokens)

\* args of search_index, as far as they matter here: the method (-m), whether
\* the cache grows (-d), the traversal (-t), the number of runs (-n), the
\* queries the cache files hold scores of (-f, -e), whether there is a -f at
\* all, and the type of the index.
ASSUME ArgumentsAssumption ==
    Arguments \subseteq
        [method : Methods, dyn : BOOLEAN, traversal : {"OR", "AND"}, runs : Nat,
         useFile : BOOLEAN, fileKeys : SUBSET SUBSET Tokens,
         termKeys : SUBSET SUBSET Tokens, index : {"WAND", "BMW"}]

\* The cache files were made from results at least as long as those asked for.
ASSUME FileRankAssumption == FileRank \in Nat /\ FileRank >= K

VARIABLES
    score,      \* the collection: what a document scores for a set of tokens
    args,       \* the command line
    queries,    \* the queries of the file
    cache,      \* idx_invfile::cache
    run,        \* the run, from 0
    at,         \* the query of the run, 0 before the first
    answers,    \* query_results and the cache_hit of query_stats
    timed       \* how many searches are in query_times, by query and kind

vars == <<score, args, queries, cache, run, at, answers, timed>>

-----------------------------------------------------------------------------
(* Answers and thresholds.                                                 *)

Reaching(q, t) == {d \in Docs : score[q][d] >= t}

Matching(q) == {d \in Docs : score[q][d] > 0}

Entry(q, d) == [doc |-> d, score |-> score[q][d]]

\* A first threshold for q that loses nothing: K documents reach it.
SafeFor(q, t) == t > 0 => Cardinality(Reaching(q, t)) >= K

\* An answer to q that is a top-K of the collection (TopK!SafeTopK).
IsTopK(q, ans) ==
    \A d \in Matching(q) : Entry(q, d) \notin ans =>
        IsFull(ans) /\ \A h \in ans : score[q][d] <= h.score

\* What an engine may return for q when it starts from threshold low.
Answers(q, low) ==
    {ans \in SUBSET {Entry(q, d) : d \in Matching(q)} :
        Cardinality(ans) <= K /\ (SafeFor(q, low) => IsTopK(q, ans))}

\* A cache file (static_cache.py): for each of the queries with FileRank
\* results the score of the last of them.
FileOf(keys) ==
    [q \in {s \in keys : Cardinality(Matching(s)) >= FileRank} |->
        Highest({t \in 1 .. MaxScore : Cardinality(Reaching(q, t)) >= FileRank})]

\* The lengths of the postings lists, query_token::df.
DocumentFrequencies(q) == [t \in q |-> Cardinality(Matching({t}))]

EmptyCache == [q \in {} |-> 0]

\* A query ends with the empty result of a cache hit, with the answer of an
\* engine, or behind the last line of search.
Kinds == {"hit", "miss", "undefined"}

-----------------------------------------------------------------------------
(* The program.                                                            *)

Init ==
    /\ score \in Collections
    /\ args \in Arguments
    /\ queries \in Queries
    /\ cache = EmptyCache
    /\ run = 0
    /\ at = 0
    /\ answers = [i \in DOMAIN queries |-> [how |-> "none", list |-> {}]]
    /\ timed = [i \in DOMAIN queries |-> [how \in Kinds |-> 0]]

\* Mutant: the file is loaded into the cache the last run left, without
\* reset_cache.
MutStartRunKept ==
    /\ run < args.runs /\ at = 0
    /\ LET file == IF args.useFile THEN FileOf(args.fileKeys) ELSE EmptyCache
       IN  cache' = [s \in DOMAIN file \cup DOMAIN cache |->
                       IF s \in DOMAIN file THEN file[s] ELSE cache[s]]
    /\ at' = 1
    /\ UNCHANGED <<score, args, queries, run, answers, timed>>

\* Mutant: one run more than asked for.
MutStartRun ==
    /\ run <= args.runs /\ at = 0
    /\ cache' = IF args.useFile THEN FileOf(args.fileKeys) ELSE cache
    /\ at' = 1
    /\ UNCHANGED <<score, args, queries, run, answers, timed>>

\* A run starts.  The cache is emptied and loaded when a file is given; else
\* it stays as the last run left it.
StartRun ==
    /\ run < args.runs /\ at = 0
    /\ cache' = IF args.useFile THEN FileOf(args.fileKeys) ELSE cache
    /\ at' = 1
    /\ UNCHANGED <<score, args, queries, run, answers, timed>>

\* The run is over.
EndRun ==
    /\ at > Len(queries)
    /\ at' = 0
    /\ run' = run + 1
    /\ UNCHANGED <<score, args, queries, cache, answers, timed>>

\* The first run gives the results; the times come from the others, unless
\* there are less than three in all.
Report(how, ans) ==
    /\ answers' = IF run = 0
                  THEN [answers EXCEPT ![at] = [how |-> how, list |-> ans]]
                  ELSE answers
    /\ timed' = IF args.runs < 3 \/ run > 0
                THEN [timed EXCEPT ![at][how] = @ + 1] ELSE timed
    /\ at' = at + 1
    /\ UNCHANGED <<score, args, queries, run>>

Searching == at \in DOMAIN queries

\* A query that is in the cache is not searched for: its result is empty.
SearchHit ==
    /\ Searching /\ args.traversal = "OR" /\ queries[at] \in DOMAIN cache
    /\ Report("hit", {})
    /\ UNCHANGED cache

\* dyn_cache, which only process_bmw_disjunctive looks at.
Grows == args.dyn /\ args.index = "BMW"

\* Mutant: the best score of the answer instead of the last.
MutRemember(q, ans, low) ==
    IF Grows
    THEN [s \in DOMAIN cache \cup {q} |->
            IF s # q THEN cache[s]
            ELSE IF ans = {} THEN low ELSE Highest({h.score : h \in ans})]
    ELSE cache

\* Mutant: the first threshold of the query instead of the last.
MutRememberFirst(q, ans, low) ==
    IF Grows
    THEN [s \in DOMAIN cache \cup {q} |-> IF s = q THEN low ELSE cache[s]]
    ELSE cache

\* process_bmw_disjunctive leaves its last threshold in a dynamic cache;
\* process_wand_disjunctive does not.
Remember(q, ans, low) ==
    IF Grows
    THEN [s \in DOMAIN cache \cup {q} |->
            IF s = q THEN ThresholdAfter(ans, low) ELSE cache[s]]
    ELSE cache

\* Any other query is searched for, from the threshold the chosen heuristic
\* finds in the caches.
SearchMiss ==
    /\ Searching /\ args.traversal = "OR" /\ queries[at] \notin DOMAIN cache
    /\ \E low \in Estimates(args.method, queries[at], cache, FileOf(args.termKeys),
                            DocumentFrequencies(queries[at])) :
       \E ans \in Answers(queries[at], low) :
          /\ Report("miss", ans)
          /\ cache' = Remember(queries[at], ans, low)

\* The calls of the conjunctive engines are commented out: search ends without
\* a return statement.
SearchAnd ==
    /\ Searching /\ args.traversal = "AND"
    /\ \E ans \in Undefined : Report("undefined", ans)
    /\ UNCHANGED cache

Next == StartRun \/ SearchHit \/ SearchMiss \/ SearchAnd \/ EndRun

Spec == Init /\ [][Next]_vars

-----------------------------------------------------------------------------
(* Properties.                                                             *)

\* avg_num_run, by which the times are divided.
AvgNumRun == IF args.runs > 2 THEN args.runs - 1 ELSE args.runs

TypeOK ==
    /\ score \in Collections
    /\ args \in Arguments
    /\ queries \in Queries
    /\ DOMAIN cache \subseteq SUBSET Tokens
    /\ \A s \in DOMAIN cache : cache[s] \in 0 .. MaxScore
    /\ run \in 0 .. args.runs
    /\ at \in 0 .. Len(queries) + 1
    /\ DOMAIN answers = DOMAIN queries
    /\ timed \in [DOMAIN queries -> [Kinds -> Nat]]

\* Whatever was searched before and in whatever order, from a file or from an
\* earlier query: what the cache holds for a query is a threshold from which
\* the query would lose nothing.
CacheSound == \A s \in DOMAIN cache : SafeFor(s, cache[s])

\* The cached value is the K-th best score of the query (0 when fewer than K
\* documents match), although the search that produced it started from a
\* threshold another cached value gave: fewer than K documents score more, and
\* K reach it.  The README says so: "the k'th highest score of results".
KthScoreKept ==
    \A s \in DOMAIN cache :
        (args.useFile => s \notin DOMAIN FileOf(args.fileKeys)) =>
            /\ Cardinality(Reaching(s, cache[s] + 1)) < K
            /\ cache[s] > 0 => Cardinality(Reaching(s, cache[s])) >= K

\* Every answer the first run reports for a query that was searched for is a
\* top-K of the collection, whatever heuristic and cache it started from.
AnswersTopK ==
    \A i \in DOMAIN queries :
        answers[i].how = "miss" => IsTopK(queries[i], answers[i].list)

\* A row of the timing file takes its cache_hit from the first run and its time
\* from avg_num_run searches, most of them of later runs.  They are of one kind
\* when every run starts from the cache the first one started from, because
\* main loads it again or because nothing is stored; else the later runs, all
\* that are timed when there are three or more, find every query in the cache.
TimesAveraged ==
    (run = args.runs /\ at = 0) => \A i \in DOMAIN queries :
        /\ timed[i]["hit"] + timed[i]["miss"] + timed[i]["undefined"] = AvgNumRun
        /\ (args.useFile \/ ~Grows) =>
              \A how \in Kinds \ {answers[i].how} : timed[i][how] = 0
        /\ (Grows /\ ~args.useFile /\ args.traversal = "OR") =>
              timed[i]["hit"] >= args.runs - 1

\* src/README.md:77: "If you have a block-max index and use -t AND, this will
\* run block-max AND".
\* The documents of a reported answer contain all the tokens of the query.
ConjunctiveAnswered ==
    \A i \in DOMAIN queries : answers[i].how = "undefined" =>
        \A h \in answers[i].list : \A t \in queries[i] : score[{t}][h.doc] > 0

=============================================================================
