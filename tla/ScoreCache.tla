-------------------------------- MODULE ScoreCache -------------------------------
(***************************************************************************)
(* The score cache and the heuristics that turn it into a first threshold  *)
(* for a query (lowerbound_threshold.cpp).                                 *)
(*                                                                         *)
(* A query is the set of its tokens.  A cache maps queries to scores: its  *)
(* keys are strings, the terms in the order of their ids with a blank      *)
(* between them, and so as good as sets.  The tokens of a query are kept   *)
(* in that order, and gen_subsets keeps it.                                *)
(***************************************************************************)
EXTENDS Integers, FiniteSets

Highest(V) == CHOOSE v \in V : \A u \in V : u <= v

-----------------------------------------------------------------------------
(* What the heuristics are made of.                                        *)

\* gen_subsets: the keys for r of the tokens of q, none for r = 0.
KeysOfSize(q, r) == {s \in SUBSET q : r > 0 /\ Cardinality(s) = r}

Cached(keys, cache) == keys \cap DOMAIN cache

\* Mutant: the scores of keys come on top of the bound there is.
MutBest(low, keys, cache) ==
    low + Highest({0} \cup {cache[s] : s \in Cached(keys, cache)})

\* subset_max_exists: the highest of low and the scores cached for keys.
Best(low, keys, cache) ==
    Highest({low} \cup {cache[s] : s \in Cached(keys, cache)})

\* The keys of the largest of the sizes for which some key is cached.
LargestCached(q, sizes, cache) ==
    LET hits == {r \in sizes : Cached(KeysOfSize(q, r), cache) # {}}
    IN  IF hits = {} THEN {} ELSE KeysOfSize(q, Highest(hits))

\* The keys for some but not all tokens of q, of sizes from lo to hi.
ProperKeys(q, lo, hi) ==
    {s \in SUBSET q : Cardinality(s) \in lo .. hi /\ s # q /\ s # {}}

-----------------------------------------------------------------------------
(* The heuristics.                                                         *)

\* Three tokens, or else two, or else one, and never all of the query's.
HR1(q, cache) ==
    Best(0, LargestCached(q, {r \in 1 .. 3 : r < Cardinality(q)}, cache), cache)

HR2(q, cache) == Best(0, ProperKeys(q, 1, 3), cache)

HR3(q, cache) == Best(0, KeysOfSize(q, Cardinality(q) - 1), cache)

\* The (at most) three tokens with the longest lists.  Among tokens with lists
\* of the same length the sort leaves any in front.
HR4Heads(q, df) ==
    LET n == Cardinality(q)
    IN  {s \in SUBSET q : /\ Cardinality(s) = IF n - 1 < 3 THEN n - 1 ELSE 3
                          /\ \A t \in s, u \in q \ s : df[t] >= df[u]}

HR4(head, cache) == Best(0, SUBSET head \ {{}}, cache)

ALL(q, cache) == Best(0, ProperKeys(q, 1, Cardinality(q)), cache)

\* The terms have a cache of their own.
TS(q, terms) == Best(0, KeysOfSize(q, 1), terms)

HR1TS(q, cache, terms) ==
    Best(TS(q, terms),
         LargestCached(q, {r \in 2 .. 3 : r < Cardinality(q)}, cache), cache)

HR2TS(q, cache, terms) == Best(TS(q, terms), ProperKeys(q, 2, 6), cache)

Methods == {"NAIVE", "HR1", "HR2", "HR3", "HR4", "ALL", "TS", "HR1_TS", "HR2_TS"}

\* set_threshold_method chooses the heuristic; what it may return for q, when
\* the lists have the lengths df.
Estimates(method, q, cache, terms, df) ==
    CASE method = "HR1"    -> {HR1(q, cache)}
      [] method = "HR2"    -> {HR2(q, cache)}
      [] method = "HR3"    -> {HR3(q, cache)}
      [] method = "HR4"    -> {HR4(head, cache) : head \in HR4Heads(q, df)}
      [] method = "ALL"    -> {ALL(q, cache)}
      [] method = "TS"     -> {TS(q, terms)}
      [] method = "HR1_TS" -> {HR1TS(q, cache, terms)}
      [] method = "HR2_TS" -> {HR2TS(q, cache, terms)}
      [] OTHER             -> {0}

=============================================================================
