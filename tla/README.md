# Verification of Quant-BM-WAND

TLA+ models, TLC runs and TLAPS proofs for the WAND and Block-Max WAND search
engine in `src/`: compressed block postings lists from the bits of a stripe to the file
they are kept in, the iterators that move over them, two dynamic-pruning engines, and
the construction of the upper bounds the engines prune with.

The engines under test sit in a session: a query file is run several times, and a
*score cache*, loaded from files or growing as queries are answered, gives later
queries a first threshold.

The program is sequential.  What makes it hard is not concurrency but, on one side,
*layout*: an encoder, a generated decoder, two programs and a file have to agree on
widths, offsets, counts and numbers that nothing in the data repeats; and on the other
*pruning*: the engines pass over almost every posting of a query and have to return what an
exhaustive evaluation returns, from iterators whose caches and pointers are out
of step with each other by design, through a protocol that no comment states and
no assertion checks.

## 1. The system

| component | code | state it keeps | operations |
|---|---|---|---|
| postings list | `include/block_postings_list.hpp` | compressed blocks, a representative (last identifier) per block, an upper bound for the list and, in a BMW index, one per block | build (`create_block_support`, `create_rank_support_*`, `compress_postings_data`), `find_block_with_id`, `decompress_block`, `serialize`, `load` |
| postings iterator | the same, `plist_iterator` | position, block pointer, last accessed block and position, cached document and frequency, decode buffer | `docid`, `freq`, `operator++`, `block_containing_id`, `skip_to_id`, `block_max`, `block_rep`, `remaining` |
| top-k heap | `include/invidx.hpp`, `include/query.hpp` | at most k scored documents, a threshold | push, replace top, drain |
| WAND engine | `invidx.hpp:478-540` | the order of the lists, one iterator per list, the pivot, heap and threshold | `determine_candidate`, `evaluate_pivot`, `forward_lists`, `sort_list_by_id`, `find_shortest_list` |
| BMW engine | `invidx.hpp:602-675` | the same | additionally `potential_candidate`, `evaluate_pivot_bmw`, `forward_lists_bmw` |
| conjunctive engines | `invidx.hpp:543-589`, `679-733` | | unreachable: `search` has their calls commented out |
| threshold estimation | `src/lowerbound_threshold.cpp` | cached k-th scores of terms, pairs and triples | the heuristics `hr1` .. `hr4`, `all`, `ts`, `hr1_ts`, `hr2_ts` |
| search session | `src/search_index.cpp`, `invidx.hpp:736-784` | the cache across queries and runs, timings, results | the loop over runs and queries, `search` |
| query parser | `include/query.hpp` | dictionary | `parse_query`, `map_to_ids`, `rewrite_ordered` |
| index construction | `src/build_index.cpp` | the numbers given to terms, the lists written so far | the pass that writes the dictionary, the pass that writes the postings file |
| index files | `serialize`/`load` members, `invidx.hpp:79-93` | the file, the reading position, the lists loaded | written once by `build_index`, read once by `search_index` |
| QMX codec | `src/compress_qmx.cpp`, `src/compress_qmx_decompress.c` | `length_buffer` (the widths, then the selectors), the stripes written, two pointers of the decoder | `encodeArray`, `write_out`, `decodeArray` |
| QMX D4 codec | `src/compress_qmx_d4.cpp` | | linked into `build_index`, called by nothing |
| rankers | `include/bm25.hpp`, `impact.hpp` | collection statistics | `calculate_docscore` |

How they interact.  `search` wraps each list of the query in a `plist_wrapper`
that holds its iterator and calls one engine.  The engine owns a vector of
pointers to the wrappers and sorts it by the document each iterator is at.  From
the list maxima it chooses a *pivot*: the first list at which the sum of the maxima
could still reach the threshold.  If the first list is at the pivot's document,
that document is scored and all lists at it move on; otherwise one list before the
pivot skips.  BMW tests the pivot once more against the maxima of the blocks that
would hold it, found by *shallow moves* that move an iterator's block pointer but not
its position; when the test fails, it skips past whole blocks.  The threshold starts
at an estimate taken from the score cache and becomes the lowest score of the heap
once the heap is full.

What is hard:

* **Stale iterator state.**  `operator++` moves the position only; the cached
  document and the block pointer follow at the next `docid()`.  `skip_to_id` compares
  its argument with the *cached* document and starts at the *block pointer*, which
  shallow moves have moved ahead.  `block_max()` of the pivot list is read without a move.
* **Pruning over many turns.**  A skip moves one list.  A document may be passed by
  some of its lists over several turns and later become the pivot with a part of
  its score.
* **Ties.**  A bound equal to the threshold counts until the heap is full and not
  after, in three functions that have to agree; a seeded threshold makes the
  engine prune while the heap is still filling.
* **Progress.**  `find_shortest_list` has a fallback and `forward_lists_bmw` a "corner
  case check"; both are what keeps the loop from spinning.
* **Feedback through the cache.**  A cached threshold comes from a search that
  started from cached thresholds; what one query leaves decides what later ones see,
  and whether a run repeats the one before or finds all its queries answered.
* **Layout.**  A list becomes differences, differences become stripes of fifteen widths,
  stripes get a selector each at the other end of the data, blocks get offsets, lists get a
  place in a file.  The decoder knows how many integers there are only by two pointers meeting.
  The numbers of the dictionary count terms that the postings file leaves out.
* **Edges.**  The last block is short; a shallow move may leave the list; both
  block arrays are then read one past the end.

The hazards, each at its line with the properties that cover it, are listed in
`PROJECT.json`.

## 2. The modules

```
PostingsList ──┬── PlistIterator ── (refines) ── PostingsCursor
  (operators)  ├── BlockMaxBuild
               └── Traversal ── WandSearch ── BmwSearch
ScoreOrder ── ScoreHeap ──┘         └───────────┴── (refine) ── TopK
  (operators)     └── TopK, QuerySession
QmxStripe (the bits of a stripe) ──┬── Qmx   (encodeArray, decodeArray)
QmxSwitchNarrow ── QmxSwitch ──────┘     ┊ its SizeBound and RoundTrip are what
PostingsCodec ── IndexFile               ┊ PostingsCodec assumes of the codec
  (a list and its blocks)  (dump, file, loader)
ScoreHeap + ScoreCache ── QuerySession   (engines abstracted to what TopK promises)
QueryParser ── MCQuerySession

SmallIndexes, MC*: instances for TLC
CommonLemmas ──┬── PlistIteratorProofs
               ├── BlockMaxBuildProofs
               ├── EngineProofs ── (instance) ── TopKProofs
               ├── QuerySessionProofs
               ├── TopKProofs
               └── QmxProofs
IndexFileProofs (PostingsCodec and IndexFile)
```

**PostingsList** A list is a record of its identifiers, scores, maximum and block
maxima.  `FindBlock`, `Deref`, `Increment`, `ShallowMove`, `SkipTo` are the member
functions as operators from an iterator to an iterator.  An iterator is a record of
the five fields the code keeps (`m_cur_pos`, `m_cur_block_id`,
`m_last_accessed_block`, `m_last_accessed_id`, `m_cur_docid`); `m_cur_freq` is
always written with `m_cur_docid` from the same slot and is not kept.  Decoding a
block is taking the block's slice of identifiers.

**PlistIterator** One iterator and its client.  The guards are the protocol
the engines follow: read `docid()` before searching, never search backwards, call
nothing at the end of the list (`docid()` and `++` throw there).  The lower bound on
the arguments is a ghost, `floor`.  That the BMW engine really keeps the protocol is
`PointersFollowPivot` of BmwSearch.

**PostingsCursor** The abstract specification: a set of documents ahead, `Read`,
`Advance`, `Seek`.

**ScoreOrder**, **ScoreHeap**, **TopK** The heap is a set of `[doc, score]` records with the
order of `doc_score::operator>` (ScoreOrder, with the test a score has to pass).  TopK is what a disjunctive query promises: the
matching documents are settled in increasing order, each offered with its full score
or passed over, and only one that would not enter the heap may be passed over.

**Traversal** The state and the helpers common to both engines: one action is
one turn of the main loop, with the sort or the bubble pass and the next
`determine_candidate` inside it.  `std::sort` is not stable, so lists at the same
document come out in any order (`SortedOrders`).  Ghosts: `score`, what each document
scores; `frontier`, one past the last document evaluated; `turn`, a parity
that makes a turn that changes nothing a step, so that spinning is visible.

**WandSearch**, **BmwSearch** The main loops, `Spec` and `BmwSpec`; BmwSearch extends WandSearch so that
one module can hold the proofs about both.  BmwSearch has three kinds of turn:
evaluation, `forward_lists`, `forward_lists_bmw`.  Reads past the block arrays
(`block_max(num_blocks)`, `block_rep(num_blocks)`) are choices from `MaxBeyond` and `RepBeyond`.

**QmxStripe** One stripe, bit by bit.  A register is a function from its 128 bits to
the sets of value bits OR-ed there, so that a bit that lands in the wrong place, is lost, or
is dragged in from the neighbouring lane is visible.  `Pack` is the switch of `write_out`;
`Unpack` is what the cases of one stripe (`0x1f`, `0x2f`, ... `0xef`) do with the SSE shifts, masks,
shuffles and widenings, which are modelled by their effect on bits.

**QmxSwitchNarrow**, **QmxSwitch** The switch of the generated decoder (selectors up to `0x7f`, and from `0x80`),
one definition per case: the width
unpacked, how many stripes, and the literals added to `in` and `to`.  The 42,000 lines under
them are the same fifteen sequences of instructions, unrolled; each sequence is
modelled once, in QmxStripe.  The cases of single words fall through, down to `0xff`.

**Qmx** `encodeArray`, then `decodeArray` on what it wrote.  `Measure` gives widths and
rounds them up over groups of four; `Plan` is one turn of the planning loop, the rules for short ends at
its head included: a stripe fits, or the width is promoted.  `WriteRun` is one call of
`write_out`; it puts selectors over the widths in `length_buffer`, as the code does.  `Decode` is
one turn of the decoder: the selector decides the case, the case decides
everything else.  Both flags of `compress_qmx.cpp:46-47` are on, as in the source.

**PostingsCodec** `compress_postings_data` and `decompress_block`.  One action per block
written and per turn of the two summing loops, with the four lanes of `prev`.  The codec is what Qmx
shows of it: any number of bytes up to five per integer, and the integers back if all the words of
the encoding are still there.  A word of memory is its place in an encoding, so that a
block written over another shows.

**IndexFile** From a dump to a decoded block.  The writer is `build_index` (dictionary;
number of lists and two dummy lists; one list per term up to the first tilde), the reader the
constructor of `idx_invfile`, then any lookup and any decoding.  It uses the actions of PostingsCodec
for every list.  The file is the sequence of integers and words in the order they are written, and
the reader finds its way in it by counts, as `load` does.  Behind the end of the file `load`
sizes its vectors by locals it never set: the outcome is an empty list or the end of the
program for lack of memory.  `m_size`, which decides everything an engine does
with a list, keeps its initial 0.

**BlockMaxBuild** The three loops that fill representatives and bounds, an action
per iteration.

**ScoreCache** The heuristics of `lowerbound_threshold.cpp` as operators.  A query is
the set of its tokens; a cache maps such sets to scores.  The keys of the code are
strings, the terms in token order with blanks between them, and terms contain no blank,
so a key and a set of tokens determine each other.  `HR4` sorts by document
frequency with an unstable sort: `HR4Heads` is the set of heads that can come out.

**QueryParser** Words that are unknown are dropped, repeated ones merge, order
does not matter, lines without a known word give no query.

**QuerySession** `main` of `search_index` and `idx_invfile::search`: a run starts
(with a reload of the cache only if there is a cache file), each query is a hit (empty
result), a miss (estimate, search, store if the index is BMW and the cache grows), or,
with `-t AND`, undefined.  An engine is what TopK promises of it, and nothing at all
when the threshold it starts from is not safe; the composition is by assumption and guarantee.
`FileOf` is `tools/static_cache.py`.  Of the times only how many searches of each kind they are the sum of is kept
(`timed`): rows take `cache_hit` from the first run and the time from all that are timed.

**IndexFileProofs** and the other `*Proofs` modules hold the theorems, `CommonLemmas` what
they share.

Scores are natural numbers throughout, as in a quantized index.

## 3. The runs

| run | what it asks | bounds |
|---|---|---|
| `plist_iterator` | does the iterator behave as a plain cursor, are caches and block pointer usable | all lists over 7 documents, blocks of 2, identifiers 0..7 |
| `topk` | is pruning with a safe seed invisible, down to ties | 5 documents, scores 0..3, K = 2 |
| `wand` | does WAND implement TopK, without moving its pivot back, and to the end | all indexes of 3 tokens over 3 documents, impacts 1..2, lists of 2 or 3 postings, K = 2 |
| `bmw_blocks` | does BMW implement TopK when lists have several blocks | 2 tokens, 5 documents, lists of 3..5 postings (2 or 3 blocks) with unequal impacts, K = 1 |
| `bmw_tokens` | the same with more lists than one can compare at once; are they kept in order (`ListsSorted`, `TypeOK`; the helpers are shared with WAND) | 3 tokens, 3 documents, lists of 2 or 3 postings, K = 1 |
| `bmw_beyond` | what if a read past the block maxima gives a negative number (violation) | chosen lists over 4 documents |
| `block_build` | are representatives and bounds right for every list length | all lists over 5 documents, blocks of 2 |
| `session` | does any cached score ever cost a query a result, of which searches are the times averages (`TimesAveraged`) | 4 tokens, 3 documents, 3 collections, 4 query files, all methods, 1..3 runs, K = 2 |
| `conjunctive` | does `-t AND` answer (violation) | the same |
| `qmx` | does decoding give back what was encoded, inside the buffers, aligned, within five bytes per integer, and do both calls end | 1090 arrays: ends of up to 15 values, a stripe or two with an end of another width, and for each width runs of 1 to 16 stripes, which reach every selector the encoder can write; two batches in one run |
| `qmx_short_tail` | are short ends stored in bytes (violation) | the short arrays of `qmx` |
| `index_file` | do the dictionary's numbers lead to the right lists through writing and loading, are blocks apart and decoded right | collections of up to 4 terms, lists of 1 to 66 postings in blocks of 32, encodings of 5, 18 or 160 bytes per block and stream, BMW and WAND |

Named bounds: `BlockSize` (2 where the program has 128), `NumDocs`, `K`, `Tokens`,
`MaxImpact`, `MinPostings`, `Slack` (4 words where the code has 1024, so that the room is nearly used),
`Wastage` (16 widths behind an array where the code has 512), `ByteSizes`, `Contrast` (leave out lists whose impacts are all equal, for
which block maxima say nothing), `MaxSize` (the "unset" value), `MaxScore`.

Why they are enough to be of interest: blocks of two postings have a first and a last slot
and may be short; three tokens are the least with which a pivot has a list before and one
after it; three blocks are the least with which a shallow move can leave a position behind
by a whole block; K = 1 fills the heap at once and makes the second test fail often, K = 2 has a
phase in which the heap is filling with a seeded threshold.  Four tokens are the least for
which the heuristics look at triples.  Blocks of 32 are the smallest `block_postings_list` allows; the byte sizes
are one that needs padding to a word and to four words, one in between, and the largest for 32 integers.
The planning loop looks at most eight widths past the end of an array (`WastageAssumption`).

What they show: all the properties hold, with three exceptions.

* `bmw_beyond`: `potential_candidate` reads `m_block_maximums` one past its end when a list
  before the pivot has ended before it (`invidx.hpp:299`).  In `bmw_blocks` and `bmw_tokens` what is
  read is 0 or a positive number and nothing is lost; a negative number makes the test fail for a document
  of the answer.  `MaxBeyond` and `RepBeyond` are the only nondeterminism of the engines
  besides the order of ties.
* `conjunctive`: `README.md:77` says `-t AND` runs block-max AND; both calls are commented
  out and `search` returns nothing.
* `qmx_short_tail`: `compress_qmx.cpp:482` says that fewer than 16 values that fit into 8 bits are stored
  as bytes; case 8 of the switch under it promotes them to 9 bits and beyond (`:657-661`), so that
  they are stored in wider ways.  Nothing is lost but space.

**Fairness.**  `Qmx` and `IndexFile` assume weak fairness of their next-state relation: one thread that
runs on as long as it can.  Until `search_index` answers queries, every step of theirs changes a variable.

The engines have one thread.  `Fairness` says that the thread is
not stopped forever before it is done: `[]<>(pc = "done") \/ []<><<Step>>_vars`.  It is
weak fairness of `Step`, written without ENABLED: a step is possible in every other state
(the runs check for deadlock) and flips `turn`, so that it is never a stutter.  It does not
help a loop that spins: a turn that changes nothing but `turn` counts as a step.  (`WF_vars(Step)` says
the same, at a cost that is out of TLC's reach here: ENABLED would evaluate every turn of an engine twice.)

`CHECK_DEADLOCK FALSE` is in the configurations of `qmx`, `qmx_short_tail` and `index_file`: the calls return, and the loader may end
the program.

## 4. The proofs

All for every value of the constants, from the named assumptions in the modules.

* **The iterator** (`PlistIteratorProofs`).  Assumptions: `BlockSize` and `MaxSize` positive,
  lists ascending and shorter than `MaxSize - 1`.  The inductive invariant is
  `TypeOK /\ CachesSound`; `CachesSound` is needed because the position alone does not say where
  the block pointer and the buffer are.  `SkipLands` does the work: blocks the search passes
  hold nothing at or after the identifier (`PassedBlocks`), and inside a block `lower_bound` may start at
  the current slot.  Then `IteratorImplementsCursor`, one case per action.
* **The heap** (`TopKProofs`).  The invariant adds to the types that entries are true and
  settled, that the threshold is the top's score once the heap is full and a safe seed before,
  and that settled documents outside would still not enter.  `SeedFillsHeap` shows that a
  seeded heap is full in the end, by counting.  Then `TopKIsSafe`.
  A top-K leaves open which of several documents with the K-th score it has; `SameAnswer` does not.  It compares with
  exhaustive evaluation, a recursive function over the documents, of which `EvaluationExists` shows that there is one (by a least
  number for which there is none).  The invariant added for it is a simulation, `SameSoFar`: the heap is the part of
  exhaustive evaluation's heap for the settled documents that reaches the threshold.  `SettledAlike` shows that scoring
  a document in both keeps it so, also when only one of the two heaps is full, and `PassedOver` that leaving out a document that would not
  enter does.  At the end the heap is full, so that the part is the whole, or the threshold is 0.
* **Construction** (`BlockMaxBuildProofs`).  The invariant ties `l`, `i`, `j` and
  `maxScore` to the block being filled (`Place`, `MaxOfRun`) and says what the finished blocks
  hold.  Then `BoundsAreSound` and `BoundsAreTight`, which are what `IsBounded` asks of a list.
* **The session** (`QuerySessionProofs`).  Assumptions: scores are monotone in the set of tokens,
  the cache files hold scores of rank K or later.  The invariant is `TypeOK`, `CacheSound`, `KthScoreKept`,
  `AnswersTopK` and the bookkeeping of runs (below).  `SafeForMore`: a threshold K documents reach for some of the tokens
  is reached by K for all of them.  `EstimatesAreGood`: hence every heuristic returns
  a safe one.  `LastThreshold`: a search from a safe threshold ends on the K-th best score.
  This discharges `SafeSeed`, which TopK and the engines assume of their seeds.
  The bookkeeping says which queries the cache holds when run r comes to query i (`Held`, `CacheHolds`), hence whether that search is
  a hit (`Kind`), and that answers and times are so (`Reported`, `Timed`).  Then `TimesAreAveraged`: with `-f`, or without a cache that grows, the runs are
  alike; with `-d` alone all but the first are hits, and three runs or more report the times of hits beside the misses of the first.
* **Blocks** (`IndexFileProofs`).  Assumptions: the block size is a positive multiple of 32, at least
  four words of slack, encodings of at least one byte; that an encoding takes at most five bytes per integer is a
  guard of `CompressBlock`, which `QmxSizeBound` proves of the codec.  The invariant, `IInv`, needs more than the properties: the
  offsets stay below 2 words per posting encoded (`OffsetsBounded`; five bytes per integer padded to four words are at most
  two words per integer because a block that is not the last has at least 32, and the last one may use the
  slack); every block ends at or before the next offset (`BlocksEnd`), so that writing at the offset leaves earlier blocks alone;
  representatives are the last identifiers (`LastIds`), because summing starts from them; and the loop counters
  stay inside the block (`Counters`).  Then `RoomAlwaysSuffices`, `BlocksStayIntact` and
  `DecompressionCorrect`: the four-lane prefix sum and the change from it to the scalar loop, for blocks of any length.
  These are about one list built and decoded any number of times; the invariant is stated so that a list may also come
  from elsewhere.
* **Index files** (`IndexFileProofs`).  Assumption, besides those of the blocks: a collection is a sequence of
  terms, each with at least one impact and each impact with at least one document; which terms have a tilde is left open.
  That a term's postings become an ascending list is a guard of `NextTerm` (`PostingsLists`).
  Nothing in the file says what an integer is, so the invariant, `FileInv`, says where things are: there are positions `at[0]`,
  `at[1]`, ..., one for each list written, such that reading a list at one (`Reading`) ends at the next and never looks behind the end (`FileOf`); the lists read from
  `at[2]` on are those of the terms (`ListFor`: sizes, block table, contents of the blocks, bounds).
  The lists loaded so far are the ones at the first positions, in order, and the position is behind the last one; from the end of the file on,
  empty lists (`Loading`).  The list in work is its term's, and its first block starts at offset 0 (`Building`, `FirstAtZero`): `load` takes
  this for granted, since it gets the bytes a block takes from the offset of the next.
  `ReadsBack` is the heart: reading at the place where `Serialized` was appended gives back the list, piece by piece (`EightParts`, `FieldsOfBlock`),
  and `ReadAgain` that what is appended later does not change it.  `BoundsWritten` shows that what `NextTerm` and `CompressBlock` put into `max`, `bmax` and the
  block table are the maxima and last identifiers of the blocks.
  Then `DictionaryIsRight` (term k has number k + 1 and list k + 1 of the file, counted from 0, because of the two dummies), and
  `FileRoomSuffices`, `FileBlocksIntact`, `FileDecodesBlock`: what is proved of a list that was just built is true of one that went through the file.
  TLC checked `FileInv` on the instance of `index_file` before the proof.

* **The engines** (`EngineProofs`).  Assumptions: the index holds postings lists in the sense of the iterator's proofs, every
  posting scores something (BM25 keeps a weight above zero by an epsilon of 1e-6, `bm25.hpp`; frequencies and
  impacts are at least 1), the bounds hold (what `BlockMaxBuildProofs` shows of an index that was built), the tokens of a
  query are distinct (the parser's doing).  Every theorem is for `F = 1`, the program's default; those about BMW also for
  `MaxBeyond \subseteq Nat`, which is needed: `bmw_beyond` is the counterexample without it.
  The inductive invariant (`IInv`, in the loop `LoopInv`) says that every iterator is good (`CursorGood`: its
  caches are those of its position) and at a document from `frontier` on, that
  the lists are arranged by document (`Arranged`), the pivot is the first list that can matter and the last at its
  document (`Chosen`), block pointers can be searched from for the pivot's document (`SearchReady`), the heap holds
  true entries and the threshold is its top's score or the seed (`HeapGood`), and, the heart, that a document which was passed
  by one of its lists is below `frontier` or cannot enter the heap (`NoLoss`).
  TLC checked it on `wand`, `bmw_blocks` and `bmw_tokens` before the proof.
  The argument: `BeforePivot` shows that what is before the pivot's document is worthless, by the list maxima;
  `BlockBoundCovers` and `NextCandidateFinds` that the second test and the skip past it are as careful, from the iterator's
  `SkipLands` and the block representatives; `EarlyStop` and `PushIsOffer` that an evaluation cut short never changes
  the heap; `BubbledArranged` that one list's pass down restores the order.  `Outline` sums up: every step is
  the start, a turn that passes over documents that would not enter the heap or scores the next one, the end, or a stutter.  From it come the action
  properties, and step by step the refinement of TopK (`WandImplementsTopK`, `BmwImplementsTopK`).  With `TopKIsSafe` the
  answer is a top-K of the collection (`WandRankSafe`, `BmwRankSafe`), and with `SameAnswer` it is the one exhaustive evaluation
  gives, ties included (`WandSameAsExhaustive`, `BmwSameAsExhaustive`): two engines, or one engine with and without a cached
  threshold, return the same documents.
  `BmwPointersFollowPivot` is the protocol PlistIterator asks of its client, so that proof and this one fit together.

* **The codec** (`QmxProofs`).  Assumptions: an array has at least one integer and is indexed from 0; at
  least eight widths of wastage lie behind it.  The theorems are about every such array, one call of
  `encodeArray` and one of `decodeArray` on what it wrote.
  The inductive invariant has a part for each phase.
  While the plan is made (`PlanInv`), each width covers its value, widths are the same over groups of four
  from the position on (`Level`), single words come only where less than a stripe of four is left (`SingleLast`), and
  what is behind the position is cut into whole stripes (`WholeStripes`).  The wastage behind the array holds
  widths too, which is all a look ahead past the end needs.
  While runs are written (`WriteInv`), the selectors in `length_buffer` stand for batches of one to sixteen stripes that follow
  each other without a gap (`Batched`), and there are no more of them than integers written, so that the widths they
  overwrite were read before; bytes and selectors together are at most five per integer.
  While the data are decoded (`DecodeInv`), a number of batches is done and both pointers are at the next (`Decoded`).
  Two lemmas say that encoder and decoder agree.  `CasesAreRight`: for each width and number of stripes
  the case of the switch unpacks that width that many times and adds the right literals (all the cases the encoder can select).
  `AllRecovered`: for each width, the value bits of a stripe come back from `Pack` through `Unpack`, each exactly
  once and in order; stripes of one register by `SingleRecovered`, the four widths with two registers by
  `PairRecovered`, and 8, 16 and 32 bits by what the widenings and the copy do with bits.
  Then `QmxRoundTrip`, `QmxNoOverrun`, `QmxLoadsAligned`, `QmxSizeBound`, `QmxKeysTrailRun`.
  With `QmxSizeBound` and `QmxRoundTrip` what PostingsCodec takes from the codec is proved as well.

`CommonLemmas` (numbers, sums over finite sets, heaps; blocks and searches of an iterator) holds the facts these share.

## 5. What is only model-checked

* `Termination` of the engines: liveness under fairness is out of the prover's reach.
* `Termination` of `Qmx`, `LoadingEnds`: liveness.

## 6. What is not modelled

* The D4 codec (`compress_qmx_d4.cpp`): it is linked into `build_index` but no file includes its header.
* The generator of the decoder and the test programs in `compress_qmx.cpp:816-1453`: under `#ifdef`s that are off.
* Integers beyond 31 bits in the codec (TLC's integers are of 32 bits; the width of 32 bits is exercised by
  smaller values; the proofs let it hold any number, where the code has words of 32 bits), and `encodeArray` of no integers, which no caller makes: every term has a posting.
* The selectors `0xf0` to `0xfc`, which the encoder never writes (a last resort of single words is of three at most), are in
  `QmxSwitch` but no array reaches them.
* Floating point: BM25 scores are doubles, and sums of them are rounded.  The rankers are stateless arithmetic.
* The conjunctive engines: unreachable, and the evaluation in them is commented out.
* Aggression factors other than 1, which give up rank safety on purpose.
* Of `build_index`, the files of document lengths, names and statistics and the choice of the ranker; ATIRE itself is
  the order in which it gives its terms.
* Statistics, output files, option parsing, tools.

Most lines of the repository are generated: 42,388 of its 53,859 are the cases of the decoder's switch, and 5,400 of the
D4 decoder's lines are of the same kind.  `PROJECT.json` maps one line of `QmxSwitchNarrow` or `QmxSwitch` to each case.  The
rest of what is not mapped is the list above.

## 7. What could follow

1. HR4: the comment at `lowerbound_threshold.hpp:28-32` says the first subset found is the
   best; the code looks at all of them.  Compare the heuristics with each other.
2. A refinement from IndexFile to the lists PostingsList starts from.
