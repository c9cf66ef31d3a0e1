------------------------------ MODULE IndexFile ------------------------------
(***************************************************************************)
(* From a dump of the collection to a decoded block: build_index writes    *)
(* the dictionary and then the postings file, search_index loads the file  *)
(* and decodes the lists the dictionary points to.                         *)
(*                                                                         *)
(* The two passes of build_index over the terms do not agree: the          *)
(* dictionary numbers every term from 2, the second pass writes two dummy  *)
(* lists for 0 and 1 and stops at the first term with a tilde, while the   *)
(* number of lists in the header counts all terms.  The file is the        *)
(* sequence of the integers and words in the order they are written;       *)
(* nothing in it says what they are.                                       *)
(***************************************************************************)
EXTENDS PostingsCodec, SequencesExt, FiniteSetsExt

CONSTANT Collections    \* sequences of terms, see IsTerm

VARIABLES
    phase,      \* the pass of build_index or search_index
    terms,      \* the terms in the order of the ATIRE iterator
    dict,       \* dict.txt: the number of a term
    term,       \* the second pass: terms whose list has been written
    file,       \* the postings file
    pos,        \* reading position of the loader
    lists,      \* m_postings_lists: lists[j + 1] is list j
    form        \* index_type: BMW with block maxima, WAND without

fileVars == <<phase, terms, dict, term, file, pos, lists, form>>
allVars == <<vars, fileVars>>

\* A term's quanta: the impacts in the order of its header, each with the
\* documents it is given in, in order; a document is in one quantum.
IsTerm(t) ==
    /\ t.tilde \in BOOLEAN
    /\ Len(t.quanta) > 0
    /\ \A q \in DOMAIN t.quanta : Len(t.quanta[q].docs) > 0

ASSUME CollectionsAssumption ==
    \A c \in Collections :
        /\ Len(c) \in Nat /\ DOMAIN c = 1 .. Len(c)
        /\ \A k \in DOMAIN c : IsTerm(c[k])

Lowest == -1    \* std::numeric_limits<double>::lowest()

\* The postings of a term as they come, sorted by impact, and by document.
Dumped(t) ==
    FlattenSeq([q \in 1 .. Len(t.quanta) |->
        [d \in 1 .. Len(t.quanta[q].docs) |->
            [doc |-> t.quanta[q].docs[d], impact |-> t.quanta[q].impact]]])

Sorted(post) == SortSeq(post, LAMBDA x, y : x.doc < y.doc)

ListOf(post) ==
    [size |-> Len(post),
     ids |-> [p \in 0 .. Len(post) - 1 |-> post[p + 1].doc],
     freqs |-> [p \in 0 .. Len(post) - 1 |-> post[p + 1].impact]]

-----------------------------------------------------------------------------
(***************************************************************************)
(* serialize and load of block_postings_list.  The words between blocks    *)
(* that no encoding used are still zero, here Unused.                      *)
(***************************************************************************)
Unused == [data |-> <<>>, part |-> -1]

Contents(s, used) ==
    [w \in 1 .. used |-> IF w - 1 \in DOMAIN mem[s] THEN mem[s][w - 1] ELSE Unused]

\* struct block_data, packed.
BlockFields(b) ==
    <<block[b].max, block[b].at["id"], block[b].at["freq"],
      block[b].bytes["id"], block[b].bytes["freq"]>>

OneBlock(n) == n <= BlockSize

\* create_rank_support_bmw and _wand for impacts: module BlockMaxBuild.
Largest(S) == Max({freqs[p] : p \in S} \cup {0})
BlockMaxima ==
    IF form = "wand" THEN <<>>
    ELSE [b \in 1 .. NumBlocks |->
            Largest(BlockSize * (b - 1) .. BlockSize * (b - 1) + PostingsIn(b - 1) - 1)]
ListMaximum == Largest(0 .. size - 1)

Serialized ==
    <<size>>
    \o (IF OneBlock(size)
        THEN <<block[0].max, block[0].bytes["id"], block[0].bytes["freq"]>>
        ELSE [x \in 1 .. 5 * NumBlocks |-> BlockFields((x - 1) \div 5)[((x - 1) % 5) + 1]])
    \o <<offset["id"], offset["freq"]>>
    \o Contents("id", offset["id"]) \o Contents("freq", offset["freq"])
    \o <<Len(BlockMaxima)>> \o BlockMaxima \o <<ListMaximum>>

\* block_postings_list(): one block, nothing in it.
DummyFields == <<0, 0, -1, -1, 0, 0, 0, Lowest>>

\* The list that starts at position p of the file and the position behind it.
ReadBlock(p) ==
    [max |-> file[p], at |-> [s \in Streams |-> IF s = "id" THEN file[p + 1] ELSE file[p + 2]],
     bytes |-> [s \in Streams |-> IF s = "id" THEN file[p + 3] ELSE file[p + 4]]]

ReadOnlyBlock(p) ==
    [max |-> file[p], at |-> [s \in Streams |-> 0],
     bytes |-> [s \in Streams |-> IF s = "id" THEN file[p + 1] ELSE file[p + 2]]]

ReadList(p) ==
    LET n == file[p]
        blocks == (n + BlockSize - 1) \div BlockSize
        counts == p + 1 + (IF OneBlock(n) THEN 3 ELSE 5 * blocks)
        words == [s \in Streams |-> IF s = "id" THEN file[counts] ELSE file[counts + 1]]
        from == [s \in Streams |-> counts + 2 + (IF s = "id" THEN 0 ELSE words["id"])]
        maxima == from["freq"] + words["freq"]
    IN  [size |-> n,
         block |-> IF OneBlock(n) THEN [b \in {0} |-> ReadOnlyBlock(p + 1)]
                   ELSE [b \in 0 .. blocks - 1 |-> ReadBlock(p + 1 + 5 * b)],
         mem |-> [s \in Streams |-> [w \in 0 .. words[s] - 1 |-> file[from[s] + w]]],
         words |-> words,
         bmax |-> [b \in 1 .. file[maxima] |-> file[maxima + b]],
         max |-> file[maxima + file[maxima] + 1],
         next |-> maxima + file[maxima] + 2]

\* A list no byte of the file is left for: m_size keeps its initial 0, the
\* locals of load and what is sized by them are whatever the stack held.
EmptyList ==
    [size |-> 0,
     block |-> [b \in {0} |-> [max |-> 0, at |-> [s \in Streams |-> 0],
                               bytes |-> [s \in Streams |-> -1]]],
     mem |-> [s \in Streams |-> <<>>],
     words |-> [s \in Streams |-> 0],
     bmax |-> <<>>, max |-> Lowest,
     next |-> Len(file) + 1]

-----------------------------------------------------------------------------
Wanted(k) == ListOf(Sorted(Dumped(terms[k])))

NoList == [size |-> 0, ids |-> <<>>, freqs |-> <<>>]

FileInit ==
    /\ phase = "dictionary"
    /\ terms \in Collections
    /\ form \in {"bmw", "wand"}
    /\ dict = <<>> /\ term = 0 /\ file = <<>> /\ pos = 0 /\ lists = <<>>
    /\ Init

\* The first pass: every term, the ones with a tilde too, from number 2.
WriteDictionary ==
    /\ phase = "dictionary"
    /\ dict' = [k \in 1 .. Len(terms) |-> k + 1]
    /\ phase' = "header"
    /\ UNCHANGED <<vars, terms, term, file, pos, lists, form>>

\* n_terms counts the unique terms, and the dummies take numbers 0 and 1.
\* Mutant: one dummy instead of two.
MutWriteHeader ==
    /\ phase = "header"
    /\ file' = <<Len(terms) + 2>> \o DummyFields
    /\ phase' = "terms"
    /\ UNCHANGED <<vars, terms, dict, term, pos, lists, form>>

WriteHeader ==
    /\ phase = "header"
    /\ file' = <<Len(terms) + 2>> \o DummyFields \o DummyFields
    /\ phase' = "terms"
    /\ UNCHANGED <<vars, terms, dict, term, pos, lists, form>>

IsTilde(k) == terms[k].tilde
PastTilde(k) == \E j \in 1 .. k : IsTilde(j)

\* One turn of the second pass: the postings of the next term are gathered,
\* sorted by document and given to the constructor of the list.
NextTerm ==
    /\ phase = "terms" /\ term < Len(terms) /\ ~IsTilde(term + 1)
    /\ \E l \in PostingsLists : l = Wanted(term + 1) /\ Construct(l)
    /\ phase' = "list"
    /\ UNCHANGED <<terms, dict, term, file, pos, lists, form>>

CompressTerm ==
    /\ phase = "list" /\ Compress
    /\ UNCHANGED fileVars

WriteList ==
    /\ phase = "list" /\ mode = "built"
    /\ file' = file \o Serialized
    /\ term' = term + 1
    /\ phase' = "terms"
    /\ mode' = "idle"
    /\ UNCHANGED <<input, compressed, decoded, terms, dict, pos, lists, form>>

\* The pass ends with the terms or at the first tilde.
CloseFile ==
    /\ phase = "terms" /\ ~(term < Len(terms) /\ ~IsTilde(term + 1))
    /\ phase' = "load" /\ pos' = 2
    /\ UNCHANGED <<vars, terms, dict, term, file, lists, form>>

-----------------------------------------------------------------------------
\* idx_invfile's constructor reads as many lists as the header says.
LoadNext ==
    /\ phase = "load" /\ Len(lists) < file[1] /\ pos <= Len(file)
    /\ lists' = Append(lists, ReadList(pos))
    /\ pos' = ReadList(pos).next
    /\ UNCHANGED <<vars, phase, terms, dict, term, file, form>>

\* Mutant: a list that could not be read is not counted, in a loop until there
\* are as many as the header says.
MutLoadPastEnd ==
    /\ phase = "load" /\ Len(lists) < file[1] /\ pos > Len(file)
    /\ UNCHANGED allVars

\* Behind the end of the file the vectors are resized to uninitialised
\* numbers: an empty list, or no memory and the end of the program.
LoadPastEnd ==
    /\ phase = "load" /\ Len(lists) < file[1] /\ pos > Len(file)
    /\ \/ lists' = Append(lists, EmptyList) /\ phase' = phase
       \/ lists' = lists /\ phase' = "aborted"
    /\ UNCHANGED <<vars, terms, dict, term, file, pos, form>>

Loaded ==
    /\ phase = "load" /\ Len(lists) = file[1]
    /\ phase' = "search"
    /\ UNCHANGED <<vars, terms, dict, term, file, pos, lists, form>>

\* A query asks for term k: the list the dictionary names.  The ids and
\* frequencies it should have are those of the dump.
LookUp(k) ==
    /\ phase = "search" /\ mode \in {"idle", "built", "decoded"}
    /\ \E l \in {lists[dict[k] + 1]} :
          size' = l.size /\ block' = l.block /\ mem' = l.mem /\ offset' = l.words
    /\ \E l \in {IF PastTilde(k) THEN NoList ELSE Wanted(k)} :
          ids' = l.ids /\ freqs' = l.freqs /\ done' = l.size
    /\ mode' = "built"
    /\ UNCHANGED <<decoded, fileVars>>

DecompressTerm ==
    /\ phase = "search" /\ Decompress
    /\ UNCHANGED fileVars

FileNext ==
    \/ WriteDictionary \/ WriteHeader \/ NextTerm \/ CompressTerm \/ WriteList
    \/ CloseFile \/ LoadNext \/ LoadPastEnd \/ Loaded
    \/ \E k \in 1 .. Len(terms) : LookUp(k)
    \/ DecompressTerm

\* Two programs, one thread each, run to their end one after the other.
FileFairness == WF_allVars(FileNext)

FileSpec == FileInit /\ [][FileNext]_allVars /\ FileFairness

-----------------------------------------------------------------------------
(***************************************************************************)
(* When search_index has loaded the file, the number the dictionary gives  *)
(* a term leads to the list of just that term: as many postings as the     *)
(* dump has, the largest id and, for BMW, the largest impact of every      *)
(* block, and the largest impact of the list.  Terms from the first tilde  *)
(* on, which the dictionary numbers too, lead to lists of no postings,     *)
(* whatever the loader made of the missing bytes.                          *)
(***************************************************************************)
DictionaryFindsList ==
    phase = "search" /\ mode = "idle" =>
        \A k \in DOMAIN terms :
            LET l == lists[dict[k] + 1]
                want == Wanted(k)
                of(b) == {p \in 0 .. want.size - 1 : p \div BlockSize = b}
                top(S) == Max({want.freqs[p] : p \in S})
            IN  IF PastTilde(k) THEN l.size = 0
                ELSE /\ l.size = want.size
                     /\ l.max = top(0 .. want.size - 1)
                     /\ \A b \in DOMAIN l.block : l.block[b].max = want.ids[Max(of(b))]
                     /\ \A p \in 0 .. want.size - 1 : p \div BlockSize \in DOMAIN l.block
                     /\ form = "bmw" =>
                           l.bmax = [b \in 1 .. (want.size + BlockSize - 1) \div BlockSize |->
                                        top(of(b - 1))]

(***************************************************************************)
(* search_index comes to answer queries, or ends for want of memory when   *)
(* the file promises lists it does not have: the two programs never wait   *)
(* for a list, a term or a byte that does not come.                        *)
(***************************************************************************)
LoadingEnds == <>(phase \in {"search", "aborted"})

=============================================================================
