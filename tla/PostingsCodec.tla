----------------------------- MODULE PostingsCodec -----------------------------
(***************************************************************************)
(* How block_postings_list compresses a postings list and decompresses one *)
(* of its blocks.  compress_postings_data turns the ids into differences   *)
(* over the whole list and encodes them, and the frequencies, block by     *)
(* block into two arrays of 32-bit words; decompress_block decodes a block *)
(* and sums the differences up again, four at a time with SSE and the rest *)
(* one by one, from the largest id of the block before.                    *)
(*                                                                         *)
(* The codec is abstracted to what module Qmx shows of it: the bytes for   *)
(* count integers are between 1 and 5 * count, and decoding undisturbed    *)
(* bytes returns the integers.  A word of an array is then the integers it *)
(* belongs to and its place among the words of that encoding.              *)
(***************************************************************************)
EXTENDS Integers

CONSTANTS
    BlockSize,      \* t_block_size
    Slack,          \* words on top of two per posting, 1024 in the code
    ByteSizes,      \* encoded sizes to choose from
    PostingsLists   \* the lists to compress

IsList(l) ==
    /\ l.size \in Nat \ {0}
    /\ l.ids \in [0 .. l.size - 1 -> Nat]
    /\ l.freqs \in [0 .. l.size - 1 -> Nat]

\* static_assert(t_block_size % 32 == 0); 1024 words of slack.
ASSUME CodecAssumption ==
    /\ BlockSize \in Nat /\ BlockSize > 0 /\ BlockSize % 32 = 0
    /\ Slack \in Nat /\ Slack >= 4
    /\ ByteSizes \subseteq Nat \ {0}
    /\ \A l \in PostingsLists : IsList(l)

VARIABLES
    size,       \* m_size
    ids,        \* the ids and
    freqs,      \* the frequencies, given in order of id
    mode,       \* what is being done with the list
    done,       \* compress_postings_data: i, postings encoded
    offset,     \* id_offset and freq_offset
    block,      \* m_block_data
    mem,        \* m_docid_data and m_freq_data
    blk,        \* decompress_block: block_id
    i,          \* the loop counter
    prev,       \* the four lanes of prev; lastprev in lane 3
    buf,        \* id_data
    fbuf        \* freq_data

input == <<size, ids, freqs>>
compressed == <<done, offset, block, mem>>
decoded == <<blk, i, prev, buf, fbuf>>
vars == <<input, mode, compressed, decoded>>

Streams == {"id", "freq"}
Lanes == 0 .. 3

NumBlocks == (size + BlockSize - 1) \div BlockSize

\* postings_in_block
PostingsIn(b) ==
    IF b = NumBlocks - 1 /\ size % BlockSize # 0 THEN size % BlockSize ELSE BlockSize

\* fastDelta over the whole list.
Delta(p) == IF p = 0 THEN ids[0] ELSE ids[p] - ids[p - 1]

Content(s, b) ==
    [k \in 0 .. PostingsIn(b) - 1 |->
        IF s = "id" THEN Delta(BlockSize * b + k) ELSE freqs[BlockSize * b + k]]

\* create_block_support; the other fields keep their initial values.
BlockSupport ==
    [b \in 0 .. NumBlocks - 1 |->
        [max |-> ids[BlockSize * b + PostingsIn(b) - 1],
         at |-> [s \in Streams |-> 0], bytes |-> [s \in Streams |-> -1]]]

-----------------------------------------------------------------------------
Init ==
    /\ mode = "idle"
    /\ size = 0 /\ ids = <<>> /\ freqs = <<>>
    /\ done = 0 /\ offset = [s \in Streams |-> 0]
    /\ block = <<>> /\ mem = [s \in Streams |-> <<>>]
    /\ blk = 0 /\ i = 0 /\ prev = [l \in Lanes |-> 0] /\ buf = <<>> /\ fbuf = <<>>

\* The constructor, up to the loop of compress_postings_data.
Construct(l) ==
    /\ mode = "idle"
    /\ size' = l.size /\ ids' = l.ids /\ freqs' = l.freqs
    /\ mode' = "compress"
    /\ done' = 0 /\ offset' = [s \in Streams |-> 0]
    /\ block' = BlockSupport'
    /\ mem' = [s \in Streams |-> <<>>]
    /\ UNCHANGED decoded

\* The words encodeArray writes to, the last one perhaps only in part.
Words(bytes) == (bytes + 3) \div 4

Aligned(x) == IF x % 4 # 0 THEN x + (4 - (x % 4)) ELSE x

\* Mutant: the bytes in an incomplete word are forgotten.
MutNextOffset(x, bytes) == Aligned(x + bytes \div 4)

\* Where the next block starts: bytes / sizeof(uint32_t) further, one more if
\* it does not divide, and up to the next multiple of four.
NextOffset(x, bytes) ==
    Aligned(x + bytes \div 4 + (IF bytes % 4 # 0 THEN 1 ELSE 0))

\* Mutant: one word per posting.
MutRoomFor == size + Slack

RoomFor == 2 * size + Slack

\* n of the loop: BlockSize, but for the last block of a list that it does
\* not divide.
BlockCount == IF done + BlockSize > size THEN size % BlockSize ELSE BlockSize

Encode(s, b, bytes) ==
    [w \in DOMAIN mem[s] \cup offset[s] .. offset[s] + Words(bytes) - 1 |->
        IF w >= offset[s]
        THEN [data |-> Content(s, b), part |-> w - offset[s]]
        ELSE mem[s][w]]

\* One turn of the loop of compress_postings_data.
CompressBlock ==
    /\ mode = "compress" /\ done < size
    /\ \E bytes \in [Streams -> ByteSizes] :
        LET b == done \div BlockSize
        IN  /\ \A s \in Streams : bytes[s] <= 5 * BlockCount
            /\ mem' = [s \in Streams |-> Encode(s, b, bytes[s])]
            /\ offset' = [s \in Streams |-> NextOffset(offset[s], bytes[s])]
            /\ block' = [block EXCEPT ![b].at = offset, ![b].bytes = bytes]
    /\ done' = done + BlockSize
    /\ mode' = IF \E s \in Streams : offset'[s] > RoomFor THEN "no room" ELSE mode
    /\ UNCHANGED <<input, decoded>>

\* The arrays are cut to what was used.
FinishCompress ==
    /\ mode = "compress" /\ done >= size
    /\ mode' = "built"
    /\ UNCHANGED <<input, compressed, decoded>>

-----------------------------------------------------------------------------
\* decodeArray on the words of block b: its integers if they are all there.
Intact(s, b, data) ==
    \A k \in 0 .. Words(block[b].bytes[s]) - 1 :
        /\ block[b].at[s] + k \in DOMAIN mem[s]
        /\ mem[s][block[b].at[s] + k] = [data |-> data, part |-> k]

DecodeArray(s, b) ==
    IF block[b].at[s] \in DOMAIN mem[s] /\ Intact(s, b, mem[s][block[b].at[s]].data)
    THEN mem[s][block[b].at[s]].data
    ELSE [k \in 0 .. PostingsIn(b) - 1 |-> -1]

BeginDecode ==
    /\ mode \in {"built", "decoded"} /\ size > 0
    /\ \E b \in 0 .. NumBlocks - 1 :
        /\ blk' = b
        /\ buf' = DecodeArray("id", b)
        /\ prev' = [l \in Lanes |-> IF b # 0 THEN block[b - 1].max ELSE 0]
    /\ i' = 0
    /\ mode' = "simd"
    /\ UNCHANGED <<input, compressed, fbuf>>

\* curr + (curr << two lanes), and that plus itself shifted by one lane.
LaneSum2(l) == buf[4 * i + l] + (IF l >= 2 THEN buf[4 * i + l - 2] ELSE 0)
LaneSum4(l) == LaneSum2(l) + (IF l >= 1 THEN LaneSum2(l - 1) ELSE 0)

SimdGroup ==
    /\ mode = "simd" /\ i < PostingsIn(blk) \div 4
    /\ prev' = [l \in Lanes |-> LaneSum4(l) + prev[3]]
    /\ buf' = [k \in DOMAIN buf |->
                 IF k \in 4 * i .. 4 * i + 3 THEN prev'[k - 4 * i] ELSE buf[k]]
    /\ i' = i + 1
    /\ UNCHANGED <<input, mode, compressed, blk, fbuf>>

\* Mutant: the scalar loop goes on counting in groups.
MutEndSimd ==
    /\ mode = "simd" /\ i >= PostingsIn(blk) \div 4
    /\ i' = i
    /\ mode' = "scalar"
    /\ UNCHANGED <<input, compressed, blk, prev, buf, fbuf>>

EndSimd ==
    /\ mode = "simd" /\ i >= PostingsIn(blk) \div 4
    /\ i' = 4 * i
    /\ mode' = "scalar"
    /\ UNCHANGED <<input, compressed, blk, prev, buf, fbuf>>

ScalarStep ==
    /\ mode = "scalar" /\ i < PostingsIn(blk)
    /\ prev' = [prev EXCEPT ![3] = prev[3] + buf[i]]
    /\ buf' = [buf EXCEPT ![i] = prev'[3]]
    /\ i' = i + 1
    /\ UNCHANGED <<input, mode, compressed, blk, fbuf>>

DecodeFreqs ==
    /\ mode = "scalar" /\ i >= PostingsIn(blk)
    /\ fbuf' = DecodeArray("freq", blk)
    /\ mode' = "decoded"
    /\ UNCHANGED <<input, compressed, blk, i, prev, buf>>

Compress == CompressBlock \/ FinishCompress
Decompress == BeginDecode \/ SimdGroup \/ EndSimd \/ ScalarStep \/ DecodeFreqs

Next == (\E l \in PostingsLists : Construct(l)) \/ Compress \/ Decompress

Spec == Init /\ [][Next]_vars

-----------------------------------------------------------------------------
(***************************************************************************)
(* "Run out of room encoding!" is never reached, and what encodeArray, to  *)
(* which no limit is given, writes before that test never leaves the       *)
(* arrays of 2 * size + 1024 words, though five bytes per integer and the  *)
(* padding of every block to four words are more than one word each.       *)
(***************************************************************************)
RoomSuffices ==
    /\ mode # "no room"
    /\ \A s \in Streams : DOMAIN mem[s] \subseteq 0 .. RoomFor - 1

(***************************************************************************)
(* No block written later touches the words of an earlier one, at any      *)
(* encoded size, and every block starts on a 16 byte boundary, as the      *)
(* aligned loads of the decoder need.                                      *)
(***************************************************************************)
BlocksIntact ==
    \A b \in 0 .. NumBlocks - 1, s \in Streams :
        BlockSize * b < done =>
            /\ block[b].at[s] % 4 = 0
            /\ block[b].bytes[s] > 0
            /\ Intact(s, b, Content(s, b))

(***************************************************************************)
(* decompress_block, in every turn of its two loops: the ids before the    *)
(* counter are those of the list, the differences after it are untouched,  *)
(* and the last lane carries the id the next group counts from, across the *)
(* change from four at a time to one by one.  At the end the buffers hold  *)
(* the ids and frequencies of the block.                                   *)
(***************************************************************************)
DecodesBlock ==
    mode \in {"simd", "scalar", "decoded"} =>
        LET first == BlockSize * blk
            upTo == IF mode = "simd" THEN 4 * i ELSE i
        IN  /\ DOMAIN buf = 0 .. PostingsIn(blk) - 1
            /\ \A k \in DOMAIN buf :
                  buf[k] = IF k < upTo THEN ids[first + k] ELSE Delta(first + k)
            /\ prev[3] = IF first + upTo = 0 THEN 0 ELSE ids[first + upTo - 1]
            /\ mode = "decoded" => /\ upTo = PostingsIn(blk)
                                   /\ fbuf = Content("freq", blk)

=============================================================================
