--------------------------------- MODULE Qmx ---------------------------------
(***************************************************************************)
(* The QMX codec, ANT_compress_qmx: encodeArray gives every value a width, *)
(* promotes widths until whole stripes can be written, writes the stripes  *)
(* and, behind them in reverse, one selector byte for at most sixteen      *)
(* stripes; decodeArray walks the selectors from the end of the data down  *)
(* and the stripes from its start up until the two meet.                   *)
(*                                                                         *)
(* One call of encodeArray and then one of decodeArray on what it wrote.   *)
(* length_buffer holds the widths and, from its start, the selectors of    *)
(* the runs written so far: the code reuses it "because it can't overlap". *)
(* A written stripe is its width and the index of its first value.         *)
(***************************************************************************)
EXTENDS QmxStripe, QmxSwitch, FiniteSetsExt, Functions

CONSTANTS
    Sources,    \* the arrays to encode, functions from 0 .. n - 1
    Wastage     \* the zero widths behind the array, WASTAGE of encodeArray

ASSUME SourcesAssumption ==
    \A s \in Sources :
        /\ IsFiniteSet(DOMAIN s) /\ DOMAIN s # {}
        /\ DOMAIN s = 0 .. Cardinality(DOMAIN s) - 1
        /\ \A i \in DOMAIN s : s[i] \in Nat
ASSUME WastageAssumption == Wastage \in Nat /\ Wastage >= 8

VARIABLES
    source,         \* the integers to encode
    phase,          \* where the two calls are
    length_buffer,  \* widths, overwritten from the left by selectors
    pos,            \* current_length, then current: index into length_buffer
    bits,           \* the width of the run being collected
    run,            \* the first index of that run
    keys,           \* the number of selectors stored in length_buffer
    stripes,        \* byte offset of the output -> the stripe written there
    destination,    \* bytes of stripes written
    selectors,      \* the selector bytes behind the stripes
    in,             \* decoder: offset of the next stripe
    key,            \* decoder: offset of the next selector ("keys")
    out             \* decoder: the integers stored so far, 0 .. to - 1

encoding == <<pos, bits, run, keys, destination, length_buffer, stripes, selectors>>
decoding == <<key, in, out>>
vars == <<phase, decoding, encoding, source>>

n == Cardinality(DOMAIN source)
Garbage == -1

\* NO_ZEROS: the value 1 takes no bits, 0 takes one.
BitsNeededFor(v) ==
    IF v = 1 THEN 0 ELSE Min({w \in Widths \ {0} : w = 32 \/ v < 2 ^ w})

\* Mutant: "promoting" to the width the group already has.
MutPromoted(w) == Min({x \in Widths : x >= w})

\* Widths in increasing order: a promotion goes to the next.
Promoted(w) == Min({x \in Widths : x > w})

\* Sets count entries of the buffer, from index i, to w.
Fill(buffer, i, count, w) ==
    [j \in DOMAIN buffer |-> IF j \in i .. i + count - 1 THEN w ELSE buffer[j]]

Largest(buffer, i, count) == Max({buffer[j] : j \in i .. i + count - 1})

-----------------------------------------------------------------------------
Init ==
    /\ source \in Sources
    /\ phase = "measure"
    /\ length_buffer = <<>> /\ pos = 0 /\ bits = 0 /\ run = 0 /\ keys = 0
    /\ stripes = <<>> /\ destination = 0 /\ selectors = <<>>
    /\ in = 0 /\ key = 0 /\ out = <<>>

(***************************************************************************)
(* The widths of the integers and of the zeros behind them, then the       *)
(* largest of every four for all four, one group past the array at most.   *)
(***************************************************************************)
Measure ==
    LET width == [i \in 0 .. n + Wastage - 1 |->
                    IF i < n THEN BitsNeededFor(source[i]) ELSE 0]
        grouped(i) == (i \div 4) * 4 < n + 4
    IN  /\ phase = "measure"
        /\ length_buffer' = [i \in DOMAIN width |->
              IF grouped(i) THEN Largest(width, (i \div 4) * 4, 4) ELSE width[i]]
        /\ phase' = "plan"
        /\ UNCHANGED <<source, pos, bits, run, keys, stripes, destination,
                       selectors, decoding>>

(***************************************************************************)
(* SHORT_END_BLOCKS, at the head of each turn of the planning loop: near   *)
(* the end of the array the next 8 or 16 widths become 8, 16 or 32.        *)
(***************************************************************************)
ShortEnd(buffer, left) ==
    IF left < 4 THEN
        LET largest == Largest(buffer, pos, 8)
        IN  IF largest <= 32
            THEN Fill(buffer, pos, 8, Min({w \in {8, 16, 32} : largest <= w}))
            ELSE buffer
    ELSE IF left < 8 THEN
        IF Largest(buffer, pos, 8) <= 8 THEN Fill(buffer, pos, 8, 8) ELSE buffer
    ELSE IF left < 16 THEN
        IF Largest(buffer, pos, 16) <= 8 THEN Fill(buffer, pos, 16, 8) ELSE buffer
    ELSE buffer

\* switch (*current_length): one turn of the loop that promotes the widths.
Plan ==
    /\ phase = "plan" /\ pos < n
    /\ \E buffer \in {ShortEnd(length_buffer, n - pos)} :
        LET w == buffer[pos]
            fits == n - pos >= Ints(w) /\ Largest(buffer, pos, Ints(w)) <= w
        IN  \/ /\ w # 128 /\ fits                        \* a whole stripe
               /\ length_buffer' = Fill(buffer, pos, Ints(w), w)
               /\ pos' = pos + Ints(w)
            \/ /\ w < 32 /\ ~fits                        \* promote
               /\ length_buffer' = Fill(buffer, pos, 4, Promoted(w))
               /\ pos' = pos
            \/ /\ w = 32 /\ ~fits                        \* single words
               /\ length_buffer' = Fill(buffer, pos, n - pos, 128)
               /\ pos' = pos
            \/ /\ w = 128
               /\ length_buffer' = buffer
               /\ pos' = n
    /\ UNCHANGED <<source, phase, bits, run, keys, stripes, destination,
                   selectors, decoding>>

StartWriting ==
    /\ phase = "plan" /\ pos = n
    /\ phase' = "write"
    /\ bits' = length_buffer[0] /\ run' = 0 /\ keys' = 0
    /\ UNCHANGED <<source, length_buffer, pos, stripes, destination, selectors,
                   decoding>>

-----------------------------------------------------------------------------
(***************************************************************************)
(* write_out for a run of raw values of one width.                         *)
(***************************************************************************)
Type(w) == Cardinality({x \in Widths : x < w})
StripesIn(raw, w) == (raw + Ints(w) - 1) \div Ints(w)
\* Mutant: a value stored on its own takes a whole 128-bit word.
MutBytesPerStripe(w) ==
    IF w = 0 THEN 0 ELSE IF w \in {7, 9, 12, 21} THEN 32 ELSE 16

BytesPerStripe(w) ==
    IF w = 0 THEN 0 ELSE IF w = 128 THEN 4 ELSE IF w \in {7, 9, 12, 21} THEN 32 ELSE 16

\* Widths 8, 16 and 32 stop at the end of the run, the others fill the stripe.
RunBytes(raw, w) ==
    IF w \in {8, 16, 32} THEN raw * (w \div 8) ELSE StripesIn(raw, w) * BytesPerStripe(w)

\* Mutant: a selector more than the batches need.
MutBatches(raw, w) == (StripesIn(raw, w) + 15) \div 16 + 1

Batches(raw, w) == (StripesIn(raw, w) + 15) \div 16
Batch(raw, w, b) == Min({16, StripesIn(raw, w) - 16 * b})

\* (type << 4) | (~(batch - 1) & 0x0F)
SelectorByte(w, batch) == Type(w) * 16 + (16 - batch)

WriteOut(first, raw, w) ==
    /\ stripes' = [a \in DOMAIN stripes \cup
                        {destination + k * BytesPerStripe(w) :
                            k \in IF w = 0 THEN {} ELSE 0 .. StripesIn(raw, w) - 1} |->
                     IF a \in DOMAIN stripes THEN stripes[a]
                     ELSE [width |-> w,
                           first |-> first + ((a - destination) \div BytesPerStripe(w))
                                             * Ints(w)]]
    /\ destination' = destination + RunBytes(raw, w)
    /\ length_buffer' = [i \in DOMAIN length_buffer |->
                           IF i \in keys .. keys + Batches(raw, w) - 1
                           THEN SelectorByte(w, Batch(raw, w, i - keys))
                           ELSE length_buffer[i]]
    /\ keys' = keys + Batches(raw, w)

\* The loop over the widths up to the first that differs from bits.
RunEnd == Min({n} \cup {i \in run + 1 .. n - 1 : length_buffer[i] # bits})

WriteRun ==
    /\ phase = "write"
    /\ \E end \in {RunEnd} :
           /\ WriteOut(run, end - run, bits)
           /\ run' = end
           /\ IF end < n
              THEN bits' = length_buffer[end] /\ phase' = phase
              ELSE bits' = bits /\ phase' = "selectors"
    /\ UNCHANGED <<source, pos, selectors, decoding>>

\* "Copy the lengths to the end, backwards"; the length returned is in bytes.
CopyKeys ==
    /\ phase = "selectors"
    /\ selectors' = [k \in 0 .. keys - 1 |-> length_buffer[keys - 1 - k]]
    /\ phase' = "decode"
    /\ in' = 0 /\ key' = destination + keys - 1 /\ out' = <<>>
    /\ UNCHANGED <<source, length_buffer, pos, bits, run, keys, stripes, destination>>

nvalue == destination + keys

-----------------------------------------------------------------------------
\* The value that slot i takes of the stripe of width w found at offset a.
Slot(w, a, i) ==
    IF w = 0 THEN 1
    ELSE IF a \notin DOMAIN stripes THEN Garbage
    ELSE LET stripe == stripes[a]
         IN  IF /\ stripe.width = w
                /\ stripe.first + i < n
                /\ w \in {32, 128} \/ source[stripe.first + i] < 2 ^ w
             THEN source[stripe.first + i]
             ELSE Garbage

\* The case of the selector at address key, unrolled over its stripes; a
\* byte that is not a selector could be any of them.
NextCases ==
    IF key - destination \in DOMAIN selectors
    THEN {DecodeSwitch[selectors[key - destination] + 1]}
    ELSE Range(DecodeSwitch)

\* What the stripes of one case store: nothing of use if their layout is lost.
Stored(case, to) ==
    LET value(i) == IF i < case.times * Ints(case.width)
                    THEN Slot(case.width,
                              in + (i \div Ints(case.width)) * BytesPerStripe(case.width),
                              i % Ints(case.width))
                    ELSE Garbage
    IN  IF case.width \in {0, 128} \/ Recovered(case.width)
        THEN [i \in to .. to + case.to - 1 |-> value(i - to)]
        ELSE [i \in to .. to + case.to - 1 |-> Garbage]

Decode ==
    /\ phase = "decode" /\ in <= key
    /\ \E case \in NextCases, to \in {Cardinality(DOMAIN out)} :
        \E stored \in {Stored(case, to)} :
           /\ out' = [i \in 0 .. to + case.to - 1 |-> IF i < to THEN out[i] ELSE stored[i]]
           /\ in' = in + case.in
    /\ key' = key - 1
    /\ UNCHANGED <<source, phase, encoding>>

\* while (in <= keys) ends.
Return ==
    /\ phase = "decode" /\ in > key
    /\ phase' = "done"
    /\ UNCHANGED <<source, encoding, decoding>>

Next == Measure \/ Plan \/ StartWriting \/ WriteRun \/ CopyKeys \/ Decode \/ Return

\* One thread runs the two calls through.
Fairness == WF_vars(Next)

Spec == Init /\ [][Next]_vars /\ Fairness

-----------------------------------------------------------------------------
(***************************************************************************)
(* What decodeArray has stored is always a prefix of what encodeArray was  *)
(* given, and all of it when the call returns.  It takes the plan (no      *)
(* width too small), the runs and their selectors, the cases of the switch *)
(* and the layout of the stripes to agree.                                 *)
(***************************************************************************)
RoundTrip ==
    /\ \A i \in DOMAIN out \cap DOMAIN source : out[i] = source[i]
    /\ phase = "done" => Cardinality(DOMAIN out) = n

(***************************************************************************)
(* The decoder writes whole stripes and stops by comparing two pointers    *)
(* that run towards each other.  It never stores past the integers that    *)
(* were encoded (decompress_block gives it a buffer of just that size,     *)
(* block_postings_list.hpp:316-319), never takes stripe bytes for          *)
(* selectors and never reads stripes from the selectors.                   *)
(***************************************************************************)
NoOverrun ==
    /\ Cardinality(DOMAIN out) <= n
    /\ in <= destination
    /\ phase = "decode" /\ in <= key => key \in destination .. nvalue - 1

(***************************************************************************)
(* _mm_load_si128 and _mm_store_si128 fault on an unaligned address: every *)
(* stripe loaded with the former starts at a multiple of 16 bytes, every   *)
(* store of four integers at a multiple of four, though the selectors say  *)
(* nothing about alignment and single words advance by four bytes.         *)
(***************************************************************************)
LoadsAligned ==
    phase = "decode" /\ in <= key =>
        \A case \in NextCases :
            /\ case.width \notin {0, 8, 128} => in % 16 = 0
            /\ case.width # 128 => Cardinality(DOMAIN out) % 4 = 0

(***************************************************************************)
(* encodeArray is not told how much room it has.  It returns at most five  *)
(* bytes per integer, which the caller's 2 * size + 1024 words rely on     *)
(* (block_postings_list.hpp:243).                                          *)
(***************************************************************************)
SizeBound == phase \in {"decode", "done"} => nvalue \in 1 .. 5 * n

(***************************************************************************)
(* "we're going to re-use the length_buffer because it can't overlap": the *)
(* selectors stored so far end before the first width not yet compared.    *)
(***************************************************************************)
KeysTrailRun == phase \in {"write", "selectors"} => keys <= run

(***************************************************************************)
(* Both calls end, whatever the array: the planning loop moves on or       *)
(* promotes, and the decoder's pointers meet.                              *)
(***************************************************************************)
Termination == <>(phase = "done")

(***************************************************************************)
(* What the comments of the planning loop say of short ends: fewer than 16 *)
(* values that all fit into 8 bits are stored as bytes, since that is      *)
(* smaller than storing stripes; one byte each, then.                      *)
(***************************************************************************)
ShortTailInBytes ==
    phase = "decode" /\ n < 16 /\ (\A i \in DOMAIN source : source[i] < 256)
        => destination <= n

=============================================================================
