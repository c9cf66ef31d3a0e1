------------------------------ MODULE QmxStripe ------------------------------
(***************************************************************************)
(* The bit layout of one stripe of the QMX codec: how write_out packs the  *)
(* values of a stripe into one or two 128-bit words, and how the decoder   *)
(* generated into compress_qmx_decompress.c takes them out again with the  *)
(* SSE shifts, masks and shuffles.                                         *)
(*                                                                         *)
(* A register is a function from its 128 bits to the set of value bits     *)
(* OR-ed there: <<v, b>> is bit b of the v-th value of the stripe.  Values *)
(* are below 2^w, so their bits from w upwards are zero and never appear.  *)
(***************************************************************************)
EXTENDS Integers

Widths == {0, 1, 2, 3, 4, 5, 6, 7, 8, 9, 10, 12, 16, 21, 32}

\* The values a stripe of width w holds; 128 marks a value stored on its own.
Ints(w) ==
    CASE w = 0  -> 256 [] w = 1  -> 128 [] w = 2  -> 64 [] w = 3  -> 40
      [] w = 4  -> 32  [] w = 5  -> 24  [] w = 6  -> 20 [] w = 7  -> 36
      [] w = 8  -> 16  [] w = 9  -> 28  [] w = 10 -> 12 [] w = 12 -> 20
      [] w = 16 -> 8   [] w = 21 -> 12  [] w = 32 -> 4  [] w = 128 -> 1

Bits == 0 .. 127
Lane(p) == p \div 32

(***************************************************************************)
(* write_out: sequence_buffer[v & 3] |= source[v] << shift, a negative     *)
(* shift being the >> of a value that straddles two words.  What leaves    *)
(* the 32-bit lane is lost.                                                *)
(***************************************************************************)
Packed(puts, w) ==
    [p \in Bits |->
        {<<q[1], (p % 32) - q[2]>> :
            q \in {r \in puts : /\ r[1] % 4 = Lane(p)
                                /\ (p % 32) - r[2] \in 0 .. w - 1}}]

ShiftedBy(vs, base, w, offset) ==
    {<<v, ((v - base) \div 4) * w + offset>> : v \in vs}

PackSingle(w) == <<Packed(ShiftedBy(0 .. Ints(w) - 1, 0, w, 0), w)>>

\* The last four of the first word's values lose their high bits, which the
\* second word starts with (value >> drop); the others follow from bit offset.
PackPair(w, first, drop, offset) ==
    <<Packed(ShiftedBy(0 .. first - 1, 0, w, 0), w),
      Packed({<<v, -drop>> : v \in first - 4 .. first - 1}
             \cup ShiftedBy(first .. Ints(w) - 1, first, w, offset), w)>>

\* Widths 8, 16 and 32 are stored as bytes, half words and words in order.
PackBytes(w) == <<[p \in Bits |-> {<<p \div w, p % w>>}]>>

Pack(w) ==
    CASE w \in {1, 2, 3, 4, 5, 6, 10} -> PackSingle(w)
      [] w = 7  -> PackPair(7, 20, 4, 3)
      [] w = 9  -> PackPair(9, 16, 5, 4)
      [] w = 12 -> PackPair(12, 12, 8, 8)
      [] w = 21 -> PackPair(21, 8, 11, 11)
      [] w \in {8, 16, 32} -> PackBytes(w)

-----------------------------------------------------------------------------
(***************************************************************************)
(* The SSE instructions of the decoder.                                    *)
(***************************************************************************)
Srl64(r, n) == [p \in Bits |-> IF (p % 64) + n < 64 THEN r[p + n] ELSE {}]
Srl32(r, n) == [p \in Bits |-> IF (p % 32) + n < 32 THEN r[p + n] ELSE {}]
Sll32(r, n) == [p \in Bits |-> IF p % 32 >= n THEN r[p - n] ELSE {}]
OrBits(r, s) == [p \in Bits |-> r[p] \cup s[p]]
Mask(r, w) == [p \in Bits |-> IF p % 32 < w THEN r[p] ELSE {}]

\* _mm_cvtepu8_epi32 and _mm_cvtepu16_epi32: the low elements, widened.
Widen(r, w) ==
    [p \in Bits |-> IF p % 32 < w THEN r[Lane(p) * w + (p % 32)] ELSE {}]

\* _mm_shuffle_ps(r, r, 0x01) and _mm_movehl_ps(r, r): the lanes that go out.
FromLanes(r, lanes) == [p \in Bits |-> r[32 * lanes[Lane(p) + 1] + (p % 32)]]
Shuffle01(r) == FromLanes(r, <<1, 0, 0, 0>>)
MoveHighLow(r) == FromLanes(r, <<2, 3, 2, 3>>)

-----------------------------------------------------------------------------
(***************************************************************************)
(* What each family of cases stores for one stripe, four values a store.   *)
(***************************************************************************)
UnpackSingle(m, w) ==
    [g \in 0 .. Ints(w) \div 4 - 1 |-> Mask(Srl64(m[1], g * w), w)]

\* byte_stream gives the first stores, byte_stream_2 << join completes the
\* straddling one, byte_stream_2 >> skip starts the others.
UnpackPair(m, w, first, join, skip) ==
    [g \in 0 .. Ints(w) \div 4 - 1 |->
        Mask(IF g < first THEN Srl32(m[1], g * w)
             ELSE IF g = first THEN OrBits(Sll32(m[2], join), Srl32(m[1], first * w))
             ELSE Srl32(m[2], skip + (g - first - 1) * w), w)]

Unpack1(m)  == UnpackSingle(m, 1)
Unpack2(m)  == UnpackSingle(m, 2)
Unpack3(m)  == UnpackSingle(m, 3)
Unpack4(m)  == UnpackSingle(m, 4)
Unpack5(m)  == UnpackSingle(m, 5)
Unpack6(m)  == UnpackSingle(m, 6)
Unpack7(m)  == UnpackPair(m, 7, 4, 4, 3)
Unpack8(m)  ==
    LET high == MoveHighLow(m[1])
        tmp == <<m[1], Shuffle01(m[1]), high, Shuffle01(high)>>
    IN  [g \in 0 .. 3 |-> Widen(tmp[g + 1], 8)]
Unpack9(m)  == UnpackPair(m, 9, 3, 5, 4)
Unpack10(m) == UnpackSingle(m, 10)
\* Mutant: the second word continues right after the four straddling bits.
MutUnpack12(m) == UnpackPair(m, 12, 2, 8, 4)

Unpack12(m) == UnpackPair(m, 12, 2, 8, 8)
Unpack16(m) == [g \in 0 .. 1 |-> Widen(IF g = 0 THEN m[1] ELSE MoveHighLow(m[1]), 16)]
Unpack21(m) == UnpackPair(m, 21, 1, 11, 11)
Unpack32(m) == [g \in {0} |-> m[1]]

Unpack(m, w) ==
    CASE w = 1 -> Unpack1(m)   [] w = 2 -> Unpack2(m)   [] w = 3 -> Unpack3(m)
      [] w = 4 -> Unpack4(m)   [] w = 5 -> Unpack5(m)   [] w = 6 -> Unpack6(m)
      [] w = 7 -> Unpack7(m)   [] w = 8 -> Unpack8(m)   [] w = 9 -> Unpack9(m)
      [] w = 10 -> Unpack10(m) [] w = 12 -> Unpack12(m) [] w = 16 -> Unpack16(m)
      [] w = 21 -> Unpack21(m) [] w = 32 -> Unpack32(m)

(***************************************************************************)
(* A stripe of width w comes back bit for bit: slot 4g + l of the output,  *)
(* in lane l of store g, holds the bits of that value and nothing else.    *)
(***************************************************************************)
Recovered(w) ==
    LET out == Unpack(Pack(w), w)
    IN  \A g \in DOMAIN out, p \in Bits :
            out[g][p] = IF p % 32 < w THEN {<<4 * g + Lane(p), p % 32>>} ELSE {}

=============================================================================
