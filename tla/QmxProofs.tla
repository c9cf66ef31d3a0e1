------------------------------ MODULE QmxProofs ------------------------------
(***************************************************************************)
(* The QMX codec, for every array of integers: decodeArray gives back what *)
(* encodeArray was given, both stay inside their buffers, and five bytes   *)
(* per integer are enough.                                                 *)
(*                                                                         *)
(* The invariant has a part for each phase.  While the plan is made, the   *)
(* widths cover the values, are the same over groups of four ahead of the  *)
(* position and come in whole stripes behind it.  While runs are written,  *)
(* each selector stands for a batch of one to sixteen stripes that are     *)
(* where it says.  While the data are decoded, the batches before the key  *)
(* are decoded and the others untouched.  Two lemmas carry the content     *)
(* of the decoder: CasesAreRight, that each case of the switch is about    *)
(* the batch its selector stands for, and AllRecovered, that every width   *)
(* comes back from its stripe bit for bit.                                 *)
(***************************************************************************)
EXTENDS Qmx, CommonLemmas

\* What write_out can be given: the widths of stripes and that of single words.
AllWidths == Widths \cup {128}

\* A value of width w can be v.
Covers(w, v) ==
    \/ w \in {32, 128}
    \/ w = 0 /\ v = 1
    \/ w \in Widths \ {0} /\ v < 2 ^ w

-----------------------------------------------------------------------------
(* The widths.                                                             *)

\* The powers of two, width by width.
LEMMA Powers ==
    ASSUME NEW w \in Widths \ {0, 32}
    PROVE  /\ 2 ^ w \in Nat \ {0, 1}
           /\ w = 1 => 2 ^ w = 2
           /\ w = 2 => 2 ^ w = 4
           /\ w = 3 => 2 ^ w = 8
           /\ w = 4 => 2 ^ w = 16
           /\ w = 5 => 2 ^ w = 32
           /\ w = 6 => 2 ^ w = 64
           /\ w = 7 => 2 ^ w = 128
           /\ w = 8 => 2 ^ w = 256
           /\ w = 9 => 2 ^ w = 512
           /\ w = 10 => 2 ^ w = 1024
           /\ w = 12 => 2 ^ w = 4096
           /\ w = 16 => 2 ^ w = 65536
           /\ w = 21 => 2 ^ w = 2097152
<1>1. w = 1 => 2 ^ w = 2
  OBVIOUS
<1>2. w = 2 => 2 ^ w = 4
  OBVIOUS
<1>3. w = 3 => 2 ^ w = 8
  OBVIOUS
<1>4. w = 4 => 2 ^ w = 16
  OBVIOUS
<1>5. w = 5 => 2 ^ w = 32
  OBVIOUS
<1>6. w = 6 => 2 ^ w = 64
  OBVIOUS
<1>7. w = 7 => 2 ^ w = 128
  OBVIOUS
<1>8. w = 8 => 2 ^ w = 256
  OBVIOUS
<1>9. w = 9 => 2 ^ w = 512
  OBVIOUS
<1>10. w = 10 => 2 ^ w = 1024
  OBVIOUS
<1>11. w = 12 => 2 ^ w = 4096
  OBVIOUS
<1>12. w = 16 => 2 ^ w = 65536
  OBVIOUS
<1>13. w = 21 => 2 ^ w = 2097152
  OBVIOUS
<1> QED
  BY <1>1, <1>2, <1>3, <1>4, <1>5, <1>6, <1>7, <1>8, <1>9, <1>10, <1>11, <1>12, <1>13 DEF Widths

\* The sizes of the stripes, width by width.
LEMMA StripeSizes ==
    /\ Ints(0) = 256 /\ Ints(1) = 128 /\ Ints(2) = 64 /\ Ints(3) = 40
    /\ Ints(4) = 32 /\ Ints(5) = 24 /\ Ints(6) = 20 /\ Ints(7) = 36
    /\ Ints(8) = 16 /\ Ints(9) = 28 /\ Ints(10) = 12 /\ Ints(12) = 20
    /\ Ints(16) = 8 /\ Ints(21) = 12 /\ Ints(32) = 4 /\ Ints(128) = 1
BY DEF Ints

\* Whole stripes are multiples of four integers and of sixteen bytes, a single
\* word is one integer and four bytes.
LEMMA StripeFacts ==
    ASSUME NEW w \in AllWidths
    PROVE  /\ Ints(w) \in 1 .. 256
           /\ BytesPerStripe(w) \in 0 .. 32
           /\ BytesPerStripe(w) = 0 <=> w = 0
           /\ w # 128 => Ints(w) % 4 = 0 /\ BytesPerStripe(w) % 16 = 0 /\ Ints(w) >= 4
           /\ BytesPerStripe(w) <= 4 * Ints(w)
           /\ w \in Nat
BY StripeSizes DEF AllWidths, Widths, BytesPerStripe

\* A wider width covers what a narrower one does.
LEMMA CoversMono ==
    ASSUME NEW v \in Nat, NEW w \in Widths, NEW x \in AllWidths, w <= x, Covers(w, v)
    PROVE  Covers(x, v)
<1>1. CASE x \in {32, 128}
  BY <1>1 DEF Covers
<1>2. CASE w = 0 /\ x = 0
  BY <1>2 DEF Covers
<1>3. CASE w = 0 /\ x \notin {0, 32, 128}
  <2>1. v = 1 /\ x \in Widths \ {0, 32}
    BY <1>3 DEF Covers, AllWidths
  <2>2. 2 ^ x \in Nat \ {0, 1}
    BY <2>1, Powers
  <2> QED
    BY <2>1, <2>2 DEF Covers
<1>4. CASE w # 0 /\ x \notin {32, 128}
  <2>1. w \in Widths \ {0, 32} /\ x \in Widths \ {0, 32}
    BY <1>4 DEF AllWidths, Widths
  <2>2. v < 2 ^ w
    BY <1>4, <2>1 DEF Covers, Widths
  <2> DEFINE p == 2 ^ w  q == 2 ^ x
  <2>3. p \in Nat /\ q \in Nat
    BY <2>1, Powers
  <2>4. p <= q
    BY <2>1, Powers DEF Widths
  <2>5. v < q
    BY <2>2, <2>3, <2>4
  <2> QED
    BY <2>1, <2>5 DEF Covers
<1> QED
  BY <1>1, <1>2, <1>3, <1>4 DEF Widths

-----------------------------------------------------------------------------
(* Largest and least of the sets of numbers that are formed.               *)

\* The least of some numbers is one of them,
LEMMA MinIsLeast ==
    ASSUME NEW S \in SUBSET Nat, S # {}
    PROVE  Min(S) \in S /\ \A y \in S : Min(S) <= y
<1>1. PICK x \in S : \A y \in S : x <= y
  BY LeastExists
<1> QED
  BY <1>1 DEF Min

\* and so is the largest.
LEMMA MaxIsLargest ==
    ASSUME NEW S \in SUBSET Nat, S # {}, NEW b \in Nat, \A y \in S : y <= b
    PROVE  Max(S) \in S /\ \A y \in S : y <= Max(S)
<1> DEFINE T == {t \in 0 .. b : b - t \in S}
<1>1. T \in SUBSET Nat /\ \A y \in S : b - y \in T
  OBVIOUS
<1>2. PICK t \in T : \A u \in T : t <= u
  BY <1>1, LeastExists
<1> DEFINE x == b - t
<1>3. x \in S
  OBVIOUS
<1>4. \A y \in S : y <= x
  BY <1>1, <1>2
<1> QED
  BY <1>4 DEF Max

\* The largest of some widths of the buffer is one of them.
LEMMA LargestIsOne ==
    ASSUME NEW buffer, NEW i \in Nat, NEW count \in Nat \ {0},
           \A j \in i .. i + count - 1 : buffer[j] \in AllWidths
    PROVE  /\ \E j \in i .. i + count - 1 : Largest(buffer, i, count) = buffer[j]
           /\ \A j \in i .. i + count - 1 : buffer[j] <= Largest(buffer, i, count)
           /\ Largest(buffer, i, count) \in AllWidths
<1> DEFINE S == {buffer[j] : j \in i .. i + count - 1}
<1>1. S \in SUBSET Nat /\ \A y \in S : y <= 128
  BY DEF AllWidths, Widths
<1>2. buffer[i] \in S
  OBVIOUS
<1>3. Max(S) \in S /\ \A y \in S : y <= Max(S)
  BY <1>1, <1>2, MaxIsLargest
<1> QED
  BY <1>3 DEF Largest

\* A value gets a width that covers it.
LEMMA NeededCovers ==
    ASSUME NEW v \in Nat
    PROVE  BitsNeededFor(v) \in Widths /\ Covers(BitsNeededFor(v), v)
<1>1. CASE v = 1
  BY <1>1 DEF BitsNeededFor, Covers, Widths
<1>2. CASE v # 1
  <2> DEFINE S == {w \in Widths \ {0} : w = 32 \/ v < 2 ^ w}
  <2>1. S \in SUBSET Nat /\ 32 \in S
    BY DEF Widths
  <2>2. Min(S) \in S
    BY <2>1, MinIsLeast
  <2> QED
    BY <2>2, <1>2 DEF BitsNeededFor, Covers
<1> QED
  BY <1>1, <1>2

\* A promotion goes to a wider stripe.
LEMMA PromotedIsWider ==
    ASSUME NEW w \in Widths, w < 32
    PROVE  Promoted(w) \in Widths /\ w < Promoted(w)
<1> DEFINE S == {x \in Widths : x > w}
<1>1. S \in SUBSET Nat /\ 32 \in S
  BY DEF Widths
<1>2. Min(S) \in S
  BY <1>1, MinIsLeast
<1> QED
  BY <1>2 DEF Promoted

\* The width a short end is rounded up to is one of three and wide enough.
LEMMA ShortWidth ==
    ASSUME NEW l \in Nat, l <= 32
    PROVE  LET x == Min({w \in {8, 16, 32} : l <= w}) IN x \in {8, 16, 32} /\ l <= x
<1> DEFINE S == {w \in {8, 16, 32} : l <= w}
<1>1. S \in SUBSET Nat /\ 32 \in S
  OBVIOUS
<1>2. Min(S) \in S
  BY <1>1, MinIsLeast
<1> QED
  BY <1>2

-----------------------------------------------------------------------------
(* The array.                                                              *)

SourceOK ==
    /\ n \in Nat \ {0}
    /\ DOMAIN source = 0 .. n - 1
    /\ \A i \in 0 .. n - 1 : source[i] \in Nat

\* Every array of the program is good,
LEMMA SourceInit ==
    ASSUME source \in Sources
    PROVE  SourceOK
BY SourcesAssumption, FS_CardinalityType, FS_EmptySet DEF SourceOK, n

\* and no step changes it.
LEMMA SourceStays ==
    ASSUME SourceOK, source' = source
    PROVE  SourceOK' /\ n' = n
<1>1. n' = n
  BY DEF n
<1> QED
  BY <1>1 DEF SourceOK

-----------------------------------------------------------------------------
(* The plan: widths that cover the array, level over groups of four from   *)
(* the position on, and whole stripes before it.                           *)

Level(buffer, len, from) == \A i \in from .. len - 1 : buffer[i] = buffer[4 * (i \div 4)]

Covered(buffer, src, len, from) ==
    \A i \in from .. len - 1 : buffer[i] \in AllWidths /\ Covers(buffer[i], src[i])

\* Single words are what is left when it is less than a stripe of four.
SingleLast(buffer, len, from) == \A i \in from .. len - 1 : buffer[i] = 128 => len < from + 4

WidthsFrom(buffer, src, len, from) ==
    /\ \A i \in 0 .. len + Wastage - 1 : buffer[i] \in AllWidths
    /\ DOMAIN buffer = 0 .. len + Wastage - 1
    /\ Covered(buffer, src, len, 0)
    /\ Level(buffer, len, from)
    /\ SingleLast(buffer, len, from)

\* Position of the plan, always at a group or at the end.
PosOK == pos \in 0 .. n /\ (pos % 4 = 0 \/ pos = n)

\* A group of the buffer that starts at a multiple of four.
LEMMA GroupOf ==
    ASSUME NEW p \in Nat, p % 4 = 0, NEW i \in Nat, p <= i
    PROVE  4 * (i \div 4) \in p .. i /\ i < 4 * (i \div 4) + 4
           /\ (i < p + 4 => 4 * (i \div 4) = p)
           /\ 4 * ((4 * (i \div 4)) \div 4) = 4 * (i \div 4)
OBVIOUS

\* Raising the widths of whole groups, none of them below what it was, keeps
\* the array covered and level.
LEMMA FillKeeps ==
    ASSUME SourceOK, NEW p \in Nat, p % 4 = 0, NEW b, WidthsFrom(b, source, n, p),
           NEW c \in Nat, c % 4 = 0, NEW x \in Widths,
           \A j \in p .. p + c - 1 : j < n => b[j] <= x
    PROVE  WidthsFrom(Fill(b, p, c, x), source, n, p)
<1> DEFINE f == Fill(b, p, c, x)
<1>1. /\ DOMAIN f = 0 .. n + Wastage - 1
      /\ \A i \in 0 .. n + Wastage - 1 : f[i] = IF i \in p .. p + c - 1 THEN x ELSE b[i]
  BY DEF Fill, WidthsFrom
<1> HIDE DEF f
<1>2. n \in Nat /\ Wastage \in Nat /\ \A i \in 0 .. n - 1 : source[i] \in Nat
  BY WastageAssumption DEF SourceOK
<1>3. x \in AllWidths /\ x # 128
  BY DEF AllWidths, Widths
<1>4. \A i \in 0 .. n + Wastage - 1 : f[i] \in AllWidths
  BY <1>1, <1>3 DEF WidthsFrom
<1>5. Covered(f, source, n, 0)
  <2>1. SUFFICES ASSUME NEW i \in 0 .. n - 1 PROVE f[i] \in AllWidths /\ Covers(f[i], source[i])
    BY DEF Covered
  <2>2. i \in 0 .. n + Wastage - 1 /\ source[i] \in Nat /\ i < n
    BY <1>2
  <2>3. b[i] \in AllWidths /\ Covers(b[i], source[i])
    BY DEF WidthsFrom, Covered
  <2>4. CASE i \in p .. p + c - 1
    <3>1. b[i] <= x /\ f[i] = x
      BY <2>2, <2>4, <1>1
    <3>2. b[i] \in Widths
      BY <3>1, <2>3 DEF AllWidths, Widths
    <3> QED
      BY <3>1, <3>2, <2>2, <2>3, <1>3, CoversMono
  <2>5. CASE i \notin p .. p + c - 1
    BY <2>2, <2>3, <2>5, <1>1
  <2> QED
    BY <2>4, <2>5
<1>6. Level(f, n, p)
  <2>1. SUFFICES ASSUME NEW i \in p .. n - 1 PROVE f[i] = f[4 * (i \div 4)]
    BY DEF Level
  <2> DEFINE g == 4 * (i \div 4)
  <2>2. i \in Nat /\ i < n /\ p <= i /\ p \in Nat
    BY <1>2
  <2>3. g \in p .. i /\ i < g + 4
    BY <2>2, GroupOf
  <2>4. b[i] = b[g]
    BY DEF WidthsFrom, Level
  <2>5. i \in p .. p + c - 1 <=> g \in p .. p + c - 1
    BY <2>2, <2>3
  <2> HIDE DEF g
  <2>6. i \in 0 .. n + Wastage - 1 /\ g \in 0 .. n + Wastage - 1
    BY <2>2, <2>3, <1>2
  <2> QED
    BY <1>1, <2>4, <2>5, <2>6 DEF g
<1>7. SingleLast(f, n, p)
  <2>1. SUFFICES ASSUME NEW i \in p .. n - 1, f[i] = 128 PROVE n < p + 4
    BY DEF SingleLast
  <2>2. i \in 0 .. n + Wastage - 1
    BY <1>2
  <2>3. b[i] = 128
    BY <2>1, <2>2, <1>1, <1>3
  <2> QED
    BY <2>3 DEF WidthsFrom, SingleLast
<1> QED
  BY <1>1, <1>4, <1>5, <1>6, <1>7 DEF WidthsFrom, f

\* The widths below a position are left alone when those from it on are filled.
LEMMA FillBelow ==
    ASSUME NEW b, NEW p \in Nat, NEW c \in Nat, NEW x
    PROVE  /\ DOMAIN Fill(b, p, c, x) = DOMAIN b
           /\ \A i \in DOMAIN b : i \in Nat /\ i < p => Fill(b, p, c, x)[i] = b[i]
           /\ \A i \in DOMAIN b : i \in p .. p + c - 1 => Fill(b, p, c, x)[i] = x
BY DEF Fill

\* The rules for short ends raise the widths of whole groups or leave them.
LEMMA ShortEndKeeps ==
    ASSUME SourceOK, NEW p \in 0 .. n - 1, p = pos, p % 4 = 0, NEW b, WidthsFrom(b, source, n, p)
    PROVE  /\ WidthsFrom(ShortEnd(b, n - p), source, n, p)
           /\ DOMAIN ShortEnd(b, n - p) = DOMAIN b
           /\ \A i \in 0 .. p - 1 : ShortEnd(b, n - p)[i] = b[i]
<1>1. /\ n \in Nat \ {0} /\ p \in Nat /\ p < n
      /\ Wastage \in Nat /\ Wastage >= 8
      /\ DOMAIN b = 0 .. n + Wastage - 1
      /\ \A i \in 0 .. n + Wastage - 1 : b[i] \in AllWidths
  BY WastageAssumption DEF SourceOK, WidthsFrom
<1> DEFINE Good(f) == /\ WidthsFrom(f, source, n, p)
                      /\ DOMAIN f = DOMAIN b
                      /\ \A i \in 0 .. p - 1 : f[i] = b[i]
<1>2. Good(b)
  OBVIOUS
<1>3. ASSUME NEW c \in {8, 16}, p + c <= n + Wastage, NEW x \in Widths, Largest(b, p, c) <= x
      PROVE  Good(Fill(b, p, c, x))
  <2>1. c \in Nat /\ c # 0 /\ c % 4 = 0
    OBVIOUS
  <2>2. \A j \in p .. p + c - 1 : b[j] \in AllWidths
    BY <1>1, <1>3, <2>1
  <2>3. /\ Largest(b, p, c) \in AllWidths
        /\ \A j \in p .. p + c - 1 : b[j] <= Largest(b, p, c)
    BY <1>1, <2>1, <2>2, LargestIsOne
  <2>4. \A j \in p .. p + c - 1 : j < n => b[j] <= x
    BY <1>3, <2>2, <2>3 DEF AllWidths, Widths
  <2>5. WidthsFrom(Fill(b, p, c, x), source, n, p)
    BY <1>1, <2>1, <2>4, FillKeeps
  <2>6. /\ DOMAIN Fill(b, p, c, x) = DOMAIN b
        /\ \A i \in DOMAIN b : i \in Nat /\ i < p => Fill(b, p, c, x)[i] = b[i]
    BY <1>1, <2>1, FillBelow
  <2>7. \A i \in 0 .. p - 1 : i \in DOMAIN b /\ i \in Nat /\ i < p
    BY <1>1
  <2> QED
    BY <2>5, <2>6, <2>7
<1>4. ASSUME NEW c \in {8, 16}, p + c <= n + Wastage PROVE Largest(b, p, c) \in AllWidths
  <2>1. c \in Nat \ {0} /\ p \in Nat
    BY <1>1
  <2>2. \A j \in p .. p + c - 1 : b[j] \in AllWidths
    BY <1>1, <1>4, <2>1
  <2> QED
    BY <2>1, <2>2, LargestIsOne
<1> HIDE DEF Good
<1>5. 8 \in Widths /\ 16 \in Widths /\ 32 \in Widths
  BY DEF Widths
<1>6. CASE n - p < 4
  <2> DEFINE l == Largest(b, p, 8)
  <2>1. p + 8 <= n + Wastage /\ l \in AllWidths
    BY <1>1, <1>4
  <2>2. CASE l <= 32
    <3> DEFINE x == Min({w \in {8, 16, 32} : l <= w})
    <3>1. x \in {8, 16, 32} /\ l <= x
      BY <2>1, <2>2, ShortWidth DEF AllWidths, Widths
    <3>2. ShortEnd(b, n - p) = Fill(b, p, 8, x)
      BY <1>6, <2>2 DEF ShortEnd
    <3> HIDE DEF x, l
    <3>3. x \in Widths /\ Largest(b, p, 8) <= x
      BY <3>1, <1>5 DEF l
    <3> QED
      BY <3>2, <3>3, <2>1, <1>3 DEF Good
  <2>3. CASE ~(l <= 32)
    BY <1>2, <1>6, <2>3 DEF ShortEnd, Good
  <2> QED
    BY <2>2, <2>3
<1>7. CASE n - p >= 4 /\ n - p < 8
  <2>1. p + 8 <= n + Wastage
    BY <1>1
  <2>2. ShortEnd(b, n - p) = IF Largest(b, p, 8) <= 8 THEN Fill(b, p, 8, 8) ELSE b
    BY <1>1, <1>7 DEF ShortEnd
  <2> QED
    BY <2>1, <2>2, <1>2, <1>3, <1>5 DEF Good
<1>8. CASE n - p >= 8 /\ n - p < 16
  <2>1. p + 16 <= n + Wastage
    BY <1>1, <1>8
  <2>2. ShortEnd(b, n - p) = IF Largest(b, p, 16) <= 8 THEN Fill(b, p, 16, 8) ELSE b
    BY <1>1, <1>8 DEF ShortEnd
  <2> QED
    BY <2>1, <2>2, <1>2, <1>3, <1>5 DEF Good
<1>9. CASE n - p >= 16
  <2>1. ShortEnd(b, n - p) = b
    BY <1>1, <1>9 DEF ShortEnd
  <2> QED
    BY <2>1, <1>2 DEF Good
<1> QED
  BY <1>1, <1>6, <1>7, <1>8, <1>9

-----------------------------------------------------------------------------
(* Whole stripes.                                                          *)

\* A stripe starts at s, in a buffer whose stripes end at to.
IsStripe(buffer, len, s, to) ==
    /\ buffer[s] \in AllWidths
    /\ \A i \in s .. s + Ints(buffer[s]) - 1 : buffer[i] = buffer[s]
    /\ buffer[s] # 128 => s % 4 = 0
    /\ buffer[s] = 128 => to = len /\ \A i \in s .. len - 1 : buffer[i] = 128

\* S holds the places where the stripes between from and to start.
Cut(buffer, len, from, to, S) ==
    /\ S \subseteq from .. to - 1
    /\ from \in S \cup {to}
    /\ \A s \in S : /\ IsStripe(buffer, len, s, to)
                    /\ s + Ints(buffer[s]) \in S \cup {to}

WholeStripes(buffer, len, from, to) == \E S : Cut(buffer, len, from, to, S)

\* The next stripe after those up to p.
LEMMA AppendStripe ==
    ASSUME n \in Nat, NEW p \in Nat, p < n, NEW b, WholeStripes(b, n, 0, p),
           NEW f, \A i \in 0 .. p - 1 : f[i] = b[i],
           IsStripe(f, n, p, p + Ints(f[p]))
    PROVE  WholeStripes(f, n, 0, p + Ints(f[p]))
<1>1. PICK S : Cut(b, n, 0, p, S)
  BY DEF WholeStripes
<1> DEFINE q == p + Ints(f[p])
<1>2. q \in Nat /\ p < q
  BY StripeFacts DEF IsStripe
<1>3. ASSUME NEW s \in S
      PROVE  /\ f[s] = b[s] /\ s \in 0 .. p - 1
             /\ IsStripe(f, n, s, q)
             /\ s + Ints(f[s]) \in S \cup {p}
  <2>1. s \in 0 .. p - 1 /\ IsStripe(b, n, s, p) /\ s + Ints(b[s]) \in S \cup {p}
    BY <1>1 DEF Cut
  <2>2. f[s] = b[s] /\ b[s] # 128
    BY <2>1 DEF IsStripe
  <2>3. s + Ints(b[s]) <= p /\ Ints(b[s]) \in Nat
    BY <1>1, <2>1, StripeFacts DEF Cut, IsStripe
  <2>4. \A i \in s .. s + Ints(b[s]) - 1 : i \in 0 .. p - 1
    BY <2>1, <2>3
  <2> QED
    BY <2>1, <2>2, <2>4 DEF IsStripe
<1> DEFINE T == S \cup {p}
<1>4. T \subseteq 0 .. q - 1
  BY <1>2, <1>3
<1>5. 0 \in T
  BY <1>1 DEF Cut
<1>6. ASSUME NEW s \in T PROVE IsStripe(f, n, s, q) /\ s + Ints(f[s]) \in T \cup {q}
  BY <1>3
<1>7. Cut(f, n, 0, q, T)
  BY <1>4, <1>5, <1>6 DEF Cut
<1> QED
  BY <1>7 DEF WholeStripes

\* What is left becomes single words.
LEMMA AppendSingles ==
    ASSUME n \in Nat, NEW p \in Nat, p < n, NEW f, WholeStripes(f, n, 0, p),
           \A i \in p .. n - 1 : f[i] = 128
    PROVE  WholeStripes(f, n, 0, n)
<1>1. PICK S : Cut(f, n, 0, p, S)
  BY DEF WholeStripes
<1> DEFINE T == S \cup (p .. n - 1)
<1>2. ASSUME NEW s \in S PROVE s \in 0 .. p - 1 /\ IsStripe(f, n, s, n) /\ s + Ints(f[s]) \in T
  BY <1>1 DEF Cut, IsStripe
<1>3. ASSUME NEW s \in p .. n - 1
      PROVE  s \in 0 .. n - 1 /\ IsStripe(f, n, s, n) /\ s + Ints(f[s]) \in T \cup {n}
  <2>1. f[s] = 128 /\ Ints(f[s]) = 1
    BY StripeSizes
  <2>2. f[s] \in AllWidths
    BY <2>1 DEF AllWidths
  <2>3. \A i \in s .. n - 1 : f[i] = 128
    OBVIOUS
  <2>4. \A i \in s .. s + Ints(f[s]) - 1 : i = s
    BY <2>1
  <2> QED
    BY <2>1, <2>2, <2>3, <2>4 DEF IsStripe
<1>4. T \subseteq 0 .. n - 1
  BY <1>2, <1>3
<1>5. 0 \in T
  BY <1>1 DEF Cut
<1>6. Cut(f, n, 0, n, T)
  BY <1>2, <1>3, <1>4, <1>5 DEF Cut
<1> QED
  BY <1>6 DEF WholeStripes

\* Multiples, one at a time.
LEMMA MulFacts ==
    ASSUME NEW k \in Nat, NEW m \in Nat \ {0}
    PROVE  k * m \in Nat /\ (k + 1) * m = k * m + m /\ k <= k * m
OBVIOUS

\* The first run of equal widths is made of whole stripes, and whole stripes
\* follow it.
LEMMA RunIsStripes ==
    ASSUME n \in Nat, NEW r \in 0 .. n - 1, NEW b, WholeStripes(b, n, r, n),
           NEW end \in r + 1 .. n,
           \A i \in r .. end - 1 : b[i] = b[r],
           end < n => b[end] # b[r]
    PROVE  /\ b[r] \in AllWidths
           /\ \E m \in Nat \ {0} : end - r = m * Ints(b[r])
           /\ WholeStripes(b, n, end, n)
           /\ b[r] # 128 => r % 4 = 0
           /\ b[r] = 128 => end = n
<1>1. PICK S : Cut(b, n, r, n, S)
  BY DEF WholeStripes
<1> DEFINE w == b[r]  c == Ints(w)
           M == {k \in Nat : r + k * c <= end /\ r + k * c \in S \cup {n}}
<1>2. r \in S /\ IsStripe(b, n, r, n)
  BY <1>1 DEF Cut
<1>3. w \in AllWidths /\ c \in Nat \ {0}
  BY <1>2, StripeFacts DEF IsStripe
<1> HIDE DEF c
<1>4. 0 \in M
  <2>1. r + 0 * c = r
    BY <1>3
  <2> QED
    BY <2>1, <1>2
<1>5. \A k \in M : k <= n
  <2>1. SUFFICES ASSUME NEW k \in M PROVE k <= n
    OBVIOUS
  <2>2. k <= k * c /\ k * c \in Nat
    BY <1>3, MulFacts
  <2> QED
    BY <2>2
<1>6. M \in SUBSET Nat
  OBVIOUS
<1>7. Max(M) \in M /\ \A k \in M : k <= Max(M)
  BY <1>4, <1>5, <1>6, MaxIsLargest
<1>8. PICK m \in M : \A k \in M : k <= m
  BY <1>7
<1> DEFINE x == r + m * c
<1>9. m \in Nat /\ m * c \in Nat /\ (m + 1) * c = m * c + c /\ x <= end /\ x \in S \cup {n}
  BY <1>3, <1>6, <1>8, MulFacts
<1>10. x = end
  <2>1. SUFFICES ASSUME x < end PROVE FALSE
    BY <1>9
  <2>2. x \in r .. end - 1 /\ x \in S
    BY <1>9, <2>1
  <2>3. b[x] = w
    BY <2>2
  <2>4. /\ x + c \in S \cup {n}
        /\ \A i \in x .. x + c - 1 : b[i] = w
    BY <1>1, <2>2, <2>3 DEF Cut, IsStripe, c
  <2>5. x + c = r + (m + 1) * c
    BY <1>9, <1>3
  <2>6. x + c <= end
    <3>1. SUFFICES ASSUME end < x + c PROVE FALSE
      BY <1>3, <1>9
    <3>2. end \in x .. x + c - 1
      BY <2>2, <3>1, <1>3, <1>9
    <3>3. S \subseteq r .. n - 1
      BY <1>1 DEF Cut
    <3> DEFINE y == x + c
    <3>4. y \in S \cup {n} /\ x \in Nat /\ c \in Nat
      BY <2>4, <1>3, <1>9
    <3> HIDE DEF y, M, x
    <3>5. y <= n
      BY <3>3, <3>4
    <3>6. end < n
      BY <3>1, <3>4, <3>5 DEF y
    <3> QED
      BY <3>2, <3>6, <2>4
  <2>7. m + 1 \in M
    BY <2>4, <2>5, <2>6, <1>9
  <2> QED
    BY <2>7, <1>8, <1>9
<1>11. m # 0
  BY <1>10, <1>3
<1>12. end - r = m * c
  BY <1>10, <1>9
<1>13. WholeStripes(b, n, end, n)
  <2> DEFINE T == {s \in S : s >= end}
  <2>1. end \in S \cup {n}
    BY <1>9, <1>10
  <2>2. S \subseteq r .. n - 1
    BY <1>1 DEF Cut
  <2>3. T \subseteq end .. n - 1 /\ end \in T \cup {n}
    <3>1. \A s \in T : s \in r .. n - 1 /\ s >= end
      BY <2>2
    <3>2. end \in S => end \in T
      OBVIOUS
    <3> HIDE DEF T, M, x
    <3>3. T \subseteq end .. n - 1
      BY <3>1
    <3> QED
      BY <3>2, <3>3, <2>1
  <2>4. ASSUME NEW s \in T PROVE IsStripe(b, n, s, n) /\ s + Ints(b[s]) \in T \cup {n}
    <3>1. IsStripe(b, n, s, n) /\ s + Ints(b[s]) \in S \cup {n} /\ s \in Nat /\ s >= end
      BY <1>1, <2>2 DEF Cut
    <3>2. Ints(b[s]) \in Nat
      BY <3>1, StripeFacts DEF IsStripe
    <3> QED
      BY <3>1, <3>2
  <2>5. Cut(b, n, end, n, T)
    BY <2>3, <2>4 DEF Cut
  <2> QED
    BY <2>5 DEF WholeStripes
<1>14. w = 128 => end = n
  <2>1. SUFFICES ASSUME w = 128, end < n PROVE FALSE
    OBVIOUS
  <2>2. b[end] = 128
    BY <2>1, <1>2 DEF IsStripe
  <2> QED
    BY <2>1, <2>2
<1> QED
  BY <1>2, <1>3, <1>9, <1>11, <1>12, <1>13, <1>14 DEF IsStripe, c

-----------------------------------------------------------------------------
(* The planning steps.                                                     *)

PlanInv ==
    /\ SourceOK /\ PosOK
    /\ WidthsFrom(length_buffer, source, n, pos)
    /\ WholeStripes(length_buffer, n, 0, pos)

\* The widths measured cover the array and are level, groups that only start
\* before its end included.
LEMMA MeasureCovers ==
    ASSUME SourceOK, pos = 0, Measure
    PROVE  PlanInv'
<1> DEFINE width == [i \in 0 .. n + Wastage - 1 |->
                       IF i < n THEN BitsNeededFor(source[i]) ELSE 0]
           grouped(i) == (i \div 4) * 4 < n + 4
           f == [i \in DOMAIN width |->
                   IF grouped(i) THEN Largest(width, (i \div 4) * 4, 4) ELSE width[i]]
<1>1. length_buffer' = f /\ source' = source /\ pos' = pos
  BY DEF Measure
<1>2. /\ n \in Nat \ {0} /\ Wastage \in Nat /\ Wastage >= 8
      /\ \A i \in 0 .. n - 1 : source[i] \in Nat
  BY WastageAssumption DEF SourceOK
<1>3. ASSUME NEW i \in 0 .. n + Wastage - 1 PROVE width[i] \in Widths
  <2>1. 0 \in Widths
    BY DEF Widths
  <2>2. CASE i < n
    BY <1>2, <2>2, NeededCovers
  <2>3. CASE ~(i < n)
    BY <1>2, <2>1, <2>3
  <2> QED
    BY <2>2, <2>3
<1>4. ASSUME NEW i \in 0 .. n - 1 PROVE width[i] \in Widths /\ Covers(width[i], source[i])
  <2>1. i < n /\ i \in 0 .. n + Wastage - 1 /\ source[i] \in Nat
    BY <1>2
  <2> QED
    BY <2>1, NeededCovers
<1>5. DOMAIN f = 0 .. n + Wastage - 1
  OBVIOUS
<1> HIDE DEF width
<1>6. ASSUME NEW i \in 0 .. n + Wastage - 1
      PROVE  /\ grouped(i) => LET l == Largest(width, (i \div 4) * 4, 4)
                              IN  l \in Widths /\ width[i] <= l
  <2> DEFINE g == (i \div 4) * 4
  <2>1. SUFFICES ASSUME grouped(i)
                 PROVE  Largest(width, g, 4) \in Widths /\ width[i] <= Largest(width, g, 4)
    OBVIOUS
  <2>2. g \in Nat /\ g + 4 <= n + Wastage /\ i \in g .. g + 3
    BY <2>1, <1>2
  <2> HIDE DEF g
  <2>3. \A j \in g .. g + 4 - 1 : width[j] \in Widths
    BY <2>2, <1>2, <1>3
  <2>4. \A j \in g .. g + 4 - 1 : width[j] \in AllWidths
    BY <2>3 DEF AllWidths
  <2>5. /\ \E j \in g .. g + 4 - 1 : Largest(width, g, 4) = width[j]
        /\ \A j \in g .. g + 4 - 1 : width[j] <= Largest(width, g, 4)
    BY <2>2, <2>4, LargestIsOne
  <2> QED
    BY <2>2, <2>3, <2>5
<1>7. \A i \in 0 .. n - 1 : grouped(i)
  BY <1>2
<1>8. \A i \in 0 .. n + Wastage - 1 : f[i] \in AllWidths
  BY <1>3, <1>5, <1>6 DEF AllWidths
<1>9. ASSUME NEW i \in 0 .. n - 1
      PROVE  f[i] = Largest(width, (i \div 4) * 4, 4) /\ f[i] \in Widths /\ Covers(f[i], source[i])
  <2>1. i \in 0 .. n + Wastage - 1 /\ source[i] \in Nat
    BY <1>2
  <2>2. f[i] = Largest(width, (i \div 4) * 4, 4)
    BY <1>5, <1>7, <2>1
  <2>3. f[i] \in Widths /\ width[i] <= f[i]
    BY <2>1, <2>2, <1>6, <1>7
  <2> QED
    BY <2>1, <2>2, <2>3, <1>4, CoversMono DEF AllWidths
<1> HIDE DEF f
<1>10. Covered(f, source, n, 0)
  BY <1>9 DEF Covered, AllWidths
<1>11. Level(f, n, 0)
  <2>1. SUFFICES ASSUME NEW i \in 0 .. n - 1 PROVE f[i] = f[4 * (i \div 4)]
    BY DEF Level
  <2>2. 4 * (i \div 4) \in 0 .. n - 1 /\ ((4 * (i \div 4)) \div 4) * 4 = (i \div 4) * 4
    BY <1>2
  <2> QED
    BY <2>2, <1>9
<1>12. SingleLast(f, n, 0)
  BY <1>9 DEF SingleLast, Widths
<1>13. WholeStripes(f, n, 0, 0)
  <2>1. Cut(f, n, 0, 0, {})
    BY DEF Cut
  <2> QED
    BY <2>1 DEF WholeStripes
<1>14. WidthsFrom(f, source, n, 0)
  BY <1>5, <1>8, <1>10, <1>11, <1>12 DEF WidthsFrom
<1>15. SourceOK' /\ n' = n
  BY <1>1, SourceStays
<1>16. PosOK'
  BY <1>1, <1>2, <1>15 DEF PosOK
<1> QED
  BY <1>1, <1>13, <1>14, <1>15, <1>16 DEF PlanInv

\* One turn of the planning loop.
LEMMA PlanKeeps ==
    ASSUME PlanInv, Plan
    PROVE  PlanInv'
<1> DEFINE b == ShortEnd(length_buffer, n - pos)
           w == b[pos]
           fits == n - pos >= Ints(w) /\ Largest(b, pos, Ints(w)) <= w
<1>1. /\ n \in Nat \ {0} /\ pos \in 0 .. n - 1 /\ pos \in Nat /\ pos % 4 = 0 /\ pos < n
      /\ Wastage \in Nat /\ Wastage >= 8
  BY WastageAssumption DEF PlanInv, PosOK, SourceOK, Plan
<1>2. /\ WidthsFrom(length_buffer, source, n, pos)
      /\ WholeStripes(length_buffer, n, 0, pos)
      /\ SourceOK
  BY DEF PlanInv
<1>3. /\ WidthsFrom(b, source, n, pos)
      /\ DOMAIN b = DOMAIN length_buffer
      /\ \A i \in 0 .. pos - 1 : b[i] = length_buffer[i]
  BY <1>1, <1>2, ShortEndKeeps
<1>4. source' = source
      /\ \/ /\ w # 128 /\ fits
            /\ length_buffer' = Fill(b, pos, Ints(w), w)
            /\ pos' = pos + Ints(w)
         \/ /\ w < 32 /\ ~fits
            /\ length_buffer' = Fill(b, pos, 4, Promoted(w))
            /\ pos' = pos
         \/ /\ w = 32 /\ ~fits
            /\ length_buffer' = Fill(b, pos, n - pos, 128)
            /\ pos' = pos
         \/ /\ w = 128
            /\ length_buffer' = b
            /\ pos' = n
  BY DEF Plan
<1> HIDE DEF b
<1>5. SourceOK' /\ n' = n
  BY <1>2, <1>4, SourceStays
<1>6. /\ \A i \in 0 .. n + Wastage - 1 : b[i] \in AllWidths
      /\ DOMAIN b = 0 .. n + Wastage - 1
      /\ w \in AllWidths
  BY <1>1, <1>3 DEF WidthsFrom
<1>7. \A i \in pos .. n - 1 : i < pos + 4 => b[i] = w
  <2>1. SUFFICES ASSUME NEW i \in pos .. n - 1, i < pos + 4 PROVE b[i] = b[pos]
    OBVIOUS
  <2>2. 4 * (i \div 4) = pos
    BY <2>1, <1>1, GroupOf
  <2> QED
    BY <2>2, <1>3 DEF WidthsFrom, Level
<1>8. ASSUME WidthsFrom(length_buffer', source, n, pos'),
             WholeStripes(length_buffer', n, 0, pos'),
             pos' \in 0 .. n, pos' % 4 = 0 \/ pos' = n
      PROVE  PlanInv'
  BY <1>4, <1>5, <1>8 DEF PlanInv, PosOK
\* What is filled from the position on leaves the stripes before it.
<1>9. ASSUME NEW f, \A i \in 0 .. pos - 1 : f[i] = b[i], WholeStripes(length_buffer, n, 0, pos)
      PROVE  WholeStripes(f, n, 0, pos)
  <2>1. PICK S : Cut(length_buffer, n, 0, pos, S)
    BY <1>9 DEF WholeStripes
  <2>2. ASSUME NEW s \in S PROVE IsStripe(f, n, s, pos) /\ f[s] = length_buffer[s]
    <3>1. s \in 0 .. pos - 1 /\ IsStripe(length_buffer, n, s, pos)
          /\ s + Ints(length_buffer[s]) \in S \cup {pos}
      BY <2>1 DEF Cut
    <3>2. f[s] = length_buffer[s] /\ length_buffer[s] # 128
      BY <3>1, <1>1, <1>3, <1>9 DEF IsStripe
    <3>5. Ints(length_buffer[s]) \in Nat
      BY <3>1, StripeFacts DEF IsStripe
    <3>6. S \subseteq 0 .. pos - 1
      BY <2>1 DEF Cut
    <3>3. Ints(length_buffer[s]) \in Nat /\ s + Ints(length_buffer[s]) <= pos
      BY <3>1, <3>5, <3>6, <1>1
    <3>4. \A i \in s .. s + Ints(length_buffer[s]) - 1 : f[i] = length_buffer[i]
      BY <3>1, <3>3, <1>1, <1>3, <1>9
    <3> QED
      BY <3>1, <3>2, <3>4 DEF IsStripe
  <2>3. Cut(f, n, 0, pos, S)
    BY <2>1, <2>2 DEF Cut
  <2> QED
    BY <2>3 DEF WholeStripes
<1>10. ASSUME NEW c \in Nat, NEW x
       PROVE  /\ \A i \in 0 .. pos - 1 : Fill(b, pos, c, x)[i] = b[i]
              /\ \A i \in pos .. pos + c - 1 : i < n + Wastage => Fill(b, pos, c, x)[i] = x
              /\ \A i \in pos + c .. n - 1 : Fill(b, pos, c, x)[i] = b[i]
  BY <1>1, <1>6 DEF Fill
<1>11. CASE w # 128 /\ fits /\ length_buffer' = Fill(b, pos, Ints(w), w) /\ pos' = pos + Ints(w)
  <2> DEFINE c == Ints(w)  f == Fill(b, pos, c, w)  q == pos + c
  <2>13. w \in Widths /\ w \in AllWidths /\ w # 128
    BY <1>6, <1>11 DEF AllWidths
  <2>1. c \in Nat \ {0} /\ c % 4 = 0 /\ w \in Widths
    BY <2>13, StripeFacts
  <2> HIDE DEF c
  <2>2. q <= n /\ q % 4 = 0 /\ q \in 0 .. n
    BY <1>1, <1>11, <2>1 DEF c
  <2>3. \A j \in pos .. pos + c - 1 : b[j] \in AllWidths /\ b[j] <= w
    <3>1. \A j \in pos .. pos + c - 1 : b[j] \in AllWidths
      BY <1>1, <1>6, <2>1, <2>2
    <3>2. /\ \A j \in pos .. pos + c - 1 : b[j] <= Largest(b, pos, c)
          /\ Largest(b, pos, c) \in AllWidths
      BY <3>1, <1>1, <2>1, LargestIsOne
    <3>3. Largest(b, pos, c) <= w
      BY <1>11 DEF c
    <3> QED
      BY <3>1, <3>2, <3>3, <2>1 DEF AllWidths, Widths
  <2>4. WidthsFrom(f, source, n, pos)
    BY <1>1, <1>2, <1>3, <2>1, <2>3, FillKeeps
  <2>5. WidthsFrom(f, source, n, q)
    <3>1. Level(f, n, q)
      BY <2>1, <2>2, <2>4, <1>1 DEF WidthsFrom, Level
    <3>2. SingleLast(f, n, q)
      BY <2>1, <2>2, <2>4, <1>1 DEF WidthsFrom, SingleLast
    <3> QED
      BY <3>1, <3>2, <2>4 DEF WidthsFrom
  <2>6. WholeStripes(f, n, 0, pos)
    BY <1>2, <1>9, <1>10, <2>1
  <2>7. \A i \in pos .. pos + c - 1 : f[i] = w
    BY <1>1, <1>10, <2>1, <2>2
  <2>8. f[pos] = w
    BY <2>7, <2>1, <1>1
  <2> HIDE DEF f
  <2>9. IsStripe(f, n, pos, pos + Ints(f[pos]))
    BY <2>7, <2>8, <1>1, <1>6, <1>11 DEF IsStripe, c
  <2>10. WholeStripes(f, n, 0, pos + Ints(f[pos]))
    BY <1>1, <2>6, <2>9, AppendStripe
  <2>11. WholeStripes(f, n, 0, q)
    BY <2>8, <2>10 DEF c
  <2>12. length_buffer' = f /\ pos' = q
    BY <1>11 DEF f, c
  <2> QED
    BY <2>2, <2>5, <2>11, <2>12, <1>8
<1>12. CASE w < 32 /\ ~fits /\ length_buffer' = Fill(b, pos, 4, Promoted(w)) /\ pos' = pos
  <2> DEFINE x == Promoted(w)  f == Fill(b, pos, 4, x)
  <2>1. w \in Widths /\ x \in Widths /\ w < x
    BY <1>6, <1>12, PromotedIsWider DEF AllWidths
  <2>2. \A j \in pos .. pos + 4 - 1 : j < n => b[j] <= x
    BY <1>1, <1>7, <2>1 DEF Widths
  <2> HIDE DEF x
  <2>3. WidthsFrom(f, source, n, pos)
    BY <1>1, <1>2, <1>3, <2>1, <2>2, FillKeeps
  <2>4. WholeStripes(f, n, 0, pos)
    BY <1>2, <1>9, <1>10
  <2>5. length_buffer' = f /\ pos' = pos
    BY <1>12 DEF x
  <2> QED
    BY <2>3, <2>4, <2>5, <1>1, <1>8
<1>13. CASE w = 32 /\ ~fits /\ length_buffer' = Fill(b, pos, n - pos, 128) /\ pos' = pos
  <2> DEFINE f == Fill(b, pos, n - pos, 128)
  <2>1. n < pos + 4
    <3>1. SUFFICES ASSUME pos + 4 <= n PROVE fits
      BY <1>1, <1>13
    <3>2. Ints(w) = 4
      BY <1>13, StripeSizes
    <3>3. \A j \in pos .. pos + 4 - 1 : b[j] = 32 /\ b[j] \in AllWidths
      BY <3>1, <1>1, <1>7, <1>13 DEF AllWidths, Widths
    <3>5. 4 \in Nat \ {0} /\ \A j \in pos .. pos + 4 - 1 : b[j] \in AllWidths
      BY <3>3
    <3>4. \E j \in pos .. pos + 4 - 1 : Largest(b, pos, 4) = b[j]
      BY <3>5, <1>1, LargestIsOne
    <3> QED
      BY <3>1, <3>2, <3>3, <3>4, <1>1, <1>13
  <2>2. n - pos \in Nat /\ DOMAIN f = 0 .. n + Wastage - 1
    BY <1>1, <1>6 DEF Fill
  <2>3. /\ \A i \in 0 .. pos - 1 : f[i] = b[i]
        /\ \A i \in pos .. n - 1 : f[i] = 128
    <3>1. /\ \A i \in 0 .. pos - 1 : f[i] = b[i]
          /\ \A i \in pos .. pos + (n - pos) - 1 : i < n + Wastage => f[i] = 128
      BY <2>2, <1>10
    <3> QED
      BY <3>1, <1>1
  <2>4. \A i \in 0 .. n + Wastage - 1 : f[i] \in AllWidths
    BY <1>1, <1>6 DEF Fill, AllWidths
  <2> HIDE DEF f
  <2>5. Covered(f, source, n, 0)
    <3>1. SUFFICES ASSUME NEW i \in 0 .. n - 1
                   PROVE  f[i] \in AllWidths /\ Covers(f[i], source[i])
      BY DEF Covered
    <3>2. CASE i < pos
      <4>1. f[i] = b[i]
        BY <3>2, <2>3, <1>1
      <4> QED
        BY <4>1, <1>3 DEF WidthsFrom, Covered
    <3>3. CASE pos <= i
      <4>1. f[i] = 128
        BY <3>3, <2>3, <1>1
      <4> QED
        BY <4>1 DEF Covers, AllWidths
    <3> QED
      BY <3>2, <3>3, <1>1
  <2>6. Level(f, n, pos)
    <3>1. SUFFICES ASSUME NEW i \in pos .. n - 1 PROVE f[i] = f[4 * (i \div 4)]
      BY DEF Level
    <3>2. 4 * (i \div 4) = pos
      BY <2>1, <1>1, GroupOf
    <3> QED
      BY <3>2, <2>3, <1>1
  <2>7. SingleLast(f, n, pos)
    BY <2>1 DEF SingleLast
  <2>8. WidthsFrom(f, source, n, pos)
    BY <2>2, <2>4, <2>5, <2>6, <2>7 DEF WidthsFrom
  <2>9. WholeStripes(f, n, 0, pos)
    BY <2>3, <1>2, <1>9
  <2>10. length_buffer' = f /\ pos' = pos
    BY <1>13 DEF f
  <2> QED
    BY <2>8, <2>9, <2>10, <1>1, <1>8
<1>14. CASE w = 128 /\ length_buffer' = b /\ pos' = n
  <2>1. n < pos + 4
    BY <1>1, <1>3, <1>14 DEF WidthsFrom, SingleLast
  <2>2. \A i \in pos .. n - 1 : b[i] = 128
    BY <2>1, <1>1, <1>7, <1>14
  <2>3. WholeStripes(b, n, 0, pos)
    BY <1>2, <1>9
  <2>4. WholeStripes(b, n, 0, n)
    BY <2>2, <2>3, <1>1, AppendSingles
  <2>5. WidthsFrom(b, source, n, n)
    <3>1. Level(b, n, n) /\ SingleLast(b, n, n)
      BY <1>1 DEF Level, SingleLast
    <3> QED
      BY <3>1, <1>3 DEF WidthsFrom
  <2> QED
    BY <2>4, <2>5, <1>1, <1>8, <1>14
<1> QED
  BY <1>4, <1>11, <1>12, <1>13, <1>14

-----------------------------------------------------------------------------
(* The batches of a run.                                                   *)

\* How many of m stripes come before batch i.
Off(m, i) == IF 16 * i < m THEN 16 * i ELSE m

\* A multiple of a multiple is one.
LEMMA MulOfMultiple ==
    ASSUME NEW k \in Nat, NEW m \in Nat, NEW d \in {4, 16}, m % d = 0
    PROVE  k * m \in Nat /\ (k * m) % d = 0
<1> DEFINE c == m \div d
<1>1. c \in Nat /\ m = d * c
  BY DivMod
<1> HIDE DEF c
<1>2. k * c \in Nat /\ k * m = d * (k * c)
  BY <1>1
<1> DEFINE x == k * c
<1> HIDE DEF x
<1>3. x \in Nat => (d * x) % d = 0
  OBVIOUS
<1> QED
  BY <1>2, <1>3 DEF x

\* A run of m whole stripes: its size and its batches of at most sixteen.
LEMMA BatchesOf ==
    ASSUME NEW m \in Nat \ {0}, NEW w \in AllWidths, NEW raw, raw = m * Ints(w)
    PROVE  /\ StripesIn(raw, w) = m
           /\ RunBytes(raw, w) = m * BytesPerStripe(w)
           /\ Batches(raw, w) \in 1 .. m
           /\ Off(m, 0) = 0 /\ Off(m, Batches(raw, w)) = m
           /\ \A i \in Nat : Off(m, i) \in 0 .. m
           /\ \A i \in 0 .. Batches(raw, w) - 1 :
                 /\ Batch(raw, w, i) \in 1 .. 16
                 /\ Off(m, i) + Batch(raw, w, i) = Off(m, i + 1)
<1> DEFINE c == Ints(w)
<1>1. c \in Nat \ {0}
  BY StripeFacts
<1>2. StripesIn(raw, w) = m
  <2>1. (c * m + (c - 1)) \div c = m
    BY <1>1, DivUnique
  <2>2. raw + c - 1 = c * m + (c - 1)
    BY <1>1
  <2> QED
    BY <2>1, <2>2 DEF StripesIn
<1>3. RunBytes(raw, w) = m * BytesPerStripe(w)
  <2>1. CASE w = 8
    BY <2>1, StripeSizes DEF RunBytes, BytesPerStripe
  <2>2. CASE w = 16
    BY <2>2, StripeSizes DEF RunBytes, BytesPerStripe
  <2>3. CASE w = 32
    BY <2>3, StripeSizes DEF RunBytes, BytesPerStripe
  <2>4. CASE w \notin {8, 16, 32}
    BY <2>4, <1>2 DEF RunBytes
  <2> QED
    BY <2>1, <2>2, <2>3, <2>4
<1> DEFINE B == Batches(raw, w)
<1>4. B = (m + 15) \div 16
  BY <1>2 DEF Batches
<1>5. \A i : Batch(raw, w, i) = Min({16, m - 16 * i})
  BY <1>2 DEF Batch
<1> HIDE DEF B
<1>6. B \in 1 .. m /\ 16 * B >= m /\ 16 * (B - 1) < m
  BY <1>4
<1>7. ASSUME NEW i \in 0 .. B - 1
      PROVE  /\ Batch(raw, w, i) \in 1 .. 16
             /\ Off(m, i) + Batch(raw, w, i) = Off(m, i + 1)
  <2> DEFINE x == m - 16 * i
  <2>1. x \in Nat \ {0} /\ 16 * i < m
    BY <1>6
  <2>2. Min({16, x}) \in {16, x} /\ Min({16, x}) <= 16 /\ Min({16, x}) <= x
    <3>1. {16, x} \in SUBSET Nat /\ {16, x} # {}
      BY <2>1
    <3> QED
      BY <3>1, MinIsLeast
  <2> DEFINE y == Batch(raw, w, i)
  <2>3. y = Min({16, x})
    BY <1>5
  <2> HIDE DEF x, y
  <2>4. y \in 1 .. 16 /\ y = IF x < 16 THEN x ELSE 16
    BY <2>1, <2>2, <2>3
  <2>5. Off(m, i) = 16 * i /\ Off(m, i + 1) = IF 16 * i + 16 < m THEN 16 * i + 16 ELSE m
    BY <2>1 DEF Off
  <2> QED
    BY <2>1, <2>4, <2>5 DEF x, y
<1>8. \A i \in Nat : Off(m, i) \in 0 .. m
  BY DEF Off
<1>9. Off(m, 0) = 0 /\ Off(m, B) = m
  BY <1>6 DEF Off
<1> QED
  BY <1>2, <1>3, <1>6, <1>7, <1>8, <1>9 DEF B

-----------------------------------------------------------------------------
(* What the selectors say of the stripes.                                  *)

\* The b stripes of width w from byte a and integer f on have been written.
StripesAt(st, a, f, w, b) ==
    w # 0 => \A k \in 0 .. b - 1 :
        /\ a + k * BytesPerStripe(w) \in DOMAIN st
        /\ st[a + k * BytesPerStripe(w)] = [width |-> w, first |-> f + k * Ints(w)]

\* Width w is enough for the count integers from f on.
CoversRun(w, src, f, count) == \A i \in f .. f + count - 1 : Covers(w, src[i])

\* The selector sel stands for b stripes of width w, which start at byte a and
\* integer f and end at byte a2 and integer f2.
IsBatch(sel, a, f, a2, f2, st, src) ==
    \E w \in AllWidths, b \in 1 .. 16 :
        /\ sel = SelectorByte(w, b)
        /\ a2 = a + b * BytesPerStripe(w) /\ f2 = f + b * Ints(w)
        /\ w # 128 => a % 16 = 0 /\ f % 4 = 0
        /\ StripesAt(st, a, f, w, b)
        /\ CoversRun(w, src, f, b * Ints(w))

\* K selectors stand for batches that follow each other; A and F are the bytes
\* and the integers before each of them.
Batched(A, F, sel, K, st, src) ==
    /\ A \in [0 .. K -> Nat] /\ F \in [0 .. K -> Nat]
    /\ A[0] = 0 /\ F[0] = 0
    /\ \A j \in 0 .. K : A[j] <= A[K] /\ F[j] <= F[K]
    /\ \A j \in 0 .. K - 1 : IsBatch(sel[j], A[j], F[j], A[j + 1], F[j + 1], st, src)

Extends(st2, st) == \A x \in DOMAIN st : x \in DOMAIN st2 /\ st2[x] = st[x]

\* Stripes written elsewhere do not change a batch.
LEMMA BatchStays ==
    ASSUME NEW st, NEW st2, Extends(st2, st), NEW sel, NEW a, NEW f, NEW a2, NEW f2, NEW src,
           IsBatch(sel, a, f, a2, f2, st, src)
    PROVE  IsBatch(sel, a, f, a2, f2, st2, src)
<1>1. PICK w \in AllWidths, b \in 1 .. 16 :
        /\ sel = SelectorByte(w, b)
        /\ a2 = a + b * BytesPerStripe(w) /\ f2 = f + b * Ints(w)
        /\ w # 128 => a % 16 = 0 /\ f % 4 = 0
        /\ StripesAt(st, a, f, w, b)
        /\ CoversRun(w, src, f, b * Ints(w))
  BY DEF IsBatch
<1>2. StripesAt(st2, a, f, w, b)
  BY <1>1 DEF Extends, StripesAt
<1> QED
  BY <1>1, <1>2 DEF IsBatch

\* Products keep the order,
LEMMA Products ==
    ASSUME NEW m \in Nat, NEW o \in 0 .. m, NEW p \in Nat
    PROVE  o * p \in Nat /\ m * p \in Nat /\ o * p <= m * p
OBVIOUS

\* and distribute over a sum.
LEMMA ProductOfSum ==
    ASSUME NEW o \in Nat, NEW s \in Nat, NEW p \in Nat
    PROVE  /\ o * p \in Nat /\ s * p \in Nat /\ (o + s) * p \in Nat
           /\ (o + s) * p = o * p + s * p
OBVIOUS

\* What it takes for the stripes of an output to be in batches.
LEMMA BatchedIntro ==
    ASSUME NEW A, NEW F, NEW sel, NEW N, NEW st, NEW src,
           A \in [0 .. N -> Nat], F \in [0 .. N -> Nat], A[0] = 0, F[0] = 0,
           \A j \in 0 .. N : A[j] <= A[N] /\ F[j] <= F[N],
           \A j \in 0 .. N - 1 : IsBatch(sel[j], A[j], F[j], A[j + 1], F[j + 1], st, src)
    PROVE  Batched(A, F, sel, N, st, src)
BY DEF Batched

\* B batches of S[0], S[1], ... stripes, m together.
Batching(m, B, S) ==
    /\ B \in Nat \ {0} /\ Off(m, 0) = 0 /\ Off(m, B) = m
    /\ \A i \in Nat : Off(m, i) \in 0 .. m
    /\ \A i \in 0 .. B - 1 : S[i] \in 1 .. 16 /\ Off(m, i) + S[i] = Off(m, i + 1)

\* The selectors of these batches follow the first K.
SelectorsAfter(sel2, sel, K, w, B, S) ==
    /\ \A j \in 0 .. K - 1 : sel2[j] = sel[j]
    /\ \A i \in 0 .. B - 1 : sel2[K + i] = SelectorByte(w, S[i])

\* A run of m stripes of width w, all of them written behind the others.
LEMMA AppendBatches ==
    ASSUME NEW K \in Nat, NEW A, NEW F, NEW sel, NEW st, NEW src,
           Batched(A, F, sel, K, st, src),
           NEW m \in Nat \ {0}, NEW w \in AllWidths, NEW B, NEW S, Batching(m, B, S),
           w # 128 => A[K] % 16 = 0 /\ F[K] % 4 = 0,
           NEW st2, Extends(st2, st),
           StripesAt(st2, A[K], F[K], w, m),
           CoversRun(w, src, F[K], m * Ints(w)),
           NEW sel2, SelectorsAfter(sel2, sel, K, w, B, S)
    PROVE  \E A2, F2 : /\ Batched(A2, F2, sel2, K + B, st2, src)
                       /\ A2[K + B] = A[K] + m * BytesPerStripe(w)
                       /\ F2[K + B] = F[K] + m * Ints(w)
<1>14. /\ B \in Nat \ {0} /\ Off(m, 0) = 0 /\ Off(m, B) = m
       /\ \A i \in Nat : Off(m, i) \in 0 .. m
       /\ \A i \in 0 .. B - 1 : S[i] \in 1 .. 16 /\ Off(m, i) + S[i] = Off(m, i + 1)
  BY DEF Batching
<1>15. B \in Nat \ {0} /\ Off(m, 0) = 0 /\ Off(m, B) = m
  BY <1>14
<1> USE <1>15
<1>16. \A i \in Nat : Off(m, i) \in 0 .. m
  BY <1>14
<1>17. /\ \A j \in 0 .. K - 1 : sel2[j] = sel[j]
       /\ \A i \in 0 .. B - 1 : sel2[K + i] = SelectorByte(w, S[i])
  BY DEF SelectorsAfter
<1> DEFINE p == BytesPerStripe(w)  c == Ints(w)
           A2 == [j \in 0 .. K + B |-> IF j <= K THEN A[j] ELSE A[K] + Off(m, j - K) * p]
           F2 == [j \in 0 .. K + B |-> IF j <= K THEN F[j] ELSE F[K] + Off(m, j - K) * c]
<1>1. /\ p \in Nat /\ c \in Nat \ {0}
      /\ w # 128 => p % 16 = 0 /\ c % 4 = 0
  <2>1. /\ Ints(w) \in 1 .. 256 /\ BytesPerStripe(w) \in 0 .. 32
        /\ w # 128 => Ints(w) % 4 = 0 /\ BytesPerStripe(w) % 16 = 0
    BY StripeFacts
  <2> QED
    BY <2>1
<1>2. /\ A \in [0 .. K -> Nat] /\ F \in [0 .. K -> Nat] /\ A[0] = 0 /\ F[0] = 0
      /\ A[K] \in Nat /\ F[K] \in Nat
      /\ \A j \in 0 .. K : A[j] \in Nat /\ F[j] \in Nat /\ A[j] <= A[K] /\ F[j] <= F[K]
      /\ \A j \in 0 .. K - 1 : IsBatch(sel[j], A[j], F[j], A[j + 1], F[j + 1], st, src)
  <2>1. /\ A \in [0 .. K -> Nat] /\ F \in [0 .. K -> Nat] /\ A[0] = 0 /\ F[0] = 0
        /\ \A j \in 0 .. K : A[j] <= A[K] /\ F[j] <= F[K]
        /\ \A j \in 0 .. K - 1 : IsBatch(sel[j], A[j], F[j], A[j + 1], F[j + 1], st, src)
    BY DEF Batched
  <2>2. K \in 0 .. K
    OBVIOUS
  <2>3. \A j \in 0 .. K : A[j] \in Nat /\ F[j] \in Nat
    BY <2>1
  <2> QED
    BY <2>1, <2>2, <2>3
<1>12. A[K] \in Nat /\ F[K] \in Nat
  BY <1>2
<1>13. A[0] = 0 /\ F[0] = 0 /\ \A j \in 0 .. K : A[j] \in Nat /\ F[j] \in Nat /\ A[j] <= A[K] /\ F[j] <= F[K]
  BY <1>2
<1> HIDE DEF p, c
<1>3. ASSUME NEW o \in 0 .. m
      PROVE  /\ o * p \in Nat /\ o * c \in Nat /\ o * p <= m * p /\ o * c <= m * c
             /\ m * p \in Nat /\ m * c \in Nat
  BY <1>1, Products
<1>4. \A j \in 0 .. K + B :
         /\ j <= K => A2[j] = A[j] /\ F2[j] = F[j]
         /\ j > K => A2[j] = A[K] + Off(m, j - K) * p /\ F2[j] = F[K] + Off(m, j - K) * c
  OBVIOUS
<1>5. \A i \in 0 .. B : A2[K + i] = A[K] + Off(m, i) * p /\ F2[K + i] = F[K] + Off(m, i) * c
  <2>1. SUFFICES ASSUME NEW i \in 0 .. B
                 PROVE  A2[K + i] = A[K] + Off(m, i) * p /\ F2[K + i] = F[K] + Off(m, i) * c
    OBVIOUS
  <2> HIDE DEF A2, F2
  <2>2. CASE i = 0
    <3>1. Off(m, i) * p = 0 /\ Off(m, i) * c = 0 /\ K + i = K /\ K \in 0 .. K + B /\ K <= K
      BY <2>2, <1>1
    <3>2. A2[K] = A[K] /\ F2[K] = F[K]
      BY <3>1, <1>4
    <3> DEFINE x == Off(m, i) * p  y == Off(m, i) * c
    <3> HIDE DEF x, y
    <3>3. x = 0 /\ y = 0 /\ K + i = K
      BY <3>1 DEF x, y
    <3>4. A2[K + i] = A[K] + x /\ F2[K + i] = F[K] + y
      <4>1. A2[K + i] = A2[K] /\ F2[K + i] = F2[K]
        BY <3>3
      <4>2. A[K] + x = A[K] /\ F[K] + y = F[K]
        BY <3>3, <1>12
      <4> QED
        BY <3>2, <4>1, <4>2
    <3> QED
      BY <3>4 DEF x, y
  <2>3. CASE i # 0
    <3>1. K + i \in 0 .. K + B /\ K + i > K /\ (K + i) - K = i
      BY <2>3
    <3> QED
      BY <3>1, <1>4
  <2> QED
    BY <2>2, <2>3
<1>6. A2 \in [0 .. K + B -> Nat] /\ F2 \in [0 .. K + B -> Nat]
  <2>1. \A j \in 0 .. K + B : j > K => j - K \in Nat /\ Off(m, j - K) \in 0 .. m
    BY <1>16
  <2> HIDE DEF A2, F2
  <2>2. ASSUME NEW j \in 0 .. K + B PROVE A2[j] \in Nat /\ F2[j] \in Nat
    <3>1. CASE j <= K
      <4>1. j \in 0 .. K /\ A2[j] = A[j] /\ F2[j] = F[j]
        BY <3>1, <1>4
      <4> QED
        BY <4>1, <1>2
    <3>2. CASE j > K
      <4> DEFINE o == Off(m, j - K)
      <4>1. o \in 0 .. m /\ A2[j] = A[K] + o * p /\ F2[j] = F[K] + o * c
        BY <3>2, <2>1, <1>4
      <4> HIDE DEF o
      <4>2. o * p \in Nat /\ o * c \in Nat
        BY <4>1, <1>3
      <4> QED
        BY <4>1, <4>2, <1>12
    <3> QED
      BY <3>1, <3>2
  <2>3. A2 = [j \in 0 .. K + B |-> A2[j]] /\ F2 = [j \in 0 .. K + B |-> F2[j]]
    BY DEF A2, F2
  <2> QED
    BY <2>2, <2>3
<1> HIDE DEF A2, F2
<1>7. A2[K + B] = A[K] + m * p /\ F2[K + B] = F[K] + m * c
  BY <1>5
<1>8. \A j \in 0 .. K + B : A2[j] <= A2[K + B] /\ F2[j] <= F2[K + B]
  <2>1. SUFFICES ASSUME NEW j \in 0 .. K + B PROVE A2[j] <= A2[K + B] /\ F2[j] <= F2[K + B]
    OBVIOUS
  <2>2. m * p \in Nat /\ m * c \in Nat
    BY <1>1, Products
  <2> DEFINE x == m * p  y == m * c
  <2> HIDE DEF x, y
  <2>5. x \in Nat /\ y \in Nat /\ A2[K + B] = A[K] + x /\ F2[K + B] = F[K] + y
    BY <2>2, <1>7 DEF x, y
  <2>3. CASE j <= K
    <3>1. j \in 0 .. K /\ A2[j] = A[j] /\ F2[j] = F[j]
      BY <2>3, <1>4
    <3> QED
      BY <3>1, <2>5, <1>12, <1>13
  <2>4. CASE j > K
    <3> DEFINE o == Off(m, j - K)  u == o * p  v == o * c
    <3>1. o \in 0 .. m /\ A2[j] = A[K] + u /\ F2[j] = F[K] + v
      BY <2>4, <1>4, <1>16
    <3> HIDE DEF o
    <3>2. u \in Nat /\ v \in Nat /\ u <= x /\ v <= y
      BY <3>1, <1>3 DEF x, y
    <3> HIDE DEF u, v
    <3> QED
      BY <3>1, <3>2, <2>5, <1>12
  <2> QED
    BY <2>3, <2>4
<1>9. A2[0] = 0 /\ F2[0] = 0
  <2>1. 0 \in 0 .. K + B /\ 0 <= K
    OBVIOUS
  <2> QED
    BY <2>1, <1>13, <1>4
<1>10. ASSUME NEW j \in 0 .. K + B - 1
       PROVE  IsBatch(sel2[j], A2[j], F2[j], A2[j + 1], F2[j + 1], st2, src)
  <2>1. CASE j < K
    <3>1. j \in 0 .. K - 1 /\ j \in 0 .. K + B /\ j + 1 \in 0 .. K + B /\ j + 1 <= K
      BY <2>1
    <3>2. sel2[j] = sel[j] /\ A2[j] = A[j] /\ F2[j] = F[j] /\ A2[j + 1] = A[j + 1] /\ F2[j + 1] = F[j + 1]
      BY <3>1, <1>4, <1>17
    <3> QED
      BY <3>1, <3>2, <1>2, BatchStays
  <2>2. CASE ~(j < K)
    <3> DEFINE i == j - K  o == Off(m, i)  s == S[i]
    <3>1. i \in 0 .. B - 1 /\ i \in Nat /\ i + 1 \in 0 .. B /\ i \in 0 .. B /\ j = K + i /\ j + 1 = K + (i + 1)
      BY <2>2
    <3> HIDE DEF i
    <3>2. o \in 0 .. m /\ s \in 1 .. 16 /\ o + s = Off(m, i + 1) /\ o + s <= m
      <4>1. Off(m, i + 1) \in 0 .. m /\ Off(m, i) \in 0 .. m
        BY <3>1, <1>16
      <4> QED
        BY <3>1, <4>1, <1>14
    <3>3. /\ A2[j] = A[K] + o * p /\ F2[j] = F[K] + o * c
          /\ A2[j + 1] = A[K] + (o + s) * p /\ F2[j + 1] = F[K] + (o + s) * c
          /\ sel2[j] = SelectorByte(w, s)
      BY <3>1, <3>2, <1>5, <1>17
    <3> HIDE DEF o, s
    <3>4. /\ (o + s) * p = o * p + s * p /\ (o + s) * c = o * c + s * c
          /\ o * p \in Nat /\ s * p \in Nat /\ o * c \in Nat /\ s * c \in Nat
          /\ o \in Nat /\ s \in Nat
      BY <3>2, <1>1, ProductOfSum
    <3> DEFINE u == o * p  v == o * c  u2 == s * p  v2 == s * c
    <3>5. /\ u \in Nat /\ v \in Nat /\ u2 \in Nat /\ v2 \in Nat
          /\ A2[j] = A[K] + u /\ F2[j] = F[K] + v
          /\ A2[j + 1] = A[K] + (u + u2) /\ F2[j + 1] = F[K] + (v + v2)
      BY <3>3, <3>4
    <3> HIDE DEF u, v, u2, v2
    <3>11. A2[j + 1] = A2[j] + u2 /\ F2[j + 1] = F2[j] + v2
      BY <3>5, <1>12
    <3>6. w # 128 => A2[j] % 16 = 0 /\ F2[j] % 4 = 0
      <4>1. SUFFICES ASSUME w # 128 PROVE A2[j] % 16 = 0 /\ F2[j] % 4 = 0
        OBVIOUS
      <4>2. u % 16 = 0 /\ v % 4 = 0
        <5>1. p % 16 = 0 /\ c % 4 = 0
          BY <4>1, <1>1
        <5> QED
          BY <5>1, <3>4, <1>1, MulOfMultiple DEF u, v
      <4>3. \A x, y \in Nat : x % 16 = 0 /\ y % 16 = 0 => (x + y) % 16 = 0
        OBVIOUS
      <4>4. \A x, y \in Nat : x % 4 = 0 /\ y % 4 = 0 => (x + y) % 4 = 0
        OBVIOUS
      <4>5. A[K] % 16 = 0 /\ F[K] % 4 = 0
        BY <4>1
      <4>6. (A[K] + u) % 16 = 0
        BY <4>2, <4>3, <4>5, <3>5, <1>12
      <4>7. (F[K] + v) % 4 = 0
        BY <4>2, <4>4, <4>5, <3>5, <1>12
      <4> QED
        BY <4>6, <4>7, <3>5
    <3>7. w # 0 => \A k \in 0 .. s - 1 :
              /\ A2[j] + k * p \in DOMAIN st2
              /\ st2[A2[j] + k * p] = [width |-> w, first |-> F2[j] + k * c]
      <4>1. SUFFICES ASSUME w # 0, NEW k \in 0 .. s - 1
                     PROVE  /\ A2[j] + k * p \in DOMAIN st2
                            /\ st2[A2[j] + k * p] = [width |-> w, first |-> F2[j] + k * c]
        OBVIOUS
      <4>2. o + k \in 0 .. m - 1 /\ k \in Nat
        BY <3>2, <3>4
      <4>3. (o + k) * p = o * p + k * p /\ (o + k) * c = o * c + k * c
            /\ k * p \in Nat /\ k * c \in Nat
        BY <4>2, <3>4, <1>1, ProductOfSum
      <4>4. /\ A[K] + (o + k) * p \in DOMAIN st2
            /\ st2[A[K] + (o + k) * p] = [width |-> w, first |-> F[K] + (o + k) * c]
        BY <4>1, <4>2 DEF p, c, StripesAt
      <4> DEFINE x == k * p  y == k * c
      <4> HIDE DEF x, y
      <4>6. /\ (o + k) * p = u + x /\ (o + k) * c = v + y /\ x \in Nat /\ y \in Nat
        BY <4>3 DEF x, y, u, v
      <4>5. A[K] + (u + x) = A2[j] + x /\ F[K] + (v + y) = F2[j] + y
        BY <4>6, <3>5, <1>12
      <4>7. /\ A2[j] + x \in DOMAIN st2
            /\ st2[A2[j] + x] = [width |-> w, first |-> F2[j] + y]
        BY <4>4, <4>5, <4>6
      <4> QED
        BY <4>7 DEF x, y
    <3>8. CoversRun(w, src, F2[j], v2)
      <4> DEFINE e == m * c
      <4>1. (o + s) * c <= e /\ e \in Nat
        <5>1. o + s \in 0 .. m
          BY <3>2
        <5> QED
          BY <5>1, <1>3
      <4>2. v + v2 <= e
        BY <4>1, <3>4 DEF v, v2
      <4>3. \A x \in F[K] .. F[K] + e - 1 : Covers(w, src[x])
        BY DEF c, CoversRun
      <4> HIDE DEF e
      <4>4. \A x \in F[K] + v .. F[K] + v + v2 - 1 : x \in F[K] .. F[K] + e - 1
        BY <4>1, <4>2, <3>5, <1>12
      <4> QED
        BY <4>3, <4>4, <3>5 DEF CoversRun
    <3>9. A2[j + 1] = A2[j] + s * BytesPerStripe(w) /\ F2[j + 1] = F2[j] + s * Ints(w)
      BY <3>11 DEF p, c, u2, v2
    <3>10. StripesAt(st2, A2[j], F2[j], w, s)
      BY <3>7 DEF p, c, StripesAt
    <3>12. CoversRun(w, src, F2[j], s * Ints(w))
      BY <3>8 DEF v2, c
    <3> QED
      BY <3>2, <3>3, <3>6, <3>9, <3>10, <3>12 DEF IsBatch
  <2> QED
    BY <2>1, <2>2
<1>11. Batched(A2, F2, sel2, K + B, st2, src)
  <2>1. \A j \in 0 .. K + B - 1 : IsBatch(sel2[j], A2[j], F2[j], A2[j + 1], F2[j + 1], st2, src)
    BY <1>10
  <2> DEFINE N == K + B
  <2>2. A2 \in [0 .. N -> Nat] /\ F2 \in [0 .. N -> Nat]
    BY <1>6
  <2>3. \A j \in 0 .. N : A2[j] <= A2[N] /\ F2[j] <= F2[N]
    BY <1>8
  <2>4. \A j \in 0 .. N - 1 : IsBatch(sel2[j], A2[j], F2[j], A2[j + 1], F2[j + 1], st2, src)
    BY <2>1
  <2> HIDE DEF N
  <2>5. Batched(A2, F2, sel2, N, st2, src)
    BY <1>9, <2>2, <2>3, <2>4, BatchedIntro
  <2> QED
    BY <2>5 DEF N
<1> QED
  BY <1>7, <1>11 DEF p, c

-----------------------------------------------------------------------------
(* The writing steps.                                                      *)

\* The selectors stand for the stripes written so far, which end where the
\* next run starts.
Written ==
    \E A, F : /\ Batched(A, F, length_buffer, keys, stripes, source)
              /\ A[keys] = destination /\ F[keys] = run

WriteInv ==
    /\ SourceOK
    /\ DOMAIN length_buffer = 0 .. n + Wastage - 1
    /\ run \in 0 .. n /\ keys \in 0 .. run
    /\ destination \in Nat /\ destination + keys <= 5 * run
    /\ \A a \in DOMAIN stripes : a \in Nat /\ a < destination
    /\ Written

\* What is left to write.
ToWrite ==
    /\ run < n /\ bits = length_buffer[run]
    /\ WholeStripes(length_buffer, n, run, n)
    /\ Covered(length_buffer, source, n, run)
    /\ destination % 16 = 0

NothingWritten == run = 0 /\ keys = 0 /\ destination = 0 /\ stripes = <<>>

\* Whole stripes do not depend on what lies before them in the buffer.
LEMMA StripesAgree ==
    ASSUME n \in Nat, NEW r \in 0 .. n, NEW b, WholeStripes(b, n, r, n),
           NEW f, \A i \in r .. n - 1 : f[i] = b[i]
    PROVE  WholeStripes(f, n, r, n)
<1>1. PICK S : Cut(b, n, r, n, S)
  BY DEF WholeStripes
<1>2. ASSUME NEW s \in S
      PROVE  IsStripe(f, n, s, n) /\ s + Ints(f[s]) \in S \cup {n}
  <2>1. /\ s \in r .. n - 1 /\ IsStripe(b, n, s, n) /\ s + Ints(b[s]) \in S \cup {n}
        /\ S \subseteq r .. n - 1
    BY <1>1 DEF Cut
  <2>2. f[s] = b[s] /\ Ints(b[s]) \in Nat
    BY <2>1, StripeFacts DEF IsStripe
  <2> DEFINE e == s + Ints(b[s])
  <2>3. e <= n
    BY <2>1, <2>2
  <2>4. \A i \in s .. e - 1 : f[i] = b[i]
    BY <2>1, <2>2, <2>3
  <2>5. \A i \in s .. n - 1 : f[i] = b[i]
    BY <2>1
  <2> QED
    BY <2>1, <2>2, <2>4, <2>5 DEF IsStripe
<1>3. Cut(f, n, r, n, S)
  BY <1>1, <1>2 DEF Cut
<1> QED
  BY <1>3 DEF WholeStripes

\* Where writing starts nothing is written and the plan is complete.
LEMMA StartWritingKeeps ==
    ASSUME PlanInv, NothingWritten, StartWriting
    PROVE  WriteInv' /\ ToWrite'
<1>1. /\ run' = 0 /\ keys' = 0 /\ destination' = 0 /\ stripes' = <<>> /\ bits' = length_buffer[0]
      /\ length_buffer' = length_buffer /\ source' = source /\ pos = n
  BY DEF NothingWritten, StartWriting
<1>2. SourceOK' /\ n' = n /\ n \in Nat \ {0}
  BY <1>1, SourceStays DEF PlanInv, SourceOK
<1>3. /\ DOMAIN length_buffer = 0 .. n + Wastage - 1
      /\ Covered(length_buffer, source, n, 0)
      /\ WholeStripes(length_buffer, n, 0, n)
  BY <1>1 DEF PlanInv, WidthsFrom
<1> DEFINE A == [j \in 0 .. 0 |-> 0]
<1>4. Batched(A, A, length_buffer, 0, <<>>, source) /\ A[0] = 0
  BY DEF Batched
<1>5. Written'
  BY <1>1, <1>4 DEF Written
<1>6. DOMAIN stripes' = {}
  BY <1>1
<1>7. WriteInv'
  BY <1>1, <1>2, <1>3, <1>5, <1>6 DEF WriteInv
<1>8. ToWrite'
  BY <1>1, <1>2, <1>3 DEF ToWrite
<1> QED
  BY <1>7, <1>8

\* A run ends before the first width that is another.
LEMMA RunEndFinds ==
    ASSUME n \in Nat, run \in 0 .. n - 1, bits = length_buffer[run]
    PROVE  /\ RunEnd \in run + 1 .. n
           /\ \A i \in run .. RunEnd - 1 : length_buffer[i] = bits
           /\ RunEnd < n => length_buffer[RunEnd] # bits
<1> DEFINE S == {n} \cup {i \in run + 1 .. n - 1 : length_buffer[i] # bits}
<1>1. S \in SUBSET Nat /\ n \in S
  OBVIOUS
<1>2. RunEnd \in S /\ \A i \in S : RunEnd <= i
  BY <1>1, MinIsLeast DEF RunEnd
<1>3. RunEnd \in run + 1 .. n
  BY <1>2
<1>4. ASSUME NEW i \in run .. RunEnd - 1 PROVE length_buffer[i] = bits
  <2>1. i = run \/ i \in run + 1 .. n - 1
    BY <1>3
  <2>2. i \notin S
    BY <1>2, <1>3
  <2> QED
    BY <2>1, <2>2
<1> QED
  BY <1>2, <1>3, <1>4

\* One call of write_out keeps the batches of all the selectors so far: its own go over widths
\* that are not read again.
LEMMA WriteRunKeeps ==
    ASSUME WriteInv, ToWrite, WriteRun
    PROVE  /\ WriteInv' /\ run' > run
           /\ IF run' < n THEN phase' = "write" /\ ToWrite'
              ELSE phase' = "selectors" /\ run' = n
<1> DEFINE end == RunEnd  w == bits  c == Ints(w)  p == BytesPerStripe(w)
           raw == end - run  B == Batches(raw, w)
<1>1. /\ phase = "write" /\ run' = end /\ WriteOut(run, raw, w)
      /\ IF end < n THEN bits' = length_buffer[end] /\ phase' = "write"
         ELSE phase' = "selectors"
      /\ source' = source
  BY DEF WriteRun
<1>2. /\ SourceOK /\ n \in Nat \ {0} /\ Wastage \in Nat
      /\ run \in 0 .. n - 1 /\ run \in Nat /\ keys \in 0 .. run /\ destination \in Nat
      /\ destination + keys <= 5 * run /\ destination % 16 = 0
      /\ bits = length_buffer[run]
      /\ DOMAIN length_buffer = 0 .. n + Wastage - 1
      /\ \A a \in DOMAIN stripes : a \in Nat /\ a < destination
      /\ WholeStripes(length_buffer, n, run, n)
      /\ Covered(length_buffer, source, n, run)
  BY WastageAssumption DEF WriteInv, ToWrite, SourceOK
<1>3. /\ end \in run + 1 .. n
      /\ \A i \in run .. end - 1 : length_buffer[i] = bits
      /\ end < n => length_buffer[end] # bits
  BY <1>2, RunEndFinds
<1>4. SourceOK' /\ n' = n
  BY <1>1, <1>2, SourceStays
<1>5. /\ w \in AllWidths
      /\ \E m \in Nat \ {0} : raw = m * Ints(w)
      /\ WholeStripes(length_buffer, n, end, n)
      /\ w # 128 => run % 4 = 0
      /\ w = 128 => end = n
  BY <1>2, <1>3, RunIsStripes
<1> HIDE DEF end, w
<1>6. PICK m \in Nat \ {0} : raw = m * Ints(w)
  BY <1>5
<1>7. /\ StripesIn(raw, w) = m /\ RunBytes(raw, w) = m * p
      /\ B \in 1 .. m /\ Off(m, 0) = 0 /\ Off(m, B) = m
      /\ \A i \in Nat : Off(m, i) \in 0 .. m
      /\ \A i \in 0 .. B - 1 : Batch(raw, w, i) \in 1 .. 16
                               /\ Off(m, i) + Batch(raw, w, i) = Off(m, i + 1)
  <2> HIDE DEF raw
  <2>1. w \in AllWidths
    BY <1>5
  <2> QED
    BY <1>6, <2>1, BatchesOf
<1>8. /\ c \in Nat \ {0} /\ p \in Nat /\ p <= 4 * c /\ (w # 128 => p % 16 = 0)
      /\ (w # 0 => p # 0)
  <2>1. /\ Ints(w) \in 1 .. 256 /\ BytesPerStripe(w) \in 0 .. 32
        /\ BytesPerStripe(w) <= 4 * Ints(w)
        /\ w # 128 => BytesPerStripe(w) % 16 = 0
        /\ BytesPerStripe(w) = 0 <=> w = 0
    BY <1>5, StripeFacts
  <2> QED
    BY <2>1
<1>9. /\ stripes' = [a \in DOMAIN stripes \cup
                        {destination + k * p : k \in IF w = 0 THEN {} ELSE 0 .. m - 1} |->
                        IF a \in DOMAIN stripes THEN stripes[a]
                        ELSE [width |-> w, first |-> run + ((a - destination) \div p) * c]]
      /\ destination' = destination + m * p
      /\ length_buffer' = [i \in DOMAIN length_buffer |->
                             IF i \in keys .. keys + B - 1
                             THEN SelectorByte(w, Batch(raw, w, i - keys))
                             ELSE length_buffer[i]]
      /\ keys' = keys + B
  BY <1>1, <1>7 DEF WriteOut
<1> DEFINE mp == m * p  mc == m * c
<1>10. /\ mp \in Nat /\ mc \in Nat /\ mp <= 4 * mc /\ m <= mc
  <2>1. m * p \in Nat /\ m * c \in Nat /\ m * (4 * c) = 4 * (m * c) /\ m <= m * c
    BY <1>8
  <2>2. m * p <= m * (4 * c)
    BY <1>8
  <2> QED
    BY <2>1, <2>2
<1> HIDE DEF B, raw, c, p
<1>11. raw = mc /\ raw = end - run
  BY <1>6 DEF c, raw
<1> HIDE DEF mp, mc
<1>12. keys + B <= end /\ keys + B \in Nat /\ end = run + mc
  BY <1>2, <1>3, <1>7, <1>10, <1>11
<1>13. /\ destination' \in Nat /\ destination <= destination'
       /\ destination' = destination + mp
       /\ destination' + keys' <= 5 * end /\ keys' \in 0 .. end
  <2>1. destination' = destination + mp
    BY <1>9 DEF mp
  <2> QED
    BY <2>1, <1>2, <1>3, <1>7, <1>9, <1>10, <1>12
<1>14. DOMAIN length_buffer' = 0 .. n + Wastage - 1
       /\ \A i \in 0 .. n - 1 : i >= end \/ i < keys => length_buffer'[i] = length_buffer[i]
  <2>1. DOMAIN length_buffer' = DOMAIN length_buffer
    BY <1>9
  <2>2. ASSUME NEW i \in 0 .. n - 1, i >= end \/ i < keys PROVE length_buffer'[i] = length_buffer[i]
    <3>2. i \in DOMAIN length_buffer
      BY <1>2
    <3>3. i \in Nat /\ keys \in Nat /\ B \in Nat /\ end \in Nat /\ keys + B <= end
      BY <1>2, <1>3, <1>7, <1>12
    <3>1. i \in DOMAIN length_buffer /\ i \notin keys .. keys + B - 1
      BY <3>2, <3>3, <2>2
    <3> QED
      BY <3>1, <1>9
  <2> QED
    BY <2>1, <2>2, <1>2
<1>15. /\ Extends(stripes', stripes)
       /\ \A a \in DOMAIN stripes' : a \in Nat /\ a < destination'
  <2>1. Extends(stripes', stripes)
    BY <1>9 DEF Extends
  <2>2. ASSUME NEW a \in DOMAIN stripes' PROVE a \in Nat /\ a < destination'
    <3>1. CASE a \in DOMAIN stripes
      BY <3>1, <1>2, <1>13
    <3>2. CASE a \notin DOMAIN stripes
      <4>1. PICK k \in 0 .. m - 1 : a = destination + k * p /\ w # 0
        BY <3>2, <1>9
      <4>2. (k + 1) * p = k * p + p /\ k * p \in Nat
        BY <1>8, ProductOfSum
      <4>3. (k + 1) * p <= m * p
        <5>1. k + 1 \in 0 .. m
          OBVIOUS
        <5> QED
          BY <5>1, <1>8, Products
      <4> DEFINE kp == k * p
      <4>4. a = destination + kp /\ kp \in Nat /\ kp + p <= mp
        BY <4>1, <4>2, <4>3 DEF mp
      <4> HIDE DEF kp
      <4> QED
        BY <4>1, <4>4, <1>2, <1>8, <1>10, <1>13
    <3> QED
      BY <3>1, <3>2
  <2> QED
    BY <2>1, <2>2
<1>16. StripesAt(stripes', destination, run, w, m)
  <2>1. SUFFICES ASSUME w # 0, NEW k \in 0 .. m - 1
                 PROVE  /\ destination + k * p \in DOMAIN stripes'
                        /\ stripes'[destination + k * p] = [width |-> w, first |-> run + k * c]
    BY DEF StripesAt, p, c
  <2> DEFINE a == destination + k * p
  <2>2. a \in DOMAIN stripes'
    BY <2>1, <1>9
  <2>3. k * p \in Nat /\ (k * p) \div p = k
    <3>1. p \in Nat \ {0} /\ k \in Nat
      BY <2>1, <1>8
    <3>2. 0 \in 0 .. p - 1 /\ p * k + 0 = k * p
      BY <3>1
    <3>3. (p * k + 0) \div p = k
      BY <3>1, <3>2, DivUnique
    <3> QED
      BY <3>1, <3>2, <3>3
  <2>4. a - destination = k * p /\ a \notin DOMAIN stripes
    <3> DEFINE kp == k * p
    <3> HIDE DEF kp
    <3>1. kp \in Nat
      BY <2>3 DEF kp
    <3>2. (destination + kp) - destination = kp /\ ~(destination + kp < destination)
      BY <3>1, <1>2
    <3> QED
      BY <3>2, <1>2 DEF kp
  <2> HIDE DEF a
  <2>5. stripes'[a] = [width |-> w, first |-> run + ((a - destination) \div p) * c]
    BY <2>2, <2>4, <1>9
  <2> QED
    BY <2>2, <2>3, <2>4, <2>5 DEF a
<1>17. CoversRun(w, source, run, mc)
  <2>1. SUFFICES ASSUME NEW i \in run .. run + mc - 1 PROVE Covers(w, source[i])
    BY DEF CoversRun
  <2>2. i \in run .. end - 1 /\ i \in run .. n - 1
    BY <1>2, <1>3, <1>10, <1>12
  <2>3. length_buffer[i] = w
    BY <2>2, <1>3 DEF w
  <2> QED
    BY <2>2, <2>3, <1>2 DEF Covered
<1>18. Written'
  <2>1. PICK A, F : /\ Batched(A, F, length_buffer, keys, stripes, source)
                    /\ A[keys] = destination /\ F[keys] = run
    BY DEF WriteInv, Written
  <2> DEFINE S == [i \in 0 .. B - 1 |-> Batch(raw, w, i)]
  <2>2. \A i \in 0 .. B - 1 : S[i] \in 1 .. 16 /\ Off(m, i) + S[i] = Off(m, i + 1)
    BY <1>7
  <2>3. \A j \in 0 .. keys - 1 : length_buffer'[j] = length_buffer[j]
    BY <1>2, <1>14
  <2>4. \A i \in 0 .. B - 1 : length_buffer'[keys + i] = SelectorByte(w, S[i])
    <3>1. SUFFICES ASSUME NEW i \in 0 .. B - 1
                   PROVE  length_buffer'[keys + i] = SelectorByte(w, Batch(raw, w, i))
      OBVIOUS
    <3>2. keys + i \in DOMAIN length_buffer /\ keys + i \in keys .. keys + B - 1 /\ (keys + i) - keys = i
      BY <1>2, <1>3, <1>7, <1>12
    <3> QED
      BY <3>2, <1>9
  <2> HIDE DEF S
  <2>5. w # 128 => A[keys] % 16 = 0 /\ F[keys] % 4 = 0
    BY <2>1, <1>2, <1>5
  <2>6. keys \in Nat /\ B \in Nat \ {0}
    BY <1>2, <1>7
  <2>7. StripesAt(stripes', A[keys], F[keys], w, m) /\ CoversRun(w, source, F[keys], m * Ints(w))
    BY <2>1, <1>16, <1>17 DEF mc, c
  <2>8. \E A2, F2 : /\ Batched(A2, F2, length_buffer', keys + B, stripes', source)
                    /\ A2[keys + B] = A[keys] + m * BytesPerStripe(w)
                    /\ F2[keys + B] = F[keys] + m * Ints(w)
    <3>1. Batched(A, F, length_buffer, keys, stripes, source)
      BY <2>1
    <3>2. Batching(m, B, S)
      BY <1>7, <2>2, <2>6 DEF Batching
    <3>3. w \in AllWidths /\ Extends(stripes', stripes)
      BY <1>5, <1>15
    <3>4. SelectorsAfter(length_buffer', length_buffer, keys, w, B, S)
      BY <2>3, <2>4 DEF SelectorsAfter
    <3> QED
      BY <3>1, <3>2, <3>3, <3>4, <2>5, <2>6, <2>7, AppendBatches
  <2>9. destination' = A[keys] + m * BytesPerStripe(w) /\ run' = F[keys] + m * Ints(w)
    BY <2>1, <1>1, <1>9, <1>12 DEF p, mc, c
  <2> QED
    BY <2>8, <2>9, <1>1, <1>9 DEF Written
<1>19. WriteInv'
  BY <1>1, <1>2, <1>3, <1>4, <1>13, <1>14, <1>15, <1>18 DEF WriteInv
<1>20. ASSUME end < n PROVE ToWrite'
  <2>1. run' = end /\ bits' = length_buffer'[end]
    BY <1>1, <1>3, <1>14, <1>20, <1>2
  <2>2. WholeStripes(length_buffer', n, end, n)
    BY <1>2, <1>3, <1>5, <1>14, StripesAgree
  <2>3. Covered(length_buffer', source, n, end)
    BY <1>2, <1>3, <1>14 DEF Covered
  <2>4. destination' % 16 = 0
    <3>1. w # 128
      BY <1>3, <1>5, <1>20
    <3>2. mp % 16 = 0
      BY <3>1, <1>8, MulOfMultiple DEF mp
    <3> QED
      BY <3>2, <1>2, <1>10, <1>13
  <2> QED
    BY <2>1, <2>2, <2>3, <2>4, <1>1, <1>4, <1>20 DEF ToWrite
<1> QED
  BY <1>1, <1>2, <1>3, <1>19, <1>20

-----------------------------------------------------------------------------
(* The cases of the switch.                                                *)

\* The widths below each width, counted.
LEMMA Types ==
    /\ Type(0) = 0 /\ Type(1) = 1 /\ Type(2) = 2 /\ Type(3) = 3
    /\ Type(4) = 4 /\ Type(5) = 5 /\ Type(6) = 6 /\ Type(7) = 7
    /\ Type(8) = 8 /\ Type(9) = 9 /\ Type(10) = 10 /\ Type(12) = 11
    /\ Type(16) = 12 /\ Type(21) = 13 /\ Type(32) = 14 /\ Type(128) = 15
<1> DEFINE Below(w) == {x \in Widths : x < w}
<1>1. ASSUME NEW w, NEW x, IsFiniteSet(Below(w)), w \notin Below(w), Below(x) = Below(w) \cup {w}
      PROVE  IsFiniteSet(Below(x)) /\ Cardinality(Below(x)) = Cardinality(Below(w)) + 1
  BY <1>1, FS_AddElement
<1>2. IsFiniteSet(Below(0)) /\ Cardinality(Below(0)) = 0
  <2>1. Below(0) = {}
    BY DEF Widths
  <2> QED
    BY <2>1, FS_EmptySet
<1>3. /\ Below(1) = Below(0) \cup {0} /\ Below(2) = Below(1) \cup {1}
      /\ Below(3) = Below(2) \cup {2} /\ Below(4) = Below(3) \cup {3}
      /\ Below(5) = Below(4) \cup {4} /\ Below(6) = Below(5) \cup {5}
      /\ Below(7) = Below(6) \cup {6} /\ Below(8) = Below(7) \cup {7}
  BY DEF Widths
<1>4. /\ Below(9) = Below(8) \cup {8} /\ Below(10) = Below(9) \cup {9}
      /\ Below(12) = Below(10) \cup {10} /\ Below(16) = Below(12) \cup {12}
      /\ Below(21) = Below(16) \cup {16} /\ Below(32) = Below(21) \cup {21}
      /\ Below(128) = Below(32) \cup {32}
  BY DEF Widths
<1>5. \A w \in Nat : w \notin Below(w)
  OBVIOUS
<1> HIDE DEF Below
<1>6. IsFiniteSet(Below(1)) /\ Cardinality(Below(1)) = 1
  BY <1>1, <1>2, <1>3, <1>5
<1>7. IsFiniteSet(Below(2)) /\ Cardinality(Below(2)) = 2
  BY <1>1, <1>6, <1>3, <1>5
<1>8. IsFiniteSet(Below(3)) /\ Cardinality(Below(3)) = 3
  BY <1>1, <1>7, <1>3, <1>5
<1>9. IsFiniteSet(Below(4)) /\ Cardinality(Below(4)) = 4
  BY <1>1, <1>8, <1>3, <1>5
<1>10. IsFiniteSet(Below(5)) /\ Cardinality(Below(5)) = 5
  BY <1>1, <1>9, <1>3, <1>5
<1>11. IsFiniteSet(Below(6)) /\ Cardinality(Below(6)) = 6
  BY <1>1, <1>10, <1>3, <1>5
<1>12. IsFiniteSet(Below(7)) /\ Cardinality(Below(7)) = 7
  BY <1>1, <1>11, <1>3, <1>5
<1>13. IsFiniteSet(Below(8)) /\ Cardinality(Below(8)) = 8
  BY <1>1, <1>12, <1>3, <1>5
<1>14. IsFiniteSet(Below(9)) /\ Cardinality(Below(9)) = 9
  BY <1>1, <1>13, <1>4, <1>5
<1>15. IsFiniteSet(Below(10)) /\ Cardinality(Below(10)) = 10
  BY <1>1, <1>14, <1>4, <1>5
<1>16. IsFiniteSet(Below(12)) /\ Cardinality(Below(12)) = 11
  BY <1>1, <1>15, <1>4, <1>5
<1>17. IsFiniteSet(Below(16)) /\ Cardinality(Below(16)) = 12
  BY <1>1, <1>16, <1>4, <1>5
<1>18. IsFiniteSet(Below(21)) /\ Cardinality(Below(21)) = 13
  BY <1>1, <1>17, <1>4, <1>5
<1>19. IsFiniteSet(Below(32)) /\ Cardinality(Below(32)) = 14
  BY <1>1, <1>18, <1>4, <1>5
<1>20. IsFiniteSet(Below(128)) /\ Cardinality(Below(128)) = 15
  BY <1>1, <1>19, <1>4, <1>5
<1>21. \A w \in Nat : Type(w) = Cardinality(Below(w))
  BY DEF Type, Below
<1> QED
  BY <1>21, <1>2, <1>6, <1>7, <1>8, <1>9, <1>10, <1>11, <1>12, <1>13, <1>14, <1>15, <1>16,
     <1>17, <1>18, <1>19, <1>20

\* The case of a selector unpacks the stripes the selector was written for
\* and moves both pointers by just these.
CaseIsRight(w) ==
    \A b \in 1 .. 16 : DecodeSwitch[Type(w) * 16 + (16 - b) + 1]
                          = Unrolled(w, b, b * BytesPerStripe(w), b * Ints(w))

\* The sixteen cases of width 0.
LEMMA Case0IsRight ==
    CaseIsRight(0)
<1>1. /\ DecodeSwitch[1] = Case0x00 /\ DecodeSwitch[2] = Case0x01
      /\ DecodeSwitch[3] = Case0x02 /\ DecodeSwitch[4] = Case0x03
      /\ DecodeSwitch[5] = Case0x04 /\ DecodeSwitch[6] = Case0x05
      /\ DecodeSwitch[7] = Case0x06 /\ DecodeSwitch[8] = Case0x07
      /\ DecodeSwitch[9] = Case0x08 /\ DecodeSwitch[10] = Case0x09
      /\ DecodeSwitch[11] = Case0x0a /\ DecodeSwitch[12] = Case0x0b
      /\ DecodeSwitch[13] = Case0x0c /\ DecodeSwitch[14] = Case0x0d
      /\ DecodeSwitch[15] = Case0x0e /\ DecodeSwitch[16] = Case0x0f
  BY DEF DecodeSwitch
<1>2. Ints(0) = 256 /\ BytesPerStripe(0) = 0 /\ Type(0) = 0
  BY StripeSizes, Types DEF BytesPerStripe
<1> QED
  BY <1>1, <1>2
  DEF CaseIsRight, Unrolled, Case0x00, Case0x01, Case0x02, Case0x03, Case0x04, Case0x05, Case0x06, Case0x07,
       Case0x08, Case0x09, Case0x0a, Case0x0b, Case0x0c, Case0x0d, Case0x0e, Case0x0f

\* The sixteen cases of width 1.
LEMMA Case1IsRight ==
    CaseIsRight(1)
<1>1. /\ DecodeSwitch[17] = Case0x10 /\ DecodeSwitch[18] = Case0x11
      /\ DecodeSwitch[19] = Case0x12 /\ DecodeSwitch[20] = Case0x13
      /\ DecodeSwitch[21] = Case0x14 /\ DecodeSwitch[22] = Case0x15
      /\ DecodeSwitch[23] = Case0x16 /\ DecodeSwitch[24] = Case0x17
      /\ DecodeSwitch[25] = Case0x18 /\ DecodeSwitch[26] = Case0x19
      /\ DecodeSwitch[27] = Case0x1a /\ DecodeSwitch[28] = Case0x1b
      /\ DecodeSwitch[29] = Case0x1c /\ DecodeSwitch[30] = Case0x1d
      /\ DecodeSwitch[31] = Case0x1e /\ DecodeSwitch[32] = Case0x1f
  BY DEF DecodeSwitch
<1>2. Ints(1) = 128 /\ BytesPerStripe(1) = 16 /\ Type(1) = 1
  BY StripeSizes, Types DEF BytesPerStripe
<1> QED
  BY <1>1, <1>2
  DEF CaseIsRight, Unrolled, Case0x10, Case0x11, Case0x12, Case0x13, Case0x14, Case0x15, Case0x16, Case0x17,
       Case0x18, Case0x19, Case0x1a, Case0x1b, Case0x1c, Case0x1d, Case0x1e, Case0x1f

\* The sixteen cases of width 2.
LEMMA Case2IsRight ==
    CaseIsRight(2)
<1>1. /\ DecodeSwitch[33] = Case0x20 /\ DecodeSwitch[34] = Case0x21
      /\ DecodeSwitch[35] = Case0x22 /\ DecodeSwitch[36] = Case0x23
      /\ DecodeSwitch[37] = Case0x24 /\ DecodeSwitch[38] = Case0x25
      /\ DecodeSwitch[39] = Case0x26 /\ DecodeSwitch[40] = Case0x27
      /\ DecodeSwitch[41] = Case0x28 /\ DecodeSwitch[42] = Case0x29
      /\ DecodeSwitch[43] = Case0x2a /\ DecodeSwitch[44] = Case0x2b
      /\ DecodeSwitch[45] = Case0x2c /\ DecodeSwitch[46] = Case0x2d
      /\ DecodeSwitch[47] = Case0x2e /\ DecodeSwitch[48] = Case0x2f
  BY DEF DecodeSwitch
<1>2. Ints(2) = 64 /\ BytesPerStripe(2) = 16 /\ Type(2) = 2
  BY StripeSizes, Types DEF BytesPerStripe
<1> QED
  BY <1>1, <1>2
  DEF CaseIsRight, Unrolled, Case0x20, Case0x21, Case0x22, Case0x23, Case0x24, Case0x25, Case0x26, Case0x27,
       Case0x28, Case0x29, Case0x2a, Case0x2b, Case0x2c, Case0x2d, Case0x2e, Case0x2f

\* The sixteen cases of width 3.
LEMMA Case3IsRight ==
    CaseIsRight(3)
<1>1. /\ DecodeSwitch[49] = Case0x30 /\ DecodeSwitch[50] = Case0x31
      /\ DecodeSwitch[51] = Case0x32 /\ DecodeSwitch[52] = Case0x33
      /\ DecodeSwitch[53] = Case0x34 /\ DecodeSwitch[54] = Case0x35
      /\ DecodeSwitch[55] = Case0x36 /\ DecodeSwitch[56] = Case0x37
      /\ DecodeSwitch[57] = Case0x38 /\ DecodeSwitch[58] = Case0x39
      /\ DecodeSwitch[59] = Case0x3a /\ DecodeSwitch[60] = Case0x3b
      /\ DecodeSwitch[61] = Case0x3c /\ DecodeSwitch[62] = Case0x3d
      /\ DecodeSwitch[63] = Case0x3e /\ DecodeSwitch[64] = Case0x3f
  BY DEF DecodeSwitch
<1>2. Ints(3) = 40 /\ BytesPerStripe(3) = 16 /\ Type(3) = 3
  BY StripeSizes, Types DEF BytesPerStripe
<1> QED
  BY <1>1, <1>2
  DEF CaseIsRight, Unrolled, Case0x30, Case0x31, Case0x32, Case0x33, Case0x34, Case0x35, Case0x36, Case0x37,
       Case0x38, Case0x39, Case0x3a, Case0x3b, Case0x3c, Case0x3d, Case0x3e, Case0x3f

\* The sixteen cases of width 4.
LEMMA Case4IsRight ==
    CaseIsRight(4)
<1>1. /\ DecodeSwitch[65] = Case0x40 /\ DecodeSwitch[66] = Case0x41
      /\ DecodeSwitch[67] = Case0x42 /\ DecodeSwitch[68] = Case0x43
      /\ DecodeSwitch[69] = Case0x44 /\ DecodeSwitch[70] = Case0x45
      /\ DecodeSwitch[71] = Case0x46 /\ DecodeSwitch[72] = Case0x47
      /\ DecodeSwitch[73] = Case0x48 /\ DecodeSwitch[74] = Case0x49
      /\ DecodeSwitch[75] = Case0x4a /\ DecodeSwitch[76] = Case0x4b
      /\ DecodeSwitch[77] = Case0x4c /\ DecodeSwitch[78] = Case0x4d
      /\ DecodeSwitch[79] = Case0x4e /\ DecodeSwitch[80] = Case0x4f
  BY DEF DecodeSwitch
<1>2. Ints(4) = 32 /\ BytesPerStripe(4) = 16 /\ Type(4) = 4
  BY StripeSizes, Types DEF BytesPerStripe
<1> QED
  BY <1>1, <1>2
  DEF CaseIsRight, Unrolled, Case0x40, Case0x41, Case0x42, Case0x43, Case0x44, Case0x45, Case0x46, Case0x47,
       Case0x48, Case0x49, Case0x4a, Case0x4b, Case0x4c, Case0x4d, Case0x4e, Case0x4f

\* The sixteen cases of width 5.
LEMMA Case5IsRight ==
    CaseIsRight(5)
<1>1. /\ DecodeSwitch[81] = Case0x50 /\ DecodeSwitch[82] = Case0x51
      /\ DecodeSwitch[83] = Case0x52 /\ DecodeSwitch[84] = Case0x53
      /\ DecodeSwitch[85] = Case0x54 /\ DecodeSwitch[86] = Case0x55
      /\ DecodeSwitch[87] = Case0x56 /\ DecodeSwitch[88] = Case0x57
      /\ DecodeSwitch[89] = Case0x58 /\ DecodeSwitch[90] = Case0x59
      /\ DecodeSwitch[91] = Case0x5a /\ DecodeSwitch[92] = Case0x5b
      /\ DecodeSwitch[93] = Case0x5c /\ DecodeSwitch[94] = Case0x5d
      /\ DecodeSwitch[95] = Case0x5e /\ DecodeSwitch[96] = Case0x5f
  BY DEF DecodeSwitch
<1>2. Ints(5) = 24 /\ BytesPerStripe(5) = 16 /\ Type(5) = 5
  BY StripeSizes, Types DEF BytesPerStripe
<1> QED
  BY <1>1, <1>2
  DEF CaseIsRight, Unrolled, Case0x50, Case0x51, Case0x52, Case0x53, Case0x54, Case0x55, Case0x56, Case0x57,
       Case0x58, Case0x59, Case0x5a, Case0x5b, Case0x5c, Case0x5d, Case0x5e, Case0x5f

\* The sixteen cases of width 6.
LEMMA Case6IsRight ==
    CaseIsRight(6)
<1>1. /\ DecodeSwitch[97] = Case0x60 /\ DecodeSwitch[98] = Case0x61
      /\ DecodeSwitch[99] = Case0x62 /\ DecodeSwitch[100] = Case0x63
      /\ DecodeSwitch[101] = Case0x64 /\ DecodeSwitch[102] = Case0x65
      /\ DecodeSwitch[103] = Case0x66 /\ DecodeSwitch[104] = Case0x67
      /\ DecodeSwitch[105] = Case0x68 /\ DecodeSwitch[106] = Case0x69
      /\ DecodeSwitch[107] = Case0x6a /\ DecodeSwitch[108] = Case0x6b
      /\ DecodeSwitch[109] = Case0x6c /\ DecodeSwitch[110] = Case0x6d
      /\ DecodeSwitch[111] = Case0x6e /\ DecodeSwitch[112] = Case0x6f
  BY DEF DecodeSwitch
<1>2. Ints(6) = 20 /\ BytesPerStripe(6) = 16 /\ Type(6) = 6
  BY StripeSizes, Types DEF BytesPerStripe
<1> QED
  BY <1>1, <1>2
  DEF CaseIsRight, Unrolled, Case0x60, Case0x61, Case0x62, Case0x63, Case0x64, Case0x65, Case0x66, Case0x67,
       Case0x68, Case0x69, Case0x6a, Case0x6b, Case0x6c, Case0x6d, Case0x6e, Case0x6f

\* The sixteen cases of width 7.
LEMMA Case7IsRight ==
    CaseIsRight(7)
<1>1. /\ DecodeSwitch[113] = Case0x70 /\ DecodeSwitch[114] = Case0x71
      /\ DecodeSwitch[115] = Case0x72 /\ DecodeSwitch[116] = Case0x73
      /\ DecodeSwitch[117] = Case0x74 /\ DecodeSwitch[118] = Case0x75
      /\ DecodeSwitch[119] = Case0x76 /\ DecodeSwitch[120] = Case0x77
      /\ DecodeSwitch[121] = Case0x78 /\ DecodeSwitch[122] = Case0x79
      /\ DecodeSwitch[123] = Case0x7a /\ DecodeSwitch[124] = Case0x7b
      /\ DecodeSwitch[125] = Case0x7c /\ DecodeSwitch[126] = Case0x7d
      /\ DecodeSwitch[127] = Case0x7e /\ DecodeSwitch[128] = Case0x7f
  BY DEF DecodeSwitch
<1>2. Ints(7) = 36 /\ BytesPerStripe(7) = 32 /\ Type(7) = 7
  BY StripeSizes, Types DEF BytesPerStripe
<1> QED
  BY <1>1, <1>2
  DEF CaseIsRight, Unrolled, Case0x70, Case0x71, Case0x72, Case0x73, Case0x74, Case0x75, Case0x76, Case0x77,
       Case0x78, Case0x79, Case0x7a, Case0x7b, Case0x7c, Case0x7d, Case0x7e, Case0x7f

\* The sixteen cases of width 8.
LEMMA Case8IsRight ==
    CaseIsRight(8)
<1>1. /\ DecodeSwitch[129] = Case0x80 /\ DecodeSwitch[130] = Case0x81
      /\ DecodeSwitch[131] = Case0x82 /\ DecodeSwitch[132] = Case0x83
      /\ DecodeSwitch[133] = Case0x84 /\ DecodeSwitch[134] = Case0x85
      /\ DecodeSwitch[135] = Case0x86 /\ DecodeSwitch[136] = Case0x87
      /\ DecodeSwitch[137] = Case0x88 /\ DecodeSwitch[138] = Case0x89
      /\ DecodeSwitch[139] = Case0x8a /\ DecodeSwitch[140] = Case0x8b
      /\ DecodeSwitch[141] = Case0x8c /\ DecodeSwitch[142] = Case0x8d
      /\ DecodeSwitch[143] = Case0x8e /\ DecodeSwitch[144] = Case0x8f
  BY DEF DecodeSwitch
<1>2. Ints(8) = 16 /\ BytesPerStripe(8) = 16 /\ Type(8) = 8
  BY StripeSizes, Types DEF BytesPerStripe
<1> QED
  BY <1>1, <1>2
  DEF CaseIsRight, Unrolled, Case0x80, Case0x81, Case0x82, Case0x83, Case0x84, Case0x85, Case0x86, Case0x87,
       Case0x88, Case0x89, Case0x8a, Case0x8b, Case0x8c, Case0x8d, Case0x8e, Case0x8f

\* The sixteen cases of width 9.
LEMMA Case9IsRight ==
    CaseIsRight(9)
<1>1. /\ DecodeSwitch[145] = Case0x90 /\ DecodeSwitch[146] = Case0x91
      /\ DecodeSwitch[147] = Case0x92 /\ DecodeSwitch[148] = Case0x93
      /\ DecodeSwitch[149] = Case0x94 /\ DecodeSwitch[150] = Case0x95
      /\ DecodeSwitch[151] = Case0x96 /\ DecodeSwitch[152] = Case0x97
      /\ DecodeSwitch[153] = Case0x98 /\ DecodeSwitch[154] = Case0x99
      /\ DecodeSwitch[155] = Case0x9a /\ DecodeSwitch[156] = Case0x9b
      /\ DecodeSwitch[157] = Case0x9c /\ DecodeSwitch[158] = Case0x9d
      /\ DecodeSwitch[159] = Case0x9e /\ DecodeSwitch[160] = Case0x9f
  BY DEF DecodeSwitch
<1>2. Ints(9) = 28 /\ BytesPerStripe(9) = 32 /\ Type(9) = 9
  BY StripeSizes, Types DEF BytesPerStripe
<1> QED
  BY <1>1, <1>2
  DEF CaseIsRight, Unrolled, Case0x90, Case0x91, Case0x92, Case0x93, Case0x94, Case0x95, Case0x96, Case0x97,
       Case0x98, Case0x99, Case0x9a, Case0x9b, Case0x9c, Case0x9d, Case0x9e, Case0x9f

\* The sixteen cases of width 10.
LEMMA Case10IsRight ==
    CaseIsRight(10)
<1>1. /\ DecodeSwitch[161] = Case0xa0 /\ DecodeSwitch[162] = Case0xa1
      /\ DecodeSwitch[163] = Case0xa2 /\ DecodeSwitch[164] = Case0xa3
      /\ DecodeSwitch[165] = Case0xa4 /\ DecodeSwitch[166] = Case0xa5
      /\ DecodeSwitch[167] = Case0xa6 /\ DecodeSwitch[168] = Case0xa7
      /\ DecodeSwitch[169] = Case0xa8 /\ DecodeSwitch[170] = Case0xa9
      /\ DecodeSwitch[171] = Case0xaa /\ DecodeSwitch[172] = Case0xab
      /\ DecodeSwitch[173] = Case0xac /\ DecodeSwitch[174] = Case0xad
      /\ DecodeSwitch[175] = Case0xae /\ DecodeSwitch[176] = Case0xaf
  BY DEF DecodeSwitch
<1>2. Ints(10) = 12 /\ BytesPerStripe(10) = 16 /\ Type(10) = 10
  BY StripeSizes, Types DEF BytesPerStripe
<1> QED
  BY <1>1, <1>2
  DEF CaseIsRight, Unrolled, Case0xa0, Case0xa1, Case0xa2, Case0xa3, Case0xa4, Case0xa5, Case0xa6, Case0xa7,
       Case0xa8, Case0xa9, Case0xaa, Case0xab, Case0xac, Case0xad, Case0xae, Case0xaf

\* The sixteen cases of width 12.
LEMMA Case12IsRight ==
    CaseIsRight(12)
<1>1. /\ DecodeSwitch[177] = Case0xb0 /\ DecodeSwitch[178] = Case0xb1
      /\ DecodeSwitch[179] = Case0xb2 /\ DecodeSwitch[180] = Case0xb3
      /\ DecodeSwitch[181] = Case0xb4 /\ DecodeSwitch[182] = Case0xb5
      /\ DecodeSwitch[183] = Case0xb6 /\ DecodeSwitch[184] = Case0xb7
      /\ DecodeSwitch[185] = Case0xb8 /\ DecodeSwitch[186] = Case0xb9
      /\ DecodeSwitch[187] = Case0xba /\ DecodeSwitch[188] = Case0xbb
      /\ DecodeSwitch[189] = Case0xbc /\ DecodeSwitch[190] = Case0xbd
      /\ DecodeSwitch[191] = Case0xbe /\ DecodeSwitch[192] = Case0xbf
  BY DEF DecodeSwitch
<1>2. Ints(12) = 20 /\ BytesPerStripe(12) = 32 /\ Type(12) = 11
  BY StripeSizes, Types DEF BytesPerStripe
<1> QED
  BY <1>1, <1>2
  DEF CaseIsRight, Unrolled, Case0xb0, Case0xb1, Case0xb2, Case0xb3, Case0xb4, Case0xb5, Case0xb6, Case0xb7,
       Case0xb8, Case0xb9, Case0xba, Case0xbb, Case0xbc, Case0xbd, Case0xbe, Case0xbf

\* The sixteen cases of width 16.
LEMMA Case16IsRight ==
    CaseIsRight(16)
<1>1. /\ DecodeSwitch[193] = Case0xc0 /\ DecodeSwitch[194] = Case0xc1
      /\ DecodeSwitch[195] = Case0xc2 /\ DecodeSwitch[196] = Case0xc3
      /\ DecodeSwitch[197] = Case0xc4 /\ DecodeSwitch[198] = Case0xc5
      /\ DecodeSwitch[199] = Case0xc6 /\ DecodeSwitch[200] = Case0xc7
      /\ DecodeSwitch[201] = Case0xc8 /\ DecodeSwitch[202] = Case0xc9
      /\ DecodeSwitch[203] = Case0xca /\ DecodeSwitch[204] = Case0xcb
      /\ DecodeSwitch[205] = Case0xcc /\ DecodeSwitch[206] = Case0xcd
      /\ DecodeSwitch[207] = Case0xce /\ DecodeSwitch[208] = Case0xcf
  BY DEF DecodeSwitch
<1>2. Ints(16) = 8 /\ BytesPerStripe(16) = 16 /\ Type(16) = 12
  BY StripeSizes, Types DEF BytesPerStripe
<1> QED
  BY <1>1, <1>2
  DEF CaseIsRight, Unrolled, Case0xc0, Case0xc1, Case0xc2, Case0xc3, Case0xc4, Case0xc5, Case0xc6, Case0xc7,
       Case0xc8, Case0xc9, Case0xca, Case0xcb, Case0xcc, Case0xcd, Case0xce, Case0xcf

\* The sixteen cases of width 21.
LEMMA Case21IsRight ==
    CaseIsRight(21)
<1>1. /\ DecodeSwitch[209] = Case0xd0 /\ DecodeSwitch[210] = Case0xd1
      /\ DecodeSwitch[211] = Case0xd2 /\ DecodeSwitch[212] = Case0xd3
      /\ DecodeSwitch[213] = Case0xd4 /\ DecodeSwitch[214] = Case0xd5
      /\ DecodeSwitch[215] = Case0xd6 /\ DecodeSwitch[216] = Case0xd7
      /\ DecodeSwitch[217] = Case0xd8 /\ DecodeSwitch[218] = Case0xd9
      /\ DecodeSwitch[219] = Case0xda /\ DecodeSwitch[220] = Case0xdb
      /\ DecodeSwitch[221] = Case0xdc /\ DecodeSwitch[222] = Case0xdd
      /\ DecodeSwitch[223] = Case0xde /\ DecodeSwitch[224] = Case0xdf
  BY DEF DecodeSwitch
<1>2. Ints(21) = 12 /\ BytesPerStripe(21) = 32 /\ Type(21) = 13
  BY StripeSizes, Types DEF BytesPerStripe
<1> QED
  BY <1>1, <1>2
  DEF CaseIsRight, Unrolled, Case0xd0, Case0xd1, Case0xd2, Case0xd3, Case0xd4, Case0xd5, Case0xd6, Case0xd7,
       Case0xd8, Case0xd9, Case0xda, Case0xdb, Case0xdc, Case0xdd, Case0xde, Case0xdf

\* The sixteen cases of width 32.
LEMMA Case32IsRight ==
    CaseIsRight(32)
<1>1. /\ DecodeSwitch[225] = Case0xe0 /\ DecodeSwitch[226] = Case0xe1
      /\ DecodeSwitch[227] = Case0xe2 /\ DecodeSwitch[228] = Case0xe3
      /\ DecodeSwitch[229] = Case0xe4 /\ DecodeSwitch[230] = Case0xe5
      /\ DecodeSwitch[231] = Case0xe6 /\ DecodeSwitch[232] = Case0xe7
      /\ DecodeSwitch[233] = Case0xe8 /\ DecodeSwitch[234] = Case0xe9
      /\ DecodeSwitch[235] = Case0xea /\ DecodeSwitch[236] = Case0xeb
      /\ DecodeSwitch[237] = Case0xec /\ DecodeSwitch[238] = Case0xed
      /\ DecodeSwitch[239] = Case0xee /\ DecodeSwitch[240] = Case0xef
  BY DEF DecodeSwitch
<1>2. Ints(32) = 4 /\ BytesPerStripe(32) = 16 /\ Type(32) = 14
  BY StripeSizes, Types DEF BytesPerStripe
<1> QED
  BY <1>1, <1>2
  DEF CaseIsRight, Unrolled, Case0xe0, Case0xe1, Case0xe2, Case0xe3, Case0xe4, Case0xe5, Case0xe6, Case0xe7,
       Case0xe8, Case0xe9, Case0xea, Case0xeb, Case0xec, Case0xed, Case0xee, Case0xef

\* The sixteen cases of single words, each of which falls through to the next.
LEMMA Case128IsRight ==
    CaseIsRight(128)
<1>1. /\ DecodeSwitch[241] = Case0xf0 /\ DecodeSwitch[242] = Case0xf1
      /\ DecodeSwitch[243] = Case0xf2 /\ DecodeSwitch[244] = Case0xf3
      /\ DecodeSwitch[245] = Case0xf4 /\ DecodeSwitch[246] = Case0xf5
      /\ DecodeSwitch[247] = Case0xf6 /\ DecodeSwitch[248] = Case0xf7
      /\ DecodeSwitch[249] = Case0xf8 /\ DecodeSwitch[250] = Case0xf9
      /\ DecodeSwitch[251] = Case0xfa /\ DecodeSwitch[252] = Case0xfb
      /\ DecodeSwitch[253] = Case0xfc /\ DecodeSwitch[254] = Case0xfd
      /\ DecodeSwitch[255] = Case0xfe /\ DecodeSwitch[256] = Case0xff
  BY DEF DecodeSwitch
<1>2. Ints(128) = 1 /\ BytesPerStripe(128) = 4 /\ Type(128) = 15
  BY StripeSizes, Types DEF BytesPerStripe
<1> QED
  BY <1>1, <1>2
  DEF CaseIsRight, Unrolled, Case0xf0, Case0xf1, Case0xf2, Case0xf3, Case0xf4, Case0xf5, Case0xf6, Case0xf7,
       Case0xf8, Case0xf9, Case0xfa, Case0xfb, Case0xfc, Case0xfd, Case0xfe, Case0xff

\* The case of every selector that write_out can store unpacks the width and the number of
\* stripes it stands for, and moves both pointers past them.
LEMMA CasesAreRight ==
    ASSUME NEW w \in AllWidths, NEW b \in 1 .. 16
    PROVE  DecodeSwitch[SelectorByte(w, b) + 1]
              = Unrolled(w, b, b * BytesPerStripe(w), b * Ints(w))
<1>1. CaseIsRight(w)
  BY Case0IsRight, Case1IsRight, Case2IsRight, Case3IsRight, Case4IsRight, Case5IsRight,
     Case6IsRight, Case7IsRight, Case8IsRight, Case9IsRight, Case10IsRight, Case12IsRight,
     Case16IsRight, Case21IsRight, Case32IsRight, Case128IsRight DEF AllWidths, Widths
<1> QED
  BY <1>1 DEF CaseIsRight, SelectorByte

-----------------------------------------------------------------------------
(* The layout of a stripe.                                                 *)

\* A quotient is known from the range of its remainder.
LEMMA SameQuotient ==
    ASSUME NEW w \in Nat \ {0}, NEW g \in Nat, NEW h \in Nat, NEW x \in 0 .. w - 1,
           x + g * w - h * w \in 0 .. w - 1
    PROVE  g = h
<1>1. CASE g >= h + 1
  <2> DEFINE d == g - h - 1
  <2>1. d \in Nat /\ g = (h + 1) + d
    BY <1>1
  <2>2. d * w \in Nat /\ g * w = h * w + w + d * w
    BY <2>1
  <2> DEFINE a == g * w  e == h * w  f == d * w
  <2>3. a \in Nat /\ e \in Nat /\ f \in Nat /\ a = e + w + f /\ x + a - e \in 0 .. w - 1
    BY <2>2
  <2> HIDE DEF a, e, f
  <2> QED
    BY <2>3
<1>2. CASE h >= g + 1
  <2> DEFINE d == h - g - 1
  <2>1. d \in Nat /\ h = (g + 1) + d
    BY <1>2
  <2>2. d * w \in Nat /\ h * w = g * w + w + d * w
    BY <2>1
  <2> DEFINE a == g * w  e == h * w  f == d * w
  <2>3. a \in Nat /\ e \in Nat /\ f \in Nat /\ e = a + w + f /\ x + a - e \in 0 .. w - 1
    BY <2>2
  <2> HIDE DEF a, e, f
  <2> QED
    BY <2>3
<1> QED
  BY <1>1, <1>2

\* A bit shifted.
LEMMA ImageOfOne ==
    ASSUME NEW t, NEW y
    PROVE  {<<q[1], y - q[2]>> : q \in {t}} = {<<t[1], y - t[2]>>}
OBVIOUS

\* Values that start at group base of a register, packed one group behind the
\* other: what bit x of group g of lane l holds.
\* Position p of a register holds bit x of value v and nothing else.
Holds(register, p, v, x) == register[p] = {<<v, x>>}

PutAt(S, base, count, w, offset, rest, l, g, x, y, p, v) ==
    /\ w \in Nat \ {0} /\ base \in Nat /\ base % 4 = 0 /\ count \in Nat /\ offset \in Int
    /\ S = base .. base + 4 * count - 1
    /\ l \in 0 .. 3 /\ g \in 0 .. count - 1 /\ x \in 0 .. w - 1
    /\ y \in 0 .. 31 /\ y = offset + g * w + x /\ p = 32 * l + y
    /\ v = base + 4 * g + l
    /\ \A r \in rest : r[1] % 4 = l => y - r[2] \notin 0 .. w - 1

\* Where one value among those shifted into a register is found.
LEMMA PackedGroup ==
    ASSUME NEW S, NEW base, NEW count, NEW w, NEW offset, NEW rest, NEW l, NEW g, NEW x,
           NEW y, NEW p, NEW v, PutAt(S, base, count, w, offset, rest, l, g, x, y, p, v)
    PROVE  Holds(Packed(rest \cup ShiftedBy(S, base, w, offset), w), p, v, x)
<1>0. /\ w \in Nat \ {0} /\ base \in Nat /\ base % 4 = 0 /\ count \in Nat /\ offset \in Int
      /\ S = base .. base + 4 * count - 1
      /\ l \in 0 .. 3 /\ g \in 0 .. count - 1 /\ x \in 0 .. w - 1
      /\ y \in 0 .. 31 /\ y = offset + g * w + x /\ p = 32 * l + y
      /\ v = base + 4 * g + l
      /\ \A r \in rest : r[1] % 4 = l => y - r[2] \notin 0 .. w - 1
  BY DEF PutAt
<1>11. /\ w \in Nat \ {0} /\ base \in Nat /\ base % 4 = 0 /\ count \in Nat /\ offset \in Int
       /\ l \in 0 .. 3 /\ g \in Nat /\ x \in 0 .. w - 1 /\ y \in 0 .. 31
       /\ v = base + 4 * g + l
  BY <1>0
<1> DEFINE puts == rest \cup ShiftedBy(S, base, w, offset)
           a == g * w
<1>1. a \in Nat /\ y = offset + a + x
  BY <1>0
<1>2. p \in Bits /\ Lane(p) = l /\ p % 32 = y
  BY <1>0 DEF Bits, Lane
<1> HIDE DEF a
<1>3. <<v, a + offset>> \in puts /\ v % 4 = l
  <2>1. (v - base) \div 4 = g /\ v % 4 = l
    BY <1>11
  <2>2. v \in S
    BY <1>0
  <2> QED
    BY <2>1, <2>2 DEF ShiftedBy, a
<1>4. ASSUME NEW q \in puts, q[1] % 4 = l, y - q[2] \in 0 .. w - 1
      PROVE  q = <<v, a + offset>>
  <2>1. q \notin rest
    BY <1>0, <1>4
  <2>2. PICK u \in S : q = <<u, ((u - base) \div 4) * w + offset>>
    BY <2>1, <1>4 DEF ShiftedBy
  <2> DEFINE h == (u - base) \div 4  e == h * w
  <2>7. u \in Nat /\ u >= base /\ u % 4 = l
    BY <1>0, <1>4, <2>2
  <2>3. h \in Nat /\ u = base + 4 * h + l
    BY <1>11, <2>7
  <2>4. q[2] = e + offset /\ e \in Nat
    BY <1>11, <2>2, <2>3
  <2> HIDE DEF e
  <2>5. x + a - e \in 0 .. w - 1
    <3>1. y - (e + offset) \in 0 .. w - 1
      BY <1>4, <2>4
    <3> QED
      BY <3>1, <2>4, <1>1, <1>11
  <2>6. g = h
    <3> HIDE DEF h
    <3> QED
      BY <2>3, <2>5, <1>11, SameQuotient DEF a, e
  <2>8. u = v
    BY <2>3, <2>6, <1>11
  <2> QED
    BY <2>2, <2>8, <2>6 DEF a
<1>5. y - (a + offset) = x
  BY <1>1, <1>11
<1> DEFINE Here(q) == q[1] % 4 = l /\ y - q[2] \in 0 .. w - 1
<1>6. <<v, a + offset>> \in puts /\ Here(<<v, a + offset>>)
  BY <1>3, <1>5, <1>11
<1>7. \A q \in puts : Here(q) => q = <<v, a + offset>>
  BY <1>4
<1>8. Packed(puts, w)[p] = {<<q[1], y - q[2]>> : q \in {r \in puts : Here(r)}}
  BY <1>2 DEF Packed
<1> HIDE DEF puts, Here
<1>9. {r \in puts : Here(r)} = {<<v, a + offset>>}
  BY <1>6, <1>7
<1>10. Packed(puts, w)[p] = {<<v, y - (a + offset)>>}
  <2> DEFINE t == <<v, a + offset>>
  <2>1. t[1] = v /\ t[2] = a + offset
    OBVIOUS
  <2> HIDE DEF t
  <2>2. Packed(puts, w)[p] = {<<t[1], y - t[2]>>}
    BY <1>8, <1>9, ImageOfOne DEF t
  <2> QED
    BY <2>1, <2>2
<1> QED
  BY <1>5, <1>10 DEF puts, Holds


\* A store of four slots holds the values of its group and nothing else.
Slots(store, g, w) ==
    \A p \in Bits : store[p] = IF p % 32 < w THEN {<<4 * g + Lane(p), p % 32>>} ELSE {}

\* Where bit x of lane l is.
LEMMA BitAt ==
    ASSUME NEW p \in Bits
    PROVE  /\ Lane(p) \in 0 .. 3 /\ p % 32 \in 0 .. 31 /\ p % 64 \in 0 .. 63
           /\ p = 32 * Lane(p) + (p % 32)
           /\ p % 64 = p % 32 \/ p % 64 = 32 + (p % 32)
BY DEF Bits, Lane

\* Packed from the start of the register on.
FromStart(w, count) == Packed(ShiftedBy(0 .. 4 * count - 1, 0, w, 0), w)

AtStart(w, count, l, g, x, p) ==
    /\ w \in Nat \ {0} /\ count \in Nat
    /\ l \in 0 .. 3 /\ g \in 0 .. count - 1 /\ x \in 0 .. w - 1
    /\ g * w + x < 32 /\ p = 32 * l + (g * w + x)

\* The same for a register filled from its first bit.
LEMMA PackedFromStart ==
    ASSUME NEW w, NEW count, NEW l, NEW g, NEW x, NEW p, AtStart(w, count, l, g, x, p)
    PROVE  Holds(FromStart(w, count), p, 4 * g + l, x)
<1> DEFINE a == g * w  y == a + x  v == 4 * g + l
<1>1. /\ w \in Nat \ {0} /\ count \in Nat
      /\ l \in 0 .. 3 /\ g \in 0 .. count - 1 /\ g \in Nat /\ x \in 0 .. w - 1
      /\ y < 32 /\ p = 32 * l + y
  BY DEF AtStart
<1>2. a \in Nat
  BY <1>1
<1> HIDE DEF a
<1>3. y \in 0 .. 31 /\ y = a + x
  BY <1>1, <1>2
<1>4. y = 0 + g * w + x /\ v = 0 + 4 * g + l
  BY <1>1, <1>2, <1>3 DEF a
<1> DEFINE S == 0 .. 4 * count - 1
<1>5. S = 0 .. 0 + 4 * count - 1 /\ 0 % 4 = 0
  BY <1>1
<1> HIDE DEF S, y, v
<1>6. PutAt(S, 0, count, w, 0, {}, l, g, x, y, p, v)
  BY <1>1, <1>3, <1>4, <1>5 DEF PutAt
<1>7. Holds(Packed({} \cup ShiftedBy(S, 0, w, 0), w), p, v, x)
  BY <1>6, PackedGroup
<1>8. {} \cup ShiftedBy(S, 0, w, 0) = ShiftedBy(S, 0, w, 0)
  OBVIOUS
<1> QED
  BY <1>7, <1>8 DEF FromStart, S, v

\* A group before the last group's end.
LEMMA GroupsFit ==
    ASSUME NEW w \in Nat \ {0}, NEW count \in Nat, NEW most \in Nat, count * w <= most,
           NEW g \in 0 .. count - 1
    PROVE  g * w \in Nat /\ g * w + w <= most
<1>1. g + 1 \in 0 .. count /\ g \in Nat
  OBVIOUS
<1>2. (g + 1) * w <= count * w
  BY <1>1, Products
<1>3. (g + 1) * w = g * w + w /\ g * w \in Nat
  BY <1>1
<1> DEFINE a == g * w  e == count * w  f == (g + 1) * w
<1>4. f <= e /\ f = a + w /\ a \in Nat /\ e <= most /\ f \in Nat /\ e \in Nat
  BY <1>2, <1>3
<1> HIDE DEF a, e, f
<1>5. a \in Nat /\ a + w <= most
  BY <1>4
<1> QED
  BY <1>5 DEF a

\* Every width that divides the lanes of one register.
LEMMA SingleRecovered ==
    ASSUME NEW w \in Nat \ {0}, NEW count \in Nat, Ints(w) = 4 * count, count * w <= 32,
           NEW g \in 0 .. count - 1
    PROVE  Slots(UnpackSingle(PackSingle(w), w)[g], g, w)
<1> DEFINE m == FromStart(w, count)  a == g * w
<1>1. a \in Nat /\ a + w <= 32
  BY GroupsFit
<1>2. UnpackSingle(PackSingle(w), w)[g] = Mask(Srl64(m, a), w)
  <2>1. (Ints(w) \div 4) = count
    OBVIOUS
  <2> HIDE DEF a
  <2>2. PackSingle(w)[1] = m
    BY DEF PackSingle, FromStart
  <2> QED
    BY <2>1, <2>2 DEF UnpackSingle, a
<1> HIDE DEF m, a
<1>3. ASSUME NEW p \in Bits, p % 32 < w
      PROVE  Srl64(m, a)[p] = {<<4 * g + Lane(p), p % 32>>}
  <2> DEFINE l == Lane(p)  x == p % 32  q == p + a
  <2>1. l \in 0 .. 3 /\ x \in 0 .. w - 1 /\ (p % 64) + a < 64 /\ q = 32 * l + (a + x) /\ a + x < 32
    BY <1>1, <1>3, BitAt
  <2>2. Srl64(m, a)[p] = m[q]
    BY <2>1 DEF Srl64
  <2> HIDE DEF l, x, q
  <2>3. AtStart(w, count, l, g, x, q)
    BY <2>1 DEF AtStart, a
  <2>4. m[q] = {<<4 * g + l, x>>}
    BY <2>3, PackedFromStart DEF m, Holds
  <2> QED
    BY <2>2, <2>4 DEF l, x
<1> QED
  BY <1>2, <1>3 DEF Slots, Mask


\* A width whose values do not divide the lanes: count groups fit into the
\* first register, the next is split behind its first drop bits, and more
\* groups follow in the second register from bit offset on.
IsPair(w, first, count, more, drop, offset) ==
    /\ w \in Nat \ {0} /\ count \in Nat /\ more \in Nat
    /\ drop \in 1 .. w - 1 /\ offset \in Nat
    /\ first = 4 * (count + 1) /\ Ints(w) = first + 4 * more
    /\ count * w + drop = 32 /\ offset + drop >= w /\ offset + more * w <= 32

Split(first, drop) == {<<v, -drop>> : v \in first - 4 .. first - 1}

SecondWord(w, first, drop, offset) ==
    Packed(Split(first, drop) \cup ShiftedBy(first .. Ints(w) - 1, first, w, offset), w)

\* The high bits of the split group.
LEMMA SplitGroup ==
    ASSUME NEW w, NEW first, NEW count, NEW more, NEW drop, NEW offset,
           IsPair(w, first, count, more, drop, offset),
           NEW l \in 0 .. 3, NEW x \in drop .. w - 1, NEW p, p = 32 * l + (x - drop), x < 32
    PROVE  Holds(SecondWord(w, first, drop, offset), p, 4 * count + l, x)
<1>1. /\ w \in Nat \ {0} /\ count \in Nat /\ more \in Nat
      /\ drop \in 1 .. w - 1 /\ offset \in Nat
      /\ first = 4 * (count + 1) /\ Ints(w) = first + 4 * more /\ offset + drop >= w
  BY DEF IsPair
<1> DEFINE base == 4 * count  S == base .. base + 4 * 1 - 1  v == base + l  y == x - drop
           rest == ShiftedBy(first .. Ints(w) - 1, first, w, offset)
<1>2. base \in Nat /\ base % 4 = 0 /\ v = base + 4 * 0 + l /\ first - 4 = base /\ first - 1 = base + 3
  BY <1>1
<1>3. Split(first, drop) = ShiftedBy(S, base, w, -drop)
  <2>1. first - 4 .. first - 1 = S
    BY <1>2
  <2> HIDE DEF base
  <2>2. \A u \in S : ((u - base) \div 4) * w + (-drop) = -drop
    <3>1. SUFFICES ASSUME NEW u \in S PROVE ((u - base) \div 4) * w + (-drop) = -drop
      OBVIOUS
    <3>2. (u - base) \div 4 = 0
      BY <1>2
    <3>3. 0 * w = 0
      BY <1>1
    <3> QED
      BY <3>2, <3>3, <1>1
  <2> HIDE DEF S
  <2>3. {<<u, -drop>> : u \in S} = {<<u, ((u - base) \div 4) * w + (-drop)>> : u \in S}
    BY <2>2
  <2> QED
    BY <2>1, <2>3 DEF Split, ShiftedBy
<1>4. ASSUME NEW r \in rest PROVE y - r[2] \notin 0 .. w - 1
  <2>1. PICK u \in first .. Ints(w) - 1 : r = <<u, ((u - first) \div 4) * w + offset>>
    BY DEF ShiftedBy
  <2> DEFINE h == (u - first) \div 4  e == h * w
  <2>2. h \in Nat
    BY <1>1
  <2>3. r[2] = e + offset
    BY <2>1
  <2> HIDE DEF h
  <2>4. e \in Nat
    BY <2>2, <1>1
  <2> HIDE DEF e
  <2> QED
    BY <1>1, <2>3, <2>4
<1>5. y \in 0 .. 31 /\ y = -drop + 0 * w + x /\ p = 32 * l + y /\ x \in 0 .. w - 1 /\ -drop \in Int
  BY <1>1
<1> HIDE DEF base, S, v, y, rest
<1>6. S = base .. base + 4 * 1 - 1 /\ 0 \in 0 .. 1 - 1 /\ 1 \in Nat
  BY DEF S
<1> DEFINE d == -drop
<1>7. d \in Int /\ y = d + 0 * w + x
  BY <1>5
<1> HIDE DEF d
<1>8. PutAt(S, base, 1, w, d, rest, l, 0, x, y, p, v)
  BY <1>1, <1>2, <1>4, <1>5, <1>6, <1>7 DEF PutAt
<1>9. Holds(Packed(rest \cup ShiftedBy(S, base, w, d), w), p, v, x)
  BY <1>8, PackedGroup
<1>10. Split(first, drop) \cup rest = rest \cup ShiftedBy(S, base, w, d)
  BY <1>3 DEF d
<1> QED
  BY <1>9, <1>10 DEF SecondWord, rest, v, base

\* The groups behind it.
LEMMA LaterGroup ==
    ASSUME NEW w, NEW first, NEW count, NEW more, NEW drop, NEW offset,
           IsPair(w, first, count, more, drop, offset),
           NEW l \in 0 .. 3, NEW h \in 0 .. more - 1, NEW x \in 0 .. w - 1, NEW p,
           p = 32 * l + (offset + h * w + x)
    PROVE  Holds(SecondWord(w, first, drop, offset), p, first + 4 * h + l, x)
<1>1. /\ w \in Nat \ {0} /\ count \in Nat /\ more \in Nat
      /\ drop \in 1 .. w - 1 /\ offset \in Nat
      /\ first = 4 * (count + 1) /\ Ints(w) = first + 4 * more /\ offset + drop >= w
      /\ offset + more * w <= 32
  BY DEF IsPair
<1> DEFINE S == first .. first + 4 * more - 1  a == h * w  y == offset + a + x
           v == first + 4 * h + l  rest == Split(first, drop)
<1>2. a \in Nat /\ y \in 0 .. 31
  <2> DEFINE e == more * w
  <2>1. e \in Nat
    BY <1>1
  <2> HIDE DEF e
  <2>2. 32 - offset \in Nat /\ e <= 32 - offset
    BY <1>1, <2>1 DEF e
  <2>3. a \in Nat /\ a + w <= 32 - offset
    BY <1>1, <2>2, GroupsFit DEF e
  <2> HIDE DEF a
  <2> QED
    BY <1>1, <2>3
<1>3. y = offset + h * w + x /\ p = 32 * l + y
  OBVIOUS
<1> HIDE DEF a
<1>4. ASSUME NEW r \in rest PROVE y - r[2] \notin 0 .. w - 1
  <2>1. r[2] = -drop
    BY DEF Split
  <2> QED
    BY <2>1, <1>1, <1>2
<1>5. first \in Nat /\ first % 4 = 0 /\ offset \in Int
  BY <1>1
<1> HIDE DEF S, y, v, rest
<1>6. S = first .. first + 4 * more - 1 /\ v = first + 4 * h + l
  BY DEF S, v
<1>7. PutAt(S, first, more, w, offset, rest, l, h, x, y, p, v)
  BY <1>1, <1>2, <1>3, <1>4, <1>5, <1>6 DEF PutAt
<1>8. Holds(Packed(rest \cup ShiftedBy(S, first, w, offset), w), p, v, x)
  BY <1>7, PackedGroup
<1>9. first .. Ints(w) - 1 = S
  BY <1>1 DEF S
<1> QED
  BY <1>8, <1>9 DEF SecondWord, rest, v


\* Every width that needs two registers.
LEMMA PairRecovered ==
    ASSUME NEW w, NEW first, NEW count, NEW more, NEW drop, NEW offset,
           IsPair(w, first, count, more, drop, offset),
           NEW g \in 0 .. count + more
    PROVE  Slots(UnpackPair(PackPair(w, first, drop, offset), w, count, drop, offset)[g], g, w)
<1> DEFINE m == FromStart(w, count + 1)  m2 == SecondWord(w, first, drop, offset)
           low == Srl32(m, g * w)
           join == OrBits(Sll32(m2, drop), Srl32(m, count * w))
           high == Srl32(m2, offset + (g - count - 1) * w)
           store == IF g < count THEN low ELSE IF g = count THEN join ELSE high
<1>1. /\ w \in Nat \ {0} /\ count \in Nat /\ more \in Nat /\ count + 1 \in Nat
      /\ drop \in 1 .. w - 1 /\ offset \in Nat
      /\ first = 4 * (count + 1) /\ Ints(w) = first + 4 * more
      /\ count * w + drop = 32 /\ offset + drop >= w /\ offset + more * w <= 32
  BY DEF IsPair
<1>4. w \in Nat /\ count \in Nat /\ more \in Nat /\ drop \in Nat /\ drop < w /\ offset \in Nat
  BY <1>1
<1>2. UnpackPair(PackPair(w, first, drop, offset), w, count, drop, offset)[g] = Mask(store, w)
  <2>1. Ints(w) \div 4 - 1 = count + more /\ first - 1 = 4 * (count + 1) - 1
    BY <1>1
  <2>2. PackPair(w, first, drop, offset) = <<m, m2>>
    BY <2>1 DEF PackPair, FromStart, SecondWord, Split
  <2> HIDE DEF m, m2
  <2>3. PackPair(w, first, drop, offset)[1] = m /\ PackPair(w, first, drop, offset)[2] = m2
    BY <2>2
  <2> QED
    BY <2>1, <2>3 DEF UnpackPair
<1> HIDE DEF m, m2, low, join, high
<1>3. ASSUME NEW p \in Bits, p % 32 < w
      PROVE  store[p] = {<<4 * g + Lane(p), p % 32>>}
  <2> DEFINE l == Lane(p)  x == p % 32
  <2>1. l \in 0 .. 3 /\ x \in 0 .. 31 /\ x \in 0 .. w - 1 /\ p = 32 * l + x
    BY <1>1, <1>3, BitAt
  <2> HIDE DEF l
  <2>2. CASE g < count
    <3> DEFINE a == g * w  q == p + a
    <3>1. a \in Nat /\ a + w <= 32
      <4> DEFINE e == count * w
      <4>1. e <= 32
        <5>1. e \in Nat
          BY <1>1
        <5>2. e + drop = 32
          BY <1>1
        <5> HIDE DEF e
        <5> QED
          BY <5>1, <5>2, <1>1
      <4> QED
        BY <4>1, <2>2, <1>1, GroupsFit
    <3>2. low[p] = m[q]
      <4> HIDE DEF a
      <4> QED
        BY <1>4, <3>1, <2>1 DEF low, Srl32, a
    <3> HIDE DEF x
    <3>3. AtStart(w, count + 1, l, g, x, q)
      <4>1. g \in 0 .. (count + 1) - 1
        BY <2>2, <1>1
      <4> HIDE DEF a
      <4>2. a + x < 32 /\ q = 32 * l + (a + x)
        BY <1>4, <2>1, <3>1
      <4> QED
        BY <4>1, <4>2, <1>1, <2>1 DEF AtStart, a
    <3> HIDE DEF q
    <3>4. m[q] = {<<4 * g + l, x>>}
      BY <3>3, PackedFromStart DEF m, Holds
    <3> QED
      BY <2>2, <3>2, <3>4 DEF l, x
  <2>3. CASE g = count
    <3> DEFINE a == count * w  q == p + a  z == p - drop
    <3>1. a \in Nat /\ a + drop = 32
      BY <1>1
    <3>2. CASE x < drop
      <4>1. join[p] = m[q]
        <5> HIDE DEF a
        <5>1. x + a < 32 /\ ~(x >= drop)
          <6> HIDE DEF x
          <6> QED
            BY <3>1, <3>2, <2>1, <1>4
        <5>2. Srl32(m, a)[p] = m[q] /\ Sll32(m2, drop)[p] = {}
          BY <5>1 DEF Srl32, Sll32
        <5> QED
          BY <5>2 DEF join, OrBits, a
      <4> HIDE DEF x
      <4>2. AtStart(w, count + 1, l, count, x, q)
        <5>1. count \in 0 .. (count + 1) - 1
          BY <1>1
        <5> HIDE DEF a
        <5>2. a + x < 32 /\ q = 32 * l + (a + x)
          BY <2>1, <3>1, <3>2, <1>1
        <5> QED
          BY <5>1, <5>2, <1>1, <2>1 DEF AtStart, a
      <4> HIDE DEF q
      <4>3. m[q] = {<<4 * count + l, x>>}
        BY <4>2, PackedFromStart DEF m, Holds
      <4> QED
        BY <2>3, <4>1, <4>3 DEF l, x
    <3>3. CASE x >= drop
      <4>1. join[p] = m2[z]
        <5> HIDE DEF a
        <5>1. ~(x + a < 32)
          <6> HIDE DEF x
          <6> QED
            BY <3>1, <3>3, <2>1, <1>4
        <5>2. Srl32(m, a)[p] = {} /\ Sll32(m2, drop)[p] = m2[z]
          BY <5>1, <3>3 DEF Srl32, Sll32
        <5> QED
          BY <5>2 DEF join, OrBits, a
      <4> HIDE DEF x
      <4>2. x \in drop .. w - 1 /\ z = 32 * l + (x - drop) /\ x < 32
        BY <2>1, <3>3, <1>1
      <4> HIDE DEF z
      <4>3. m2[z] = {<<4 * count + l, x>>}
        BY <4>2, <2>1, SplitGroup DEF m2, Holds
      <4> QED
        BY <2>3, <4>1, <4>3 DEF l, x
    <3>4. x < drop \/ x >= drop
      <4> HIDE DEF x
      <4> QED
        BY <2>1, <1>4
    <3> QED
      BY <3>2, <3>3, <3>4
  <2>4. CASE g > count
    <3> DEFINE h == g - count - 1  a == h * w  q == p + (offset + a)
    <3>1. h \in 0 .. more - 1 /\ g = count + 1 + h
      BY <2>4, <1>1
    <3>2. a \in Nat /\ a + w <= 32 - offset
      <4> DEFINE e == more * w
      <4> HIDE DEF h
      <4>1. e \in Nat
        BY <1>1
      <4>2. 32 - offset \in Nat /\ e <= 32 - offset
        <5>1. offset + e <= 32
          BY <1>1
        <5> HIDE DEF e
        <5> QED
          BY <5>1, <4>1, <1>1
      <4> QED
        BY <4>2, <3>1, <1>1, GroupsFit
    <3>3. high[p] = m2[q]
      <4> HIDE DEF a
      <4>1. x + (offset + a) < 32
        BY <3>2, <2>1, <1>1
      <4> QED
        BY <4>1 DEF high, Srl32, a
    <3> HIDE DEF x, h
    <3>4. q = 32 * l + (offset + h * w + x)
      <4> HIDE DEF a
      <4>1. q = 32 * l + (offset + a + x)
        BY <3>2, <2>1, <1>1
      <4> QED
        BY <4>1 DEF a
    <3> HIDE DEF q
    <3>5. m2[q] = {<<first + 4 * h + l, x>>}
      BY <3>1, <3>4, <2>1, LaterGroup DEF m2, Holds
    <3>6. first + 4 * h + l = 4 * g + l
      BY <3>1, <1>1, <2>1
    <3>7. high[p] = {<<4 * g + l, x>>}
      BY <3>3, <3>5, <3>6
    <3> QED
      BY <2>4, <3>7, <1>1 DEF l, x
  <2> QED
    BY <2>2, <2>3, <2>4, <1>1
<1> HIDE DEF store
<1> QED
  BY <1>2, <1>3 DEF Slots, Mask


\* The widths of whole bytes: bit x of value l of a register is bit w * l + x.
LEMMA Bytes ==
    /\ \A p \in Bits : p % 32 < 8 =>
          /\ Lane(p) * 8 + (p % 32) \in 0 .. 31
          /\ (Lane(p) * 8 + (p % 32)) % 8 = p % 32
          /\ (Lane(p) * 8 + (p % 32)) \div 8 = Lane(p)
    /\ \A p \in Bits : p % 32 < 16 =>
          /\ Lane(p) * 16 + (p % 32) \in 0 .. 63
          /\ (Lane(p) * 16 + (p % 32)) % 16 = p % 32
          /\ (Lane(p) * 16 + (p % 32)) \div 16 = Lane(p)
BY BitAt

\* Bytes are recovered through two widenings.
LEMMA Recovered8 ==
    Recovered(8)
<1> DEFINE r == [p \in Bits |-> {<<p \div 8, p % 8>>}]
           high == MoveHighLow(r)  low == Shuffle01(r)  last == Shuffle01(high)
           stores == Unpack8(<<r>>)
<1>1. Unpack(Pack(8), 8) = stores
  <2>1. Pack(8) = PackBytes(8)
    BY DEF Pack
  <2>2. PackBytes(8) = <<r>>
    BY DEF PackBytes
  <2>3. Unpack(Pack(8), 8) = Unpack8(Pack(8))
    BY DEF Unpack
  <2> QED
    BY <2>1, <2>2, <2>3
<1> HIDE DEF r
<1>2. ASSUME NEW q \in 0 .. 31
      PROVE  /\ Lane(q) = 0 /\ q % 32 = q /\ q \in Bits /\ 32 + q \in Bits
             /\ Lane(32 + q) = 1 /\ (32 + q) % 32 = q
  BY DEF Lane, Bits
<1>3. ASSUME NEW q \in 0 .. 31, NEW t
      PROVE  MoveHighLow(t)[q] = t[64 + q] /\ Shuffle01(t)[q] = t[32 + q]
  <2>1. \A lanes : FromLanes(t, lanes)[q] = t[32 * lanes[0 + 1] + q]
    BY <1>2 DEF FromLanes
  <2>2. /\ <<1, 0, 0, 0>>[0 + 1] = 1 /\ <<2, 3, 2, 3>>[0 + 1] = 2
        /\ 32 * 1 = 32 /\ 32 * 2 = 64
    OBVIOUS
  <2> QED
    BY <2>1, <2>2 DEF MoveHighLow, Shuffle01
<1>4. ASSUME NEW q \in 0 .. 31
      PROVE  low[q] = r[32 + q] /\ high[q] = r[64 + q] /\ last[q] = r[96 + q]
  <2>1. low[q] = r[32 + q]
    BY <1>3
  <2>2. high[q] = r[64 + q]
    BY <1>3
  <2>4. high[32 + q] = r[96 + q]
    <3> DEFINE z == 32 + q
    <3>1. z \in Bits /\ Lane(z) = 1 /\ z % 32 = q
      BY <1>2
    <3>2. 32 * <<2, 3, 2, 3>>[1 + 1] + q = 96 + q
      OBVIOUS
    <3> HIDE DEF z
    <3>3. high[z] = r[32 * <<2, 3, 2, 3>>[1 + 1] + q]
      BY <3>1 DEF MoveHighLow, FromLanes
    <3> QED
      BY <3>2, <3>3 DEF z
  <2> HIDE DEF high
  <2>3. last[q] = high[32 + q]
    BY <1>3
  <2> QED
    BY <2>1, <2>2, <2>3, <2>4
<1>5. /\ stores[0] = Widen(r, 8) /\ stores[1] = Widen(low, 8)
      /\ stores[2] = Widen(high, 8) /\ stores[3] = Widen(last, 8)
      /\ DOMAIN stores = 0 .. 3
  BY DEF Unpack8
<1> HIDE DEF high, low, last, stores
<1>6. ASSUME NEW q \in 0 .. 31
      PROVE  /\ r[q] = {<<q \div 8, q % 8>>} /\ r[32 + q] = {<<4 + (q \div 8), q % 8>>}
             /\ r[64 + q] = {<<8 + (q \div 8), q % 8>>} /\ r[96 + q] = {<<12 + (q \div 8), q % 8>>}
  <2>1. /\ q \in Bits /\ 32 + q \in Bits /\ 64 + q \in Bits /\ 96 + q \in Bits
        /\ (32 + q) \div 8 = 4 + (q \div 8) /\ (32 + q) % 8 = q % 8
        /\ (64 + q) \div 8 = 8 + (q \div 8) /\ (64 + q) % 8 = q % 8
        /\ (96 + q) \div 8 = 12 + (q \div 8) /\ (96 + q) % 8 = q % 8
    BY DEF Bits
  <2> QED
    BY <2>1 DEF r
<1>7. ASSUME NEW p \in Bits, p % 32 < 8
      PROVE  /\ stores[0][p] = {<<Lane(p), p % 32>>} /\ stores[1][p] = {<<4 + Lane(p), p % 32>>}
             /\ stores[2][p] = {<<8 + Lane(p), p % 32>>} /\ stores[3][p] = {<<12 + Lane(p), p % 32>>}
  <2> DEFINE q == Lane(p) * 8 + (p % 32)
  <2>1. q \in 0 .. 31 /\ q % 8 = p % 32 /\ q \div 8 = Lane(p)
    BY <1>7, Bytes
  <2>2. \A t : Widen(t, 8)[p] = t[q]
    BY <1>7 DEF Widen
  <2> HIDE DEF q
  <2>3. /\ r[q] = {<<Lane(p), p % 32>>} /\ r[32 + q] = {<<4 + Lane(p), p % 32>>}
        /\ r[64 + q] = {<<8 + Lane(p), p % 32>>} /\ r[96 + q] = {<<12 + Lane(p), p % 32>>}
    BY <2>1, <1>6
  <2>4. /\ stores[0][p] = r[q] /\ stores[1][p] = r[32 + q]
        /\ stores[2][p] = r[64 + q] /\ stores[3][p] = r[96 + q]
    BY <2>1, <2>2, <1>4, <1>5
  <2> QED
    BY <2>3, <2>4
<1>8. ASSUME NEW p \in Bits, ~(p % 32 < 8), NEW g \in 0 .. 3 PROVE stores[g][p] = {}
  <2>1. \A t : Widen(t, 8)[p] = {}
    BY <1>8 DEF Widen
  <2>2. stores[0][p] = {} /\ stores[1][p] = {} /\ stores[2][p] = {} /\ stores[3][p] = {}
    BY <2>1, <1>5
  <2>3. g = 0 \/ g = 1 \/ g = 2 \/ g = 3
    OBVIOUS
  <2> QED
    BY <2>2, <2>3
<1>9. ASSUME NEW p \in Bits, p % 32 < 8, NEW g \in 0 .. 3
      PROVE  stores[g][p] = {<<4 * g + Lane(p), p % 32>>}
  <2>1. CASE g = 0
    <3>1. 4 * g + Lane(p) = Lane(p)
      BY <2>1, BitAt
    <3> QED
      BY <2>1, <3>1, <1>7, <1>9
  <2>2. CASE g = 1
    BY <2>2, <1>7, <1>9
  <2>3. CASE g = 2
    BY <2>3, <1>7, <1>9
  <2>4. CASE g = 3
    BY <2>4, <1>7, <1>9
  <2> QED
    BY <2>1, <2>2, <2>3, <2>4
<1> QED
  BY <1>1, <1>5, <1>8, <1>9 DEF Recovered

\* Half words are recovered through one.
LEMMA Recovered16 ==
    Recovered(16)
<1> DEFINE r == [p \in Bits |-> {<<p \div 16, p % 16>>}]
           high == MoveHighLow(r)  stores == Unpack16(<<r>>)
<1>1. Unpack(Pack(16), 16) = stores
  <2>1. Pack(16) = PackBytes(16)
    BY DEF Pack
  <2>2. PackBytes(16) = <<r>>
    BY DEF PackBytes
  <2>3. Unpack(Pack(16), 16) = Unpack16(Pack(16))
    BY DEF Unpack
  <2> QED
    BY <2>1, <2>2, <2>3
<1> HIDE DEF r
<1>2. ASSUME NEW q \in 0 .. 63 PROVE high[q] = r[64 + q]
  <2>1. q \in Bits
    BY DEF Bits
  <2>2. CASE q < 32
    <3>1. Lane(q) = 0 /\ q % 32 = q
      BY <2>2 DEF Lane
    <3> QED
      BY <2>1, <3>1 DEF MoveHighLow, FromLanes
  <2>3. CASE q >= 32
    <3>1. Lane(q) = 1 /\ q % 32 = q - 32
      BY <2>3 DEF Lane
    <3>2. 32 * <<2, 3, 2, 3>>[Lane(q) + 1] + (q % 32) = 64 + q
      <4>1. <<2, 3, 2, 3>>[Lane(q) + 1] = 3
        BY <3>1
      <4> QED
        BY <3>1, <4>1
    <3> QED
      BY <2>1, <3>2 DEF MoveHighLow, FromLanes
  <2> QED
    BY <2>2, <2>3
<1>3. stores[0] = Widen(r, 16) /\ stores[1] = Widen(high, 16) /\ DOMAIN stores = 0 .. 1
  BY DEF Unpack16
<1> HIDE DEF stores, high
<1>4. ASSUME NEW q \in 0 .. 63
      PROVE  r[q] = {<<q \div 16, q % 16>>} /\ r[64 + q] = {<<4 + (q \div 16), q % 16>>}
  <2>1. /\ q \in Bits /\ 64 + q \in Bits
        /\ (64 + q) \div 16 = 4 + (q \div 16) /\ (64 + q) % 16 = q % 16
    BY DEF Bits
  <2> QED
    BY <2>1 DEF r
<1>5. ASSUME NEW p \in Bits, p % 32 < 16
      PROVE  stores[0][p] = {<<Lane(p), p % 32>>} /\ stores[1][p] = {<<4 + Lane(p), p % 32>>}
  <2> DEFINE q == Lane(p) * 16 + (p % 32)
  <2>1. q \in 0 .. 63 /\ q % 16 = p % 32 /\ q \div 16 = Lane(p)
    BY <1>5, Bytes
  <2>2. \A t : Widen(t, 16)[p] = t[q]
    BY <1>5 DEF Widen
  <2> HIDE DEF q
  <2>3. r[q] = {<<Lane(p), p % 32>>} /\ r[64 + q] = {<<4 + Lane(p), p % 32>>}
    BY <2>1, <1>4
  <2>4. stores[0][p] = r[q] /\ stores[1][p] = r[64 + q]
    BY <2>1, <2>2, <1>2, <1>3
  <2> QED
    BY <2>3, <2>4
<1>6. ASSUME NEW p \in Bits, ~(p % 32 < 16), NEW g \in 0 .. 1 PROVE stores[g][p] = {}
  <2>1. \A t : Widen(t, 16)[p] = {}
    BY <1>6 DEF Widen
  <2>2. stores[0][p] = {} /\ stores[1][p] = {} /\ (g = 0 \/ g = 1)
    BY <2>1, <1>3
  <2> QED
    BY <2>2
<1>7. ASSUME NEW p \in Bits, p % 32 < 16, NEW g \in 0 .. 1
      PROVE  stores[g][p] = {<<4 * g + Lane(p), p % 32>>}
  <2>1. CASE g = 0
    <3>1. 4 * g + Lane(p) = Lane(p)
      BY <2>1, BitAt
    <3> QED
      BY <2>1, <3>1, <1>5, <1>7
  <2>2. CASE g = 1
    BY <2>2, <1>5, <1>7
  <2> QED
    BY <2>1, <2>2
<1> QED
  BY <1>1, <1>3, <1>6, <1>7 DEF Recovered

\* Words are recovered by a copy.
LEMMA Recovered32 ==
    Recovered(32)
<1> DEFINE r == [p \in Bits |-> {<<p \div 32, p % 32>>}]  stores == Unpack32(<<r>>)
<1>1. Unpack(Pack(32), 32) = stores
  <2>1. Pack(32) = PackBytes(32)
    BY DEF Pack
  <2>2. PackBytes(32) = <<r>>
    BY DEF PackBytes
  <2>3. Unpack(Pack(32), 32) = Unpack32(Pack(32))
    BY DEF Unpack
  <2> QED
    BY <2>1, <2>2, <2>3
<1>2. ASSUME NEW p \in Bits PROVE r[p] = {<<4 * 0 + Lane(p), p % 32>>} /\ p % 32 < 32
  <2>1. r[p] = {<<Lane(p), p % 32>>}
    BY DEF Lane
  <2> HIDE DEF r
  <2> QED
    BY <2>1, BitAt
<1> HIDE DEF r
<1>3. DOMAIN stores = {0} /\ stores[0] = r
  BY DEF Unpack32
<1> HIDE DEF stores
<1> QED
  BY <1>1, <1>2, <1>3 DEF Recovered


\* One store for every four values.
LEMMA RecoveredBySlots ==
    ASSUME NEW w, NEW count \in Nat, NEW stores, Unpack(Pack(w), w) = stores,
           DOMAIN stores = 0 .. count - 1, \A g \in 0 .. count - 1 : Slots(stores[g], g, w)
    PROVE  Recovered(w)
BY DEF Recovered, Slots

\* A width is recovered if its slots are, for stripes of one register,
LEMMA SingleWidth ==
    ASSUME NEW w \in Nat \ {0}, NEW count \in Nat, Ints(w) = 4 * count, count * w <= 32,
           Unpack(Pack(w), w) = UnpackSingle(PackSingle(w), w)
    PROVE  Recovered(w)
<1> DEFINE stores == UnpackSingle(PackSingle(w), w)
<1>1. DOMAIN stores = 0 .. count - 1
  BY DEF UnpackSingle
<1>2. \A g \in 0 .. count - 1 : Slots(stores[g], g, w)
  BY SingleRecovered
<1> HIDE DEF stores
<1>3. Unpack(Pack(w), w) = stores
  BY DEF stores
<1> QED
  BY <1>1, <1>2, <1>3, RecoveredBySlots

\* and for stripes of two.
LEMMA PairWidth ==
    ASSUME NEW w, NEW first, NEW count, NEW more, NEW drop, NEW offset,
           IsPair(w, first, count, more, drop, offset),
           Unpack(Pack(w), w) = UnpackPair(PackPair(w, first, drop, offset), w, count, drop, offset)
    PROVE  Recovered(w)
<1> DEFINE stores == UnpackPair(PackPair(w, first, drop, offset), w, count, drop, offset)
<1>1. /\ count \in Nat /\ more \in Nat /\ Ints(w) = 4 * (count + 1) + 4 * more
  BY DEF IsPair
<1>2. Ints(w) \div 4 - 1 = count + more /\ (count + more + 1) - 1 = count + more
      /\ count + more + 1 \in Nat
  BY <1>1
<1>3. DOMAIN stores = 0 .. (count + more + 1) - 1
  BY <1>2 DEF UnpackPair
<1>4. \A g \in 0 .. (count + more + 1) - 1 : Slots(stores[g], g, w)
  BY <1>2, PairRecovered
<1> HIDE DEF stores
<1>5. Unpack(Pack(w), w) = stores
  BY DEF stores
<1> QED
  BY <1>2, <1>3, <1>4, <1>5, RecoveredBySlots

\* Stripes of width 1.
LEMMA Recovered1 ==
    Recovered(1)
<1>1. Unpack(Pack(1), 1) = UnpackSingle(PackSingle(1), 1)
  <2>1. Pack(1) = PackSingle(1)
    BY DEF Pack
  <2>2. Unpack(Pack(1), 1) = Unpack1(Pack(1))
    BY DEF Unpack
  <2> QED
    BY <2>1, <2>2 DEF Unpack1
<1>2. Ints(1) = 4 * 32 /\ 32 * 1 <= 32 /\ 32 \in Nat /\ 1 \in Nat \ {0}
  BY StripeSizes
<1> QED
  BY <1>1, <1>2, SingleWidth

\* Stripes of width 2.
LEMMA Recovered2 ==
    Recovered(2)
<1>1. Unpack(Pack(2), 2) = UnpackSingle(PackSingle(2), 2)
  <2>1. Pack(2) = PackSingle(2)
    BY DEF Pack
  <2>2. Unpack(Pack(2), 2) = Unpack2(Pack(2))
    BY DEF Unpack
  <2> QED
    BY <2>1, <2>2 DEF Unpack2
<1>2. Ints(2) = 4 * 16 /\ 16 * 2 <= 32 /\ 16 \in Nat /\ 2 \in Nat \ {0}
  BY StripeSizes
<1> QED
  BY <1>1, <1>2, SingleWidth

\* Stripes of width 3.
LEMMA Recovered3 ==
    Recovered(3)
<1>1. Unpack(Pack(3), 3) = UnpackSingle(PackSingle(3), 3)
  <2>1. Pack(3) = PackSingle(3)
    BY DEF Pack
  <2>2. Unpack(Pack(3), 3) = Unpack3(Pack(3))
    BY DEF Unpack
  <2> QED
    BY <2>1, <2>2 DEF Unpack3
<1>2. Ints(3) = 4 * 10 /\ 10 * 3 <= 32 /\ 10 \in Nat /\ 3 \in Nat \ {0}
  BY StripeSizes
<1> QED
  BY <1>1, <1>2, SingleWidth

\* Stripes of width 4.
LEMMA Recovered4 ==
    Recovered(4)
<1>1. Unpack(Pack(4), 4) = UnpackSingle(PackSingle(4), 4)
  <2>1. Pack(4) = PackSingle(4)
    BY DEF Pack
  <2>2. Unpack(Pack(4), 4) = Unpack4(Pack(4))
    BY DEF Unpack
  <2> QED
    BY <2>1, <2>2 DEF Unpack4
<1>2. Ints(4) = 4 * 8 /\ 8 * 4 <= 32 /\ 8 \in Nat /\ 4 \in Nat \ {0}
  BY StripeSizes
<1> QED
  BY <1>1, <1>2, SingleWidth

\* Stripes of width 5.
LEMMA Recovered5 ==
    Recovered(5)
<1>1. Unpack(Pack(5), 5) = UnpackSingle(PackSingle(5), 5)
  <2>1. Pack(5) = PackSingle(5)
    BY DEF Pack
  <2>2. Unpack(Pack(5), 5) = Unpack5(Pack(5))
    BY DEF Unpack
  <2> QED
    BY <2>1, <2>2 DEF Unpack5
<1>2. Ints(5) = 4 * 6 /\ 6 * 5 <= 32 /\ 6 \in Nat /\ 5 \in Nat \ {0}
  BY StripeSizes
<1> QED
  BY <1>1, <1>2, SingleWidth

\* Stripes of width 6.
LEMMA Recovered6 ==
    Recovered(6)
<1>1. Unpack(Pack(6), 6) = UnpackSingle(PackSingle(6), 6)
  <2>1. Pack(6) = PackSingle(6)
    BY DEF Pack
  <2>2. Unpack(Pack(6), 6) = Unpack6(Pack(6))
    BY DEF Unpack
  <2> QED
    BY <2>1, <2>2 DEF Unpack6
<1>2. Ints(6) = 4 * 5 /\ 5 * 6 <= 32 /\ 5 \in Nat /\ 6 \in Nat \ {0}
  BY StripeSizes
<1> QED
  BY <1>1, <1>2, SingleWidth

\* Stripes of width 10.
LEMMA Recovered10 ==
    Recovered(10)
<1>1. Unpack(Pack(10), 10) = UnpackSingle(PackSingle(10), 10)
  <2>1. Pack(10) = PackSingle(10)
    BY DEF Pack
  <2>2. Unpack(Pack(10), 10) = Unpack10(Pack(10))
    BY DEF Unpack
  <2> QED
    BY <2>1, <2>2 DEF Unpack10
<1>2. Ints(10) = 4 * 3 /\ 3 * 10 <= 32 /\ 3 \in Nat /\ 10 \in Nat \ {0}
  BY StripeSizes
<1> QED
  BY <1>1, <1>2, SingleWidth

\* Stripes of width 7.
LEMMA Recovered7 ==
    Recovered(7)
<1>1. Unpack(Pack(7), 7) = UnpackPair(PackPair(7, 20, 4, 3), 7, 4, 4, 3)
  <2>1. Pack(7) = PackPair(7, 20, 4, 3)
    BY DEF Pack
  <2>2. Unpack(Pack(7), 7) = Unpack7(Pack(7))
    BY DEF Unpack
  <2> QED
    BY <2>1, <2>2 DEF Unpack7
<1>2. IsPair(7, 20, 4, 4, 4, 3)
  BY StripeSizes DEF IsPair
<1> QED
  BY <1>1, <1>2, PairWidth

\* Stripes of width 9.
LEMMA Recovered9 ==
    Recovered(9)
<1>1. Unpack(Pack(9), 9) = UnpackPair(PackPair(9, 16, 5, 4), 9, 3, 5, 4)
  <2>1. Pack(9) = PackPair(9, 16, 5, 4)
    BY DEF Pack
  <2>2. Unpack(Pack(9), 9) = Unpack9(Pack(9))
    BY DEF Unpack
  <2> QED
    BY <2>1, <2>2 DEF Unpack9
<1>2. IsPair(9, 16, 3, 3, 5, 4)
  BY StripeSizes DEF IsPair
<1> QED
  BY <1>1, <1>2, PairWidth

\* Stripes of width 12.
LEMMA Recovered12 ==
    Recovered(12)
<1>1. Unpack(Pack(12), 12) = UnpackPair(PackPair(12, 12, 8, 8), 12, 2, 8, 8)
  <2>1. Pack(12) = PackPair(12, 12, 8, 8)
    BY DEF Pack
  <2>2. Unpack(Pack(12), 12) = Unpack12(Pack(12))
    BY DEF Unpack
  <2> QED
    BY <2>1, <2>2 DEF Unpack12
<1>2. IsPair(12, 12, 2, 2, 8, 8)
  BY StripeSizes DEF IsPair
<1> QED
  BY <1>1, <1>2, PairWidth

\* Stripes of width 21.
LEMMA Recovered21 ==
    Recovered(21)
<1>1. Unpack(Pack(21), 21) = UnpackPair(PackPair(21, 8, 11, 11), 21, 1, 11, 11)
  <2>1. Pack(21) = PackPair(21, 8, 11, 11)
    BY DEF Pack
  <2>2. Unpack(Pack(21), 21) = Unpack21(Pack(21))
    BY DEF Unpack
  <2> QED
    BY <2>1, <2>2 DEF Unpack21
<1>2. IsPair(21, 8, 1, 1, 11, 11)
  BY StripeSizes DEF IsPair
<1> QED
  BY <1>1, <1>2, PairWidth

\* Every width comes back bit for bit.
LEMMA AllRecovered ==
    \A w \in Widths \ {0} : Recovered(w)
BY Recovered1, Recovered2, Recovered3, Recovered4, Recovered5, Recovered6, Recovered7,
   Recovered8, Recovered9, Recovered10, Recovered12, Recovered16, Recovered21, Recovered32
   DEF Widths


-----------------------------------------------------------------------------
(* The decoding steps.                                                     *)

\* The selectors read so far stand for the stripes and the integers passed:
\* A and F are the bytes and the integers before each batch, j batches done.
Decoded(A, F, j) ==
    /\ Batched(A, F, length_buffer, keys, stripes, source)
    /\ A[keys] = destination /\ F[keys] = n
    /\ j \in 0 .. keys
    /\ key = destination + (keys - 1 - j) /\ in = A[j]
    /\ DOMAIN out = 0 .. F[j] - 1
    /\ \A i \in 0 .. F[j] - 1 : out[i] = source[i]

DecodeInv ==
    /\ SourceOK
    /\ keys \in Nat \ {0} /\ destination \in Nat /\ destination + keys <= 5 * n
    /\ selectors = [k \in 0 .. keys - 1 |-> length_buffer[keys - 1 - k]]
    /\ \E A, F, j : Decoded(A, F, j)

NothingRead == in = 0 /\ out = <<>>

\* Behind the stripes the selectors are found in the order in which the decoder reads them.
LEMMA CopyKeysKeeps ==
    ASSUME WriteInv, run = n, CopyKeys
    PROVE  DecodeInv'
<1>1. /\ selectors' = [k \in 0 .. keys - 1 |-> length_buffer[keys - 1 - k]]
      /\ in' = 0 /\ key' = destination + keys - 1 /\ out' = <<>>
      /\ source' = source /\ length_buffer' = length_buffer /\ keys' = keys
      /\ stripes' = stripes /\ destination' = destination
  BY DEF CopyKeys
<1>2. /\ SourceOK /\ n \in Nat \ {0} /\ keys \in Nat /\ destination \in Nat
      /\ destination + keys <= 5 * n
  BY DEF WriteInv, SourceOK
<1>3. SourceOK' /\ n' = n
  BY <1>1, <1>2, SourceStays
<1>4. PICK A, F : /\ Batched(A, F, length_buffer, keys, stripes, source)
                  /\ A[keys] = destination /\ F[keys] = n
  BY DEF WriteInv, Written
<1>5. A[0] = 0 /\ F[0] = 0
  BY <1>4 DEF Batched
<1>6. keys # 0
  BY <1>2, <1>4, <1>5
<1>7. DOMAIN out' = 0 .. F[0] - 1
  BY <1>1, <1>5
<1>8. \A i \in 0 .. F[0] - 1 : out'[i] = source[i]
  BY <1>5
<1>9. destination + keys - 1 = destination + (keys - 1 - 0) /\ 0 \in 0 .. keys
  BY <1>2
<1>10. Decoded(A, F, 0)'
  BY <1>1, <1>3, <1>4, <1>5, <1>7, <1>8, <1>9 DEF Decoded
<1> QED
  BY <1>1, <1>2, <1>3, <1>6, <1>10 DEF DecodeInv

\* Where the decoder stands.
LEMMA Pointers ==
    ASSUME DecodeInv, NEW A, NEW F, NEW j, Decoded(A, F, j)
    PROVE  /\ A[j] \in 0 .. destination /\ F[j] \in 0 .. n /\ F[j] \in Nat
           /\ in = A[j] /\ Cardinality(DOMAIN out) = F[j] /\ IsFiniteSet(DOMAIN out)
           /\ j < keys => key \in destination .. nvalue - 1 /\ in <= key
           /\ j = keys => in > key /\ F[j] = n /\ A[j] = destination
<1>1. /\ keys \in Nat \ {0} /\ destination \in Nat /\ n \in Nat
      /\ A[keys] = destination /\ F[keys] = n /\ j \in 0 .. keys
      /\ key = destination + (keys - 1 - j) /\ in = A[j] /\ DOMAIN out = 0 .. F[j] - 1
  BY DEF DecodeInv, Decoded, SourceOK
<1>2. /\ A \in [0 .. keys -> Nat] /\ F \in [0 .. keys -> Nat]
      /\ \A i \in 0 .. keys : A[i] <= A[keys] /\ F[i] <= F[keys]
  BY DEF Decoded, Batched
<1>3. A[j] \in 0 .. destination /\ F[j] \in 0 .. n
  BY <1>1, <1>2
<1>4. Cardinality(DOMAIN out) = F[j] /\ IsFiniteSet(DOMAIN out)
  <2>1. F[j] \in Nat
    BY <1>3
  <2>2. /\ IsFiniteSet(0 .. F[j] - 1)
        /\ Cardinality(0 .. F[j] - 1) = IF 0 > F[j] - 1 THEN 0 ELSE F[j] - 1 - 0 + 1
    <3>1. 0 \in Int /\ F[j] - 1 \in Int
      BY <2>1
    <3> QED
      BY <3>1, FS_Interval
  <2> QED
    BY <1>1, <2>1, <2>2
<1>5. j < keys => key \in destination .. nvalue - 1 /\ in <= key
  BY <1>1, <1>3 DEF nvalue
<1>6. j = keys => in > key
  BY <1>1, <1>3
<1> QED
  BY <1>1, <1>3, <1>4, <1>5, <1>6

\* The selector read next, and the case it leads to.
LEMMA NextCase ==
    ASSUME DecodeInv, NEW A, NEW F, NEW j, Decoded(A, F, j), j < keys
    PROVE  \E w \in AllWidths, b \in 1 .. 16 :
              /\ NextCases = {Unrolled(w, b, b * BytesPerStripe(w), b * Ints(w))}
              /\ A[j + 1] = A[j] + b * BytesPerStripe(w) /\ F[j + 1] = F[j] + b * Ints(w)
              /\ w # 128 => A[j] % 16 = 0 /\ F[j] % 4 = 0
              /\ StripesAt(stripes, A[j], F[j], w, b)
              /\ CoversRun(w, source, F[j], b * Ints(w))
<1>1. /\ keys \in Nat \ {0} /\ destination \in Nat /\ j \in 0 .. keys - 1
      /\ key = destination + (keys - 1 - j)
      /\ selectors = [k \in 0 .. keys - 1 |-> length_buffer[keys - 1 - k]]
  <2>1. j \in 0 .. keys /\ key = destination + (keys - 1 - j)
    BY DEF Decoded
  <2>2. /\ keys \in Nat \ {0} /\ destination \in Nat
        /\ selectors = [k \in 0 .. keys - 1 |-> length_buffer[keys - 1 - k]]
    BY DEF DecodeInv
  <2>3. j \in 0 .. keys - 1
    BY <2>1, <2>2
  <2> QED
    BY <2>1, <2>2, <2>3
<1>2. key - destination \in 0 .. keys - 1 /\ keys - 1 - (key - destination) = j
  BY <1>1
<1>3. key - destination \in DOMAIN selectors /\ selectors[key - destination] = length_buffer[j]
  BY <1>1, <1>2
<1>4. IsBatch(length_buffer[j], A[j], F[j], A[j + 1], F[j + 1], stripes, source)
  BY <1>1 DEF Decoded, Batched
<1>5. PICK w \in AllWidths, b \in 1 .. 16 :
        /\ length_buffer[j] = SelectorByte(w, b)
        /\ A[j + 1] = A[j] + b * BytesPerStripe(w) /\ F[j + 1] = F[j] + b * Ints(w)
        /\ w # 128 => A[j] % 16 = 0 /\ F[j] % 4 = 0
        /\ StripesAt(stripes, A[j], F[j], w, b)
        /\ CoversRun(w, source, F[j], b * Ints(w))
  BY <1>4 DEF IsBatch
<1>6. NextCases = {DecodeSwitch[length_buffer[j] + 1]}
  BY <1>3 DEF NextCases
<1>7. NextCases = {Unrolled(w, b, b * BytesPerStripe(w), b * Ints(w))}
  BY <1>5, <1>6, CasesAreRight
<1> QED
  BY <1>5, <1>7


\* The stripe and the slot of value k of a batch of b stripes of c values.
LEMMA StripeOfSlot ==
    ASSUME NEW b \in Nat, NEW c \in Nat \ {0}, NEW k \in 0 .. b * c - 1
    PROVE  /\ k \div c \in 0 .. b - 1 /\ k % c \in 0 .. c - 1
           /\ (k \div c) * c + (k % c) = k
<1> DEFINE d == k \div c  r == k % c
<1>1. b * c \in Nat
  OBVIOUS
<1>2. k \in Nat /\ k < b * c
  BY <1>1
<1>3. d \in Nat /\ r \in 0 .. c - 1 /\ k = c * d + r
  BY <1>2, DivMod
<1> HIDE DEF d, r
<1>4. d * c + r = k
  BY <1>3
<1>5. d < b
  <2>1. CASE d >= b
    <3> DEFINE x == b * c  y == d * c
    <3>1. x <= y /\ x \in Nat /\ y \in Nat
      BY <2>1, <1>3, Products
    <3>2. y + r = k /\ k < x
      BY <1>2, <1>4
    <3> HIDE DEF x, y
    <3> QED
      BY <3>1, <3>2, <1>2, <1>3
  <2> QED
    BY <2>1, <1>3
<1>6. d \in 0 .. b - 1 /\ r \in 0 .. c - 1 /\ d * c + r = k
  BY <1>3, <1>4, <1>5
<1> QED
  BY <1>6 DEF d, r

\* A slot of a stripe that was written holds its value.
LEMMA SlotHolds ==
    ASSUME SourceOK, NEW w \in AllWidths, NEW a, NEW first \in Nat, NEW r \in Nat,
           first + r < n, Covers(w, source[first + r]),
           w # 0 => a \in DOMAIN stripes /\ stripes[a] = [width |-> w, first |-> first]
    PROVE  Slot(w, a, r) = source[first + r]
<1>1. CASE w = 0
  <2>1. source[first + r] = 1
    BY <1>1 DEF Covers
  <2> QED
    BY <1>1, <2>1 DEF Slot
<1>2. CASE w # 0
  <2>1. stripes[a].width = w /\ stripes[a].first = first /\ a \in DOMAIN stripes
    BY <1>2
  <2>2. w \in {32, 128} \/ source[first + r] < 2 ^ w
    BY <1>2 DEF Covers
  <2> QED
    BY <1>2, <2>1, <2>2 DEF Slot
<1> QED
  BY <1>1, <1>2

\* What a case stores is what was encoded.
LEMMA StoredIsSource ==
    ASSUME SourceOK, NEW w \in AllWidths, NEW b \in 1 .. 16, NEW case,
           case = Unrolled(w, b, b * BytesPerStripe(w), b * Ints(w)),
           NEW to \in Nat, to + b * Ints(w) <= n,
           StripesAt(stripes, in, to, w, b), CoversRun(w, source, to, b * Ints(w)),
           NEW i \in to .. to + b * Ints(w) - 1
    PROVE  Stored(case, to)[i] = source[i]
<1> DEFINE c == Ints(w)  p == BytesPerStripe(w)  bc == b * c  k == i - to
           d == k \div c  r == k % c
           Value(x) == IF x < case.times * Ints(case.width)
                       THEN Slot(case.width,
                                 in + (x \div Ints(case.width)) * BytesPerStripe(case.width),
                                 x % Ints(case.width))
                       ELSE Garbage
<1>1. case.width = w /\ case.times = b /\ case.to = bc
  BY DEF Unrolled
<1>2. c \in Nat \ {0} /\ n \in Nat
  <2>1. Ints(w) \in 1 .. 256
    BY StripeFacts
  <2>2. n \in Nat
    BY DEF SourceOK
  <2> QED
    BY <2>1, <2>2
<1> HIDE DEF c
<1>3. bc \in Nat
  BY <1>2
<1>4. to + bc <= n /\ i \in to .. to + bc - 1
  BY DEF c
<1>5. k \in 0 .. bc - 1
  <2> HIDE DEF bc
  <2> QED
    BY <1>3, <1>4
<1>6. d \in 0 .. b - 1 /\ r \in 0 .. c - 1 /\ d * c + r = k
  <2> HIDE DEF k
  <2>1. k \in 0 .. b * c - 1 /\ b \in Nat
    BY <1>5
  <2> QED
    BY <1>2, <2>1, StripeOfSlot
<1>7. Stored(case, to)[i] = Value(k)
  <2>1. w \in {0, 128} \/ Recovered(w)
    BY AllRecovered DEF AllWidths
  <2>2. Stored(case, to) = [x \in to .. to + case.to - 1 |-> Value(x - to)]
    BY <1>1, <2>1 DEF Stored
  <2> HIDE DEF Value, bc
  <2> QED
    BY <1>1, <1>4, <2>2
<1>8. Value(k) = Slot(w, in + d * p, r)
  <2>1. k < b * c
    BY <1>3, <1>5
  <2> QED
    BY <1>1, <2>1 DEF c
<1> HIDE DEF Value, d, r
<1>9. Slot(w, in + d * p, r) = source[i]
  <2> DEFINE dc == d * c  first == to + dc
  <2>1. dc \in Nat /\ dc + r = k
    BY <1>2, <1>6
  <2> HIDE DEF bc, dc
  <2>2. first \in Nat /\ r \in Nat /\ first + r = i /\ i < n
    BY <1>2, <1>3, <1>4, <1>6, <2>1
  <2>3. Covers(w, source[i])
    BY <1>4 DEF CoversRun, bc, c
  <2>4. w # 0 => /\ in + d * p \in DOMAIN stripes
                 /\ stripes[in + d * p] = [width |-> w, first |-> first]
    BY <1>6 DEF StripesAt, dc, c
  <2> HIDE DEF first, p
  <2>5. Slot(w, in + d * p, r) = source[first + r]
    BY <2>2, <2>3, <2>4, SlotHolds
  <2> QED
    BY <2>2, <2>5
<1> QED
  BY <1>7, <1>8, <1>9

\* One turn of the decoder does one batch.
LEMMA DecodeKeeps ==
    ASSUME DecodeInv, Decode
    PROVE  DecodeInv'
<1>1. PICK A, F, j : Decoded(A, F, j)
  BY DEF DecodeInv
<1>2. /\ in <= key /\ key' = key - 1
      /\ source' = source /\ length_buffer' = length_buffer /\ keys' = keys
      /\ stripes' = stripes /\ destination' = destination /\ selectors' = selectors
      /\ \E case \in NextCases, to \in {Cardinality(DOMAIN out)} :
            \E stored \in {Stored(case, to)} :
               /\ out' = [i \in 0 .. to + case.to - 1 |-> IF i < to THEN out[i] ELSE stored[i]]
               /\ in' = in + case.in
  BY DEF Decode, encoding
<1>3. /\ A[j] \in 0 .. destination /\ F[j] \in 0 .. n /\ F[j] \in Nat
      /\ in = A[j] /\ Cardinality(DOMAIN out) = F[j]
      /\ j = keys => in > key
  BY <1>1, Pointers
<1>4. /\ SourceOK /\ n \in Nat /\ keys \in Nat \ {0} /\ destination \in Nat
      /\ j \in 0 .. keys /\ key = destination + (keys - 1 - j)
      /\ DOMAIN out = 0 .. F[j] - 1 /\ \A i \in 0 .. F[j] - 1 : out[i] = source[i]
      /\ Batched(A, F, length_buffer, keys, stripes, source)
      /\ A[keys] = destination /\ F[keys] = n
  BY <1>1 DEF DecodeInv, Decoded, SourceOK
<1>5. j # keys
  <2>1. in \in Nat /\ key \in Int
    BY <1>3, <1>4
  <2> QED
    BY <1>2, <1>3, <2>1
<1>6. j \in 0 .. keys - 1 /\ j + 1 \in 0 .. keys
  BY <1>4, <1>5
<1>7. PICK w \in AllWidths, b \in 1 .. 16 :
        /\ NextCases = {Unrolled(w, b, b * BytesPerStripe(w), b * Ints(w))}
        /\ A[j + 1] = A[j] + b * BytesPerStripe(w) /\ F[j + 1] = F[j] + b * Ints(w)
        /\ w # 128 => A[j] % 16 = 0 /\ F[j] % 4 = 0
        /\ StripesAt(stripes, A[j], F[j], w, b)
        /\ CoversRun(w, source, F[j], b * Ints(w))
  BY <1>1, <1>4, <1>6, NextCase
<1> DEFINE case == Unrolled(w, b, b * BytesPerStripe(w), b * Ints(w))
           to == F[j]  stored == Stored(case, to)  bc == b * Ints(w)
<1>8. case.in = b * BytesPerStripe(w) /\ case.to = bc
  BY DEF Unrolled
<1>9. bc \in Nat
  BY StripeFacts
<1>10. F[j + 1] = to + bc /\ F[j + 1] \in 0 .. n
  <2>1. F[j + 1] <= F[keys] /\ F[j + 1] \in Nat
    BY <1>4, <1>6 DEF Batched
  <2> QED
    BY <1>4, <1>7, <2>1
<1>11. /\ out' = [i \in 0 .. to + case.to - 1 |-> IF i < to THEN out[i] ELSE stored[i]]
       /\ in' = in + case.in
  BY <1>2, <1>3, <1>7
<1>12. in' = A[j + 1]
  BY <1>3, <1>7, <1>8, <1>11
<1>13. /\ DOMAIN out' = 0 .. F[j + 1] - 1
       /\ \A i \in 0 .. F[j + 1] - 1 : out'[i] = IF i < to THEN out[i] ELSE stored[i]
  <2> HIDE DEF to, bc, stored, case
  <2>1. to + case.to - 1 = F[j + 1] - 1
    <3>1. case.to = bc /\ bc \in Nat /\ to \in Nat /\ F[j + 1] = to + bc
      BY <1>3, <1>8, <1>9, <1>10 DEF to
    <3> QED
      BY <3>1
  <2>2. out' = [i \in 0 .. F[j + 1] - 1 |-> IF i < to THEN out[i] ELSE stored[i]]
    BY <1>11, <2>1
  <2> QED
    BY <2>2
<1>14. ASSUME NEW i \in 0 .. F[j + 1] - 1 PROVE out'[i] = source[i]
  <2>1. CASE i < to
    <3>1. i \in 0 .. F[j] - 1
      BY <1>3, <2>1
    <3> QED
      BY <3>1, <2>1, <1>4, <1>13
  <2>2. CASE ~(i < to)
    <3>1. i \in to .. to + bc - 1 /\ to \in Nat /\ to + bc <= n
      <4> HIDE DEF to, bc
      <4> QED
        BY <1>3, <1>9, <1>10, <2>2, <1>4 DEF to
    <3>2. StripesAt(stripes, in, to, w, b) /\ CoversRun(w, source, to, b * Ints(w))
      BY <1>3, <1>7
    <3>3. stored[i] = source[i]
      <4> HIDE DEF case, to
      <4>1. case = Unrolled(w, b, b * BytesPerStripe(w), b * Ints(w))
        BY DEF case
      <4> QED
        <5>1. to \in Nat /\ to + b * Ints(w) <= n /\ i \in to .. to + b * Ints(w) - 1
          BY <3>1
        <5>2. SourceOK
          BY <1>4
        <5> HIDE DEF bc
        <5>3. Stored(case, to)[i] = source[i]
          BY <5>1, <5>2, <3>2, <4>1, StoredIsSource
        <5> QED
          BY <5>3
    <3> QED
      BY <3>3, <2>2, <1>13
  <2> QED
    BY <2>1, <2>2
<1>15. key' = destination + (keys - 1 - (j + 1))
  BY <1>2, <1>4
<1>16. SourceOK' /\ n' = n
  BY <1>2, <1>4, SourceStays
<1>17. Decoded(A, F, j + 1)'
  <2> HIDE DEF to, bc, stored, case
  <2> QED
    BY <1>2, <1>4, <1>6, <1>12, <1>13, <1>14, <1>15, <1>16 DEF Decoded
<1> QED
  BY <1>2, <1>16, <1>17 DEF DecodeInv


-----------------------------------------------------------------------------
(* The invariant.                                                          *)

\* What each phase has established: nothing but the array, the plan, the runs
\* written and those left, all of them written, the batches decoded.
IInv ==
    /\ phase \in {"measure", "plan", "write", "selectors", "decode", "done"}
    /\ phase = "measure" => SourceOK /\ pos = 0 /\ NothingWritten /\ NothingRead
    /\ phase = "plan" => PlanInv /\ NothingWritten /\ NothingRead
    /\ phase = "write" => WriteInv /\ ToWrite /\ NothingRead
    /\ phase = "selectors" => WriteInv /\ run = n /\ NothingRead
    /\ phase = "decode" => DecodeInv
    /\ phase = "done" => DecodeInv /\ in > key

\* The first state has only the array.
THEOREM QmxStarts ==
    Init => IInv
<1>1. SUFFICES ASSUME Init PROVE IInv
  OBVIOUS
<1>2. SourceOK
  BY <1>1, SourceInit DEF Init
<1> QED
  BY <1>1, <1>2 DEF Init, IInv, NothingWritten, NothingRead

\* Every step of the two calls keeps the invariant.
THEOREM QmxSteps ==
    IInv /\ [Next]_vars => IInv'
<1>1. SUFFICES ASSUME IInv, [Next]_vars PROVE IInv'
  OBVIOUS
<1> USE <1>1
<1>2. CASE Measure
  <2>1. phase = "measure" /\ phase' = "plan"
    BY <1>2 DEF Measure
  <2>2. PlanInv'
    BY <1>2, <2>1, MeasureCovers DEF IInv
  <2>3. NothingWritten' /\ NothingRead'
    BY <1>2, <2>1 DEF IInv, NothingWritten, NothingRead, Measure, decoding
  <2> QED
    BY <2>1, <2>2, <2>3 DEF IInv
<1>3. CASE Plan
  <2>1. phase = "plan" /\ phase' = "plan"
    BY <1>3 DEF Plan
  <2>2. PlanInv'
    BY <1>3, <2>1, PlanKeeps DEF IInv
  <2>3. NothingWritten' /\ NothingRead'
    <3>1. /\ run' = run /\ keys' = keys /\ stripes' = stripes /\ destination' = destination
          /\ in' = in /\ out' = out
      BY <1>3 DEF Plan, decoding
    <3> QED
      BY <3>1, <2>1 DEF IInv, NothingWritten, NothingRead
  <2> QED
    BY <2>1, <2>2, <2>3 DEF IInv
<1>4. CASE StartWriting
  <2>1. phase = "plan" /\ phase' = "write"
    BY <1>4 DEF StartWriting
  <2>2. WriteInv' /\ ToWrite'
    BY <1>4, <2>1, StartWritingKeeps DEF IInv
  <2>3. NothingRead'
    BY <1>4, <2>1 DEF IInv, NothingRead, StartWriting, decoding
  <2> QED
    BY <2>1, <2>2, <2>3 DEF IInv
<1>5. CASE WriteRun
  <2>1. phase = "write"
    BY <1>5 DEF WriteRun
  <2>2. /\ WriteInv'
        /\ IF run' < n THEN phase' = "write" /\ ToWrite'
           ELSE phase' = "selectors" /\ run' = n
    BY <1>5, <2>1, WriteRunKeeps DEF IInv
  <2>3. NothingRead' /\ source' = source
    BY <1>5, <2>1 DEF IInv, NothingRead, WriteRun, decoding
  <2>4. n' = n
    BY <2>3 DEF n
  <2> QED
    BY <2>2, <2>3, <2>4 DEF IInv
<1>6. CASE CopyKeys
  <2>1. phase = "selectors" /\ phase' = "decode"
    BY <1>6 DEF CopyKeys
  <2>2. DecodeInv'
    BY <1>6, <2>1, CopyKeysKeeps DEF IInv
  <2> QED
    BY <2>1, <2>2 DEF IInv
<1>7. CASE Decode
  <2>1. phase = "decode" /\ phase' = "decode"
    BY <1>7 DEF Decode
  <2>2. DecodeInv'
    BY <1>7, <2>1, DecodeKeeps DEF IInv
  <2> QED
    BY <2>1, <2>2 DEF IInv
<1>8. CASE Return
  <2>1. phase = "decode" /\ phase' = "done" /\ in > key
    BY <1>8 DEF Return
  <2>2. UNCHANGED <<source, encoding, decoding>>
    BY <1>8 DEF Return
  <2>3. DecodeInv' /\ (in > key)'
    BY <2>1, <2>2 DEF IInv, DecodeInv, Decoded, SourceOK, n, encoding, decoding
  <2> QED
    BY <2>1, <2>3 DEF IInv
<1>9. CASE UNCHANGED vars
  BY <1>9 DEF vars, encoding, decoding, IInv, SourceOK, NothingWritten, NothingRead, PlanInv,
     PosOK, WriteInv, ToWrite, Written, DecodeInv, Decoded, n
<1> QED
  BY <1>2, <1>3, <1>4, <1>5, <1>6, <1>7, <1>8, <1>9 DEF Next

\* The invariant holds throughout both calls.
THEOREM QmxInvariant ==
    Spec => []IInv
BY QmxStarts, QmxSteps, PTL DEF Spec

\* Where nothing has been read yet, the decoder's properties hold of nothing.
LEMMA BeforeDecoding ==
    ASSUME IInv, phase \notin {"decode", "done"}
    PROVE  /\ n \in Nat /\ in = 0 /\ DOMAIN out = {} /\ Cardinality(DOMAIN out) = 0
           /\ destination \in Nat
<1>1. in = 0 /\ out = <<>>
  BY DEF IInv, NothingRead
<1>2. DOMAIN out = {}
  BY <1>1
<1>3. n \in Nat /\ destination \in Nat
  BY DEF IInv, PlanInv, SourceOK, NothingWritten, WriteInv
<1> QED
  BY <1>1, <1>2, <1>3, FS_EmptySet

\* Where the decoder is done, every batch is.
LEMMA AllDecoded ==
    ASSUME DecodeInv, NEW A, NEW F, NEW j, Decoded(A, F, j), in > key
    PROVE  j = keys
<1>1. j < keys => in <= key /\ key \in destination .. nvalue - 1
  BY Pointers
<1>2. /\ keys \in Nat /\ j \in 0 .. keys /\ destination \in Nat
      /\ A[j] \in 0 .. destination /\ in = A[j]
  BY Pointers DEF DecodeInv, Decoded
<1> QED
  BY <1>1, <1>2 DEF nvalue

\* What was decoded so far is the beginning of the array, in the end all of it.
LEMMA RoundTripFollows ==
    IInv => RoundTrip
<1>1. SUFFICES ASSUME IInv PROVE RoundTrip
  OBVIOUS
<1>2. CASE phase \notin {"decode", "done"}
  BY <1>1, <1>2, BeforeDecoding DEF RoundTrip
<1>3. CASE phase \in {"decode", "done"}
  <2>1. DecodeInv /\ (phase = "done" => in > key)
    BY <1>1, <1>3 DEF IInv
  <2>2. PICK A, F, j : Decoded(A, F, j)
    BY <2>1 DEF DecodeInv
  <2>3. DOMAIN out = 0 .. F[j] - 1 /\ \A i \in 0 .. F[j] - 1 : out[i] = source[i]
    BY <2>2 DEF Decoded
  <2>4. phase = "done" => Cardinality(DOMAIN out) = n
    BY <2>1, <2>2, AllDecoded, Pointers
  <2> QED
    BY <2>3, <2>4 DEF RoundTrip
<1> QED
  BY <1>2, <1>3

\* The two pointers stay on their sides.
LEMMA NoOverrunFollows ==
    IInv => NoOverrun
<1>1. SUFFICES ASSUME IInv PROVE NoOverrun
  OBVIOUS
<1>2. CASE phase \notin {"decode", "done"}
  <2>1. n \in Nat /\ in = 0 /\ Cardinality(DOMAIN out) = 0 /\ destination \in Nat
    BY <1>1, <1>2, BeforeDecoding
  <2> QED
    BY <1>2, <2>1 DEF NoOverrun
<1>3. CASE phase \in {"decode", "done"}
  <2>1. DecodeInv
    BY <1>1, <1>3 DEF IInv
  <2>2. PICK A, F, j : Decoded(A, F, j)
    BY <2>1 DEF DecodeInv
  <2>3. /\ A[j] \in 0 .. destination /\ F[j] \in 0 .. n /\ in = A[j]
        /\ Cardinality(DOMAIN out) = F[j]
        /\ j < keys => key \in destination .. nvalue - 1
        /\ j = keys => in > key
    BY <2>1, <2>2, Pointers
  <2>4. /\ j \in 0 .. keys /\ keys \in Nat /\ destination \in Nat /\ n \in Nat
        /\ key = destination + (keys - 1 - j)
    BY <2>1, <2>2 DEF DecodeInv, Decoded, SourceOK
  <2>5. Cardinality(DOMAIN out) <= n /\ in <= destination
    BY <2>3, <2>4
  <2>6. in <= key => key \in destination .. nvalue - 1
    BY <2>3, <2>4
  <2> QED
    BY <2>5, <2>6 DEF NoOverrun
<1> QED
  BY <1>2, <1>3

\* Whole stripes come before single words, so loads and stores are aligned.
LEMMA LoadsAlignedFollows ==
    IInv => LoadsAligned
<1>1. SUFFICES ASSUME IInv, phase = "decode", in <= key, NEW case \in NextCases
               PROVE  /\ case.width \notin {0, 8, 128} => in % 16 = 0
                      /\ case.width # 128 => Cardinality(DOMAIN out) % 4 = 0
  BY DEF LoadsAligned
<1>2. DecodeInv
  BY <1>1 DEF IInv
<1>3. PICK A, F, j : Decoded(A, F, j)
  BY <1>2 DEF DecodeInv
<1>4. /\ A[j] \in 0 .. destination /\ in = A[j] /\ Cardinality(DOMAIN out) = F[j]
      /\ j = keys => in > key
  BY <1>2, <1>3, Pointers
<1>5. /\ j \in 0 .. keys /\ keys \in Nat /\ destination \in Nat
      /\ key = destination + (keys - 1 - j)
  BY <1>2, <1>3 DEF DecodeInv, Decoded
<1>6. j < keys
  BY <1>1, <1>4, <1>5
<1>7. PICK w \in AllWidths, b \in 1 .. 16 :
        /\ NextCases = {Unrolled(w, b, b * BytesPerStripe(w), b * Ints(w))}
        /\ w # 128 => A[j] % 16 = 0 /\ F[j] % 4 = 0
  BY <1>2, <1>3, <1>6, NextCase
<1>8. case.width = w
  BY <1>1, <1>7 DEF Unrolled
<1> QED
  BY <1>4, <1>7, <1>8

\* An array of at least one value takes at least one byte.
LEMMA SizeBoundFollows ==
    IInv => SizeBound
<1>1. SUFFICES ASSUME IInv, phase \in {"decode", "done"} PROVE nvalue \in 1 .. 5 * n
  BY DEF SizeBound
<1>2. DecodeInv
  BY <1>1 DEF IInv
<1>3. keys \in Nat \ {0} /\ destination \in Nat /\ destination + keys <= 5 * n /\ n \in Nat
  BY <1>2 DEF DecodeInv, SourceOK
<1> QED
  BY <1>3 DEF nvalue

\* There are never more selectors than values written.
LEMMA KeysTrailRunFollows ==
    IInv => KeysTrailRun
<1>1. SUFFICES ASSUME IInv, phase \in {"write", "selectors"} PROVE keys <= run
  BY DEF KeysTrailRun
<1>2. WriteInv
  BY <1>1 DEF IInv
<1> QED
  BY <1>2 DEF WriteInv

-----------------------------------------------------------------------------
\* Whatever array encodeArray is given, decodeArray stores a prefix of it and,
\* when it returns, all of it: the plan, the runs, the selectors, the 256 cases
\* of the generated switch and the bit layouts of all the widths agree.
THEOREM QmxRoundTrip ==
    Spec => []RoundTrip
BY QmxInvariant, RoundTripFollows, PTL

\* decodeArray never stores past the integers encoded, never takes stripes for
\* selectors and never reads stripes from the selectors.
THEOREM QmxNoOverrun ==
    Spec => []NoOverrun
BY QmxInvariant, NoOverrunFollows, PTL

\* Every aligned load of decodeArray is at a multiple of 16 bytes, every store
\* of four integers at a multiple of four.
THEOREM QmxLoadsAligned ==
    Spec => []LoadsAligned
BY QmxInvariant, LoadsAlignedFollows, PTL

\* encodeArray returns at least one and at most five bytes per integer.
THEOREM QmxSizeBound ==
    Spec => []SizeBound
BY QmxInvariant, SizeBoundFollows, PTL

\* The selectors kept in length_buffer never reach the widths still to be read.
THEOREM QmxKeysTrailRun ==
    Spec => []KeysTrailRun
BY QmxInvariant, KeysTrailRunFollows, PTL

=============================================================================
