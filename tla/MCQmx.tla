-------------------------------- MODULE MCQmx --------------------------------
(***************************************************************************)
(* Arrays for the QMX codec: one or two runs of equal values and an end of *)
(* up to 19 values, so that every width is chosen, promoted to and cut     *)
(* short; and runs of one width long enough for each of its selectors.     *)
(***************************************************************************)
EXTENDS Qmx

Values == {0, 1, 3, 29, 60, 127, 255, 256, 1000, 4095, 65535, 1048576, 2147483647}

Then(head, a, tail, b) ==
    [i \in 0 .. head + tail - 1 |-> IF i < head THEN a ELSE b]

\* Fewer than sixteen values, where the rules for short ends apply at once.
Short == {Then(h, a, t, b) : h \in {1, 4, 7}, t \in {0, 2, 5, 8},
                             a \in Values, b \in {1, 200, 60000}}

\* A stripe or two and an end of another width.
Mixed == {Then(h, a, t, b) : h \in {20, 40}, t \in {0, 3, 5, 11, 19},
                             a \in Values, b \in {1, 255, 511, 2000000}}
         \cup {Then(h, a, t, b) : h \in {128, 256, 260}, t \in {0, 2, 7},
                                  a \in {0, 1}, b \in {1, 300}}

\* The largest value of each width; runs of r stripes ask for selector 16 - r.
Widest(w) ==
    IF w = 0 THEN 1 ELSE IF w = 32 THEN 2147483647 ELSE 2 ^ w - 1 - (IF w = 1 THEN 1 ELSE 0)
Long == {[i \in 0 .. r * Ints(w) - 1 |-> Widest(w)] : r \in 1 .. 16, w \in Widths}

\* Seventeen stripes: a run that needs two selectors.
TwoBatches == {[i \in 0 .. 17 * 4 - 1 |-> Widest(32)]}

Arrays == TwoBatches \cup Short \cup Mixed \cup Long
=============================================================================
