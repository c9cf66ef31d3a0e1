---------------------------- MODULE CommonLemmas ----------------------------
(***************************************************************************)
(* Facts that the proofs about several components cite: a set of naturals  *)
(* has a least element, quotients and remainders behave, a sum over a      *)
(* finite set can be taken in any order, a heap of results has a top; and  *)
(* what the operators of PostingsList return, for every block size and     *)
(* every list: which block a position is in, the order of the block        *)
(* representatives, the two searches skip_to_id is made of, and where it   *)
(* lands.                                                                  *)
(***************************************************************************)
EXTENDS PostingsList, ScoreOrder, FiniteSetTheorems, TLAPS

-----------------------------------------------------------------------------
(* Numbers.                                                                *)

\* A non-empty set of naturals has a least element.
LEMMA LeastExists ==
    ASSUME NEW S \in SUBSET Nat, S # {}
    PROVE  \E x \in S : \A y \in S : x <= y
<1> DEFINE R == OpToRel(<, Nat)
<1>1. R = {ss \in Nat \X Nat : ss[1] < ss[2]}
  BY DEF OpToRel
<1>2. IsWellFoundedOn(R, Nat)
  BY NatLessThanWellFounded
<1> HIDE DEF R
<1>3. PICK x \in S : \A y \in S : ~(<<y, x>> \in R)
  BY <1>2, WFMin
<1>4. \A y \in S : (y < x) => <<y, x>> \in R
  BY <1>1
<1>5. \A y \in S : ~(y < x)
  BY <1>3, <1>4
<1>6. \A y \in S : x <= y
  BY <1>5
<1> QED
  BY <1>6

\* Quotient and remainder by the block size.
LEMMA DivMod ==
    ASSUME NEW b \in Nat \ {0}, NEW p \in Nat
    PROVE  /\ p \div b \in Nat
           /\ p % b \in 0 .. b - 1
           /\ p = b * (p \div b) + (p % b)
OBVIOUS

\* The multiples of a number are at least that number apart.
LEMMA MulMono ==
    ASSUME NEW b \in Nat \ {0}, NEW p \in Nat, NEW q \in Nat, p < q
    PROVE  b * p + b <= b * q
OBVIOUS

\* A quotient and a remainder determine their number.
LEMMA DivUnique ==
    ASSUME NEW b \in Nat \ {0}, NEW q \in Nat, NEW r \in 0 .. b - 1
    PROVE  (b * q + r) \div b = q /\ (b * q + r) % b = r
OBVIOUS

\* Quotients keep the order.
LEMMA DivMono ==
    ASSUME NEW b \in Nat \ {0}, NEW p \in Nat, NEW q \in Nat, p <= q
    PROVE  p \div b <= q \div b
<1>1. p = b * (p \div b) + (p % b) /\ q = b * (q \div b) + (q % b)
  BY DivMod
<1>2. p \div b \in Nat /\ q \div b \in Nat /\ p % b \in 0 .. b - 1 /\ q % b \in 0 .. b - 1
  BY DivMod
<1>3. SUFFICES ASSUME q \div b < p \div b PROVE FALSE
  BY <1>2
<1>4. b * (q \div b) + b <= b * (p \div b)
  BY <1>2, <1>3, MulMono
<1> DEFINE s == b * (q \div b)  t == b * (p \div b)
<1>5. s \in Nat /\ t \in Nat
  BY <1>2
<1> QED
  BY <1>1, <1>2, <1>4, <1>5

-----------------------------------------------------------------------------
(* Sums over finite sets.                                                  *)

\* Induction over the subsets of a finite set, with the set of those that
\* have the property in the place of the property.
LEMMA SubsetInduction ==
    ASSUME NEW S, IsFiniteSet(S), NEW G, {} \in G,
           \A T \in SUBSET S : (T # {} /\ \A x \in T : T \ {x} \in G) => T \in G
    PROVE  S \in G
<1> DEFINE bad == {T \in SUBSET S : T \notin G}
           sizes == {Cardinality(T) : T \in bad}
<1>1. SUFFICES ASSUME S \notin G PROVE FALSE
  OBVIOUS
<1>2. \A T \in SUBSET S : IsFiniteSet(T) /\ Cardinality(T) \in Nat
  BY FS_Subset, FS_CardinalityType
<1>3. sizes \in SUBSET Nat /\ sizes # {}
  BY <1>1, <1>2
<1>4. PICK n \in sizes : \A m \in sizes : n <= m
  BY <1>3, LeastExists
<1>5. PICK T \in bad : Cardinality(T) = n
  BY <1>4
<1>6. ASSUME NEW x \in T PROVE T \ {x} \in G
  <2>1. Cardinality(T \ {x}) = Cardinality(T) - 1
    BY <1>2, <1>5, FS_RemoveElement
  <2>2. SUFFICES ASSUME T \ {x} \in bad PROVE FALSE
    BY <1>5
  <2>3. n <= Cardinality(T \ {x})
    BY <2>2, <1>4
  <2>4. Cardinality(T) \in Nat
    BY <1>2, <1>5
  <2> QED
    BY <2>1, <2>3, <2>4, <1>5
<1> QED
  BY <1>5, <1>6

\* h sums f over every set of D: the recursion SumFunctionOnSet is made of.
Sums(h, f, D) ==
    h = [s \in D |-> IF s = {} THEN 0
                     ELSE f[CHOOSE x \in s : TRUE] + h[s \ {CHOOSE x \in s : TRUE}]]

\* There is such a function.
LEMMA SumsExist ==
    ASSUME NEW S, IsFiniteSet(S), NEW f
    PROVE  \E h : Sums(h, f, SUBSET S)
<1> DEFINE Upto(n) == {T \in SUBSET S : Cardinality(T) <= n}
           G == {n \in Nat : \E h : Sums(h, f, Upto(n))}
<1>1. \A T \in SUBSET S : IsFiniteSet(T) /\ Cardinality(T) \in Nat
                          /\ (Cardinality(T) = 0 <=> T = {})
  BY FS_Subset, FS_CardinalityType, FS_EmptySet
<1>2. 0 \in G
  <2> DEFINE h == [s \in Upto(0) |-> 0]
  <2>1. \A s \in Upto(0) : s = {}
    BY <1>1
  <2>2. Sums(h, f, Upto(0))
    BY <2>1 DEF Sums
  <2> QED
    BY <2>2
<1>3. ASSUME NEW n \in Nat, n \in G PROVE n + 1 \in G
  <2>1. PICK h : Sums(h, f, Upto(n))
    BY <1>3
  <2> DEFINE e(g, s) == f[CHOOSE x \in s : TRUE] + g[s \ {CHOOSE x \in s : TRUE}]
             k == [s \in Upto(n + 1) |-> IF s = {} THEN 0 ELSE e(h, s)]
  <2>2. ASSUME NEW s \in Upto(n + 1), s # {} PROVE h[s \ {CHOOSE x \in s : TRUE}] = k[s \ {CHOOSE x \in s : TRUE}]
    <3> DEFINE r == s \ {CHOOSE x \in s : TRUE}
    <3>1. Cardinality(r) = Cardinality(s) - 1
      BY <2>2, <1>1, FS_RemoveElement
    <3>2. r \in Upto(n) /\ r \in Upto(n + 1)
      BY <3>1, <1>1
    <3> HIDE DEF r
    <3>3. h[r] = IF r = {} THEN 0 ELSE e(h, r)
      BY <2>1, <3>2 DEF Sums
    <3> QED
      BY <3>2, <3>3 DEF r
  <2>3. \A s \in Upto(n + 1) : s # {} => e(h, s) = e(k, s)
    BY <2>2
  <2>4. Sums(k, f, Upto(n + 1)) <=> k = [s \in Upto(n + 1) |-> IF s = {} THEN 0 ELSE e(k, s)]
    BY DEF Sums
  <2>5. k = [s \in Upto(n + 1) |-> IF s = {} THEN 0 ELSE e(h, s)]
    OBVIOUS
  <2> HIDE DEF k, e, Upto
  <2>6. k = [s \in Upto(n + 1) |-> IF s = {} THEN 0 ELSE e(k, s)]
    BY <2>3, <2>5
  <2>7. Sums(k, f, Upto(n + 1))
    BY <2>4, <2>6
  <2> QED
    BY <2>7
<1>4. ASSUME NEW n \in Nat PROVE n \in G
  <2> DEFINE bad == {m \in Nat : m \notin G}
  <2> HIDE DEF G
  <2>1. SUFFICES ASSUME bad # {} PROVE FALSE
    OBVIOUS
  <2>2. PICK m \in bad : \A i \in bad : m <= i
    <3>1. bad \in SUBSET Nat
      OBVIOUS
    <3> QED
      BY <2>1, <3>1, LeastExists
  <2>3. m # 0 /\ m - 1 \in Nat /\ m = (m - 1) + 1
    BY <1>2, <2>2
  <2>4. m - 1 \in G
    BY <2>2, <2>3
  <2> QED
    BY <1>3, <2>2, <2>3, <2>4
<1>5. Upto(Cardinality(S)) = SUBSET S
  BY FS_Subset, <1>1
<1>6. Cardinality(S) \in G
  BY <1>1, <1>4
<1> QED
  BY <1>5, <1>6

\* The sum is the value of such a function, and of any.
LEMMA SumIsOne ==
    ASSUME NEW S, IsFiniteSet(S), NEW f
    PROVE  \E h : Sums(h, f, SUBSET S) /\ SumFunctionOnSet(f, S) = h[S]
<1> DEFINE iter == CHOOSE h : Sums(h, f, SUBSET S)
<1>1. Sums(iter, f, SUBSET S)
  BY SumsExist
<1>2. SumFunctionOnSet(f, S) = iter[S]
  BY DEF SumFunctionOnSet, FoldFunctionOnSet, MapThenFoldSet, Sums
<1> QED
  BY <1>1, <1>2

\* Two functions that take sums one element at a time agree, whatever their domains.
LEMMA SumsAgree ==
    ASSUME NEW S, IsFiniteSet(S), NEW f, NEW D, NEW E,
           SUBSET S \subseteq D, SUBSET S \subseteq E,
           NEW h, Sums(h, f, D), NEW k, Sums(k, f, E)
    PROVE  h[S] = k[S]
<1> DEFINE G == {T \in SUBSET S : h[T] = k[T]}
<1>1. {} \in G
  BY DEF Sums
<1>2. ASSUME NEW T \in SUBSET S, T # {}, \A x \in T : T \ {x} \in G PROVE T \in G
  <2> DEFINE x == CHOOSE x \in T : TRUE
  <2>1. x \in T
    BY <1>2
  <2>2. h[T] = f[x] + h[T \ {x}] /\ k[T] = f[x] + k[T \ {x}]
    BY <1>2 DEF Sums
  <2> HIDE DEF x
  <2>3. h[T \ {x}] = k[T \ {x}]
    BY <1>2, <2>1
  <2> QED
    BY <2>2, <2>3
<1> HIDE DEF G
<1>3. S \in G
  BY <1>1, <1>2, SubsetInduction
<1> QED
  BY <1>3 DEF G

\* The sum over no element, and over a set of which one is taken off.
LEMMA SumUnfolds ==
    ASSUME NEW S, IsFiniteSet(S), NEW f
    PROVE  /\ S = {} => SumFunctionOnSet(f, S) = 0
           /\ S # {} => \E x \in S : SumFunctionOnSet(f, S) = f[x] + SumFunctionOnSet(f, S \ {x})
<1>1. PICK h : Sums(h, f, SUBSET S) /\ SumFunctionOnSet(f, S) = h[S]
  BY SumIsOne
<1>2. CASE S = {}
  BY <1>1, <1>2 DEF Sums
<1>3. CASE S # {}
  <2> DEFINE x == CHOOSE x \in S : TRUE  R == S \ {x}
  <2>1. x \in S
    BY <1>3
  <2>2. h[S] = f[x] + h[R]
    BY <1>1, <1>3 DEF Sums
  <2> HIDE DEF x
  <2>3. IsFiniteSet(R)
    BY FS_RemoveElement
  <2> HIDE DEF R
  <2>4. PICK k : Sums(k, f, SUBSET R) /\ SumFunctionOnSet(f, R) = k[R]
    BY <2>3, SumIsOne
  <2>5. SUBSET R \subseteq SUBSET S
    BY DEF R
  <2>6. h[R] = k[R]
    BY <1>1, <2>3, <2>4, <2>5, SumsAgree
  <2> QED
    BY <1>1, <2>1, <2>2, <2>4, <2>6 DEF R
<1> QED
  BY <1>2, <1>3

\* A sum of integers is an integer.
LEMMA SumInt ==
    ASSUME NEW S, IsFiniteSet(S), NEW f, \A x \in S : f[x] \in Int
    PROVE  SumFunctionOnSet(f, S) \in Int
<1> DEFINE G == {T \in SUBSET S : SumFunctionOnSet(f, T) \in Int}
<1>1. {} \in G
  BY SumUnfolds, FS_EmptySet
<1>2. ASSUME NEW T \in SUBSET S, T # {}, \A x \in T : T \ {x} \in G PROVE T \in G
  <2>1. IsFiniteSet(T)
    BY FS_Subset
  <2>2. PICK x \in T : SumFunctionOnSet(f, T) = f[x] + SumFunctionOnSet(f, T \ {x})
    BY <1>2, <2>1, SumUnfolds
  <2> QED
    BY <1>2, <2>2
<1> HIDE DEF G
<1>3. S \in G
  BY <1>1, <1>2, SubsetInduction
<1> QED
  BY <1>3 DEF G

\* Any element can be the one taken off: the order does not matter.
LEMMA SumTakeOff ==
    ASSUME NEW S, IsFiniteSet(S), NEW f, \A x \in S : f[x] \in Int, NEW y \in S
    PROVE  SumFunctionOnSet(f, S) = f[y] + SumFunctionOnSet(f, S \ {y})
<1> DEFINE G == {T \in SUBSET S : \A z \in T :
                    SumFunctionOnSet(f, T) = f[z] + SumFunctionOnSet(f, T \ {z})}
<1>1. {} \in G
  OBVIOUS
<1>2. ASSUME NEW T \in SUBSET S, T # {}, \A x \in T : T \ {x} \in G PROVE T \in G
  <2>1. IsFiniteSet(T)
    BY FS_Subset
  <2>2. PICK x \in T : SumFunctionOnSet(f, T) = f[x] + SumFunctionOnSet(f, T \ {x})
    BY <1>2, <2>1, SumUnfolds
  <2>3. SUFFICES ASSUME NEW z \in T, z # x
                 PROVE  SumFunctionOnSet(f, T) = f[z] + SumFunctionOnSet(f, T \ {z})
    BY <2>2
  <2> DEFINE R == (T \ {x}) \ {z}
  <2>4. R = (T \ {z}) \ {x} /\ z \in T \ {x} /\ x \in T \ {z} /\ R \subseteq S
    BY <2>2, <2>3
  <2>5. SumFunctionOnSet(f, T \ {x}) = f[z] + SumFunctionOnSet(f, R)
    BY <1>2, <2>2, <2>4
  <2>6. SumFunctionOnSet(f, T \ {z}) = f[x] + SumFunctionOnSet(f, (T \ {z}) \ {x})
    BY <1>2, <2>3, <2>4
  <2>7. IsFiniteSet(R)
    BY <2>4, FS_Subset
  <2>8. SumFunctionOnSet(f, R) \in Int
    BY <2>4, <2>7, SumInt
  <2> HIDE DEF R
  <2>9. f[x] \in Int /\ f[z] \in Int
    BY <2>2, <2>3
  <2> QED
    BY <2>2, <2>4, <2>5, <2>6, <2>8, <2>9
<1> HIDE DEF G
<1>3. S \in G
  BY <1>1, <1>2, SubsetInduction
<1> QED
  BY <1>3 DEF G

\* The sum of a function that is nowhere larger is not larger.
LEMMA SumMono ==
    ASSUME NEW S, IsFiniteSet(S), NEW f, NEW g,
           \A x \in S : f[x] \in Int /\ g[x] \in Int /\ f[x] <= g[x]
    PROVE  SumFunctionOnSet(f, S) <= SumFunctionOnSet(g, S)
<1> DEFINE G == {T \in SUBSET S : SumFunctionOnSet(f, T) <= SumFunctionOnSet(g, T)}
<1>1. {} \in G
  <2>1. SumFunctionOnSet(f, {}) = 0 /\ SumFunctionOnSet(g, {}) = 0
    BY SumUnfolds, FS_EmptySet
  <2> QED
    BY <2>1
<1>2. ASSUME NEW T \in SUBSET S, T # {}, \A x \in T : T \ {x} \in G PROVE T \in G
  <2>1. IsFiniteSet(T)
    BY FS_Subset
  <2>2. PICK x \in T : TRUE
    BY <1>2
  <2>3. SumFunctionOnSet(f, T) = f[x] + SumFunctionOnSet(f, T \ {x})
    BY <2>1, SumTakeOff
  <2>4. SumFunctionOnSet(g, T) = g[x] + SumFunctionOnSet(g, T \ {x})
    BY <2>1, SumTakeOff
  <2>5. IsFiniteSet(T \ {x})
    BY <2>1, FS_RemoveElement
  <2>6. SumFunctionOnSet(f, T \ {x}) \in Int /\ SumFunctionOnSet(g, T \ {x}) \in Int
    BY <2>5, SumInt
  <2>7. SumFunctionOnSet(f, T \ {x}) <= SumFunctionOnSet(g, T \ {x})
    BY <1>2
  <2>8. f[x] \in Int /\ g[x] \in Int /\ f[x] <= g[x]
    OBVIOUS
  <2>9. SumFunctionOnSet(f, T) <= SumFunctionOnSet(g, T)
    BY <2>3, <2>4, <2>6, <2>7, <2>8
  <2> QED
    BY <2>9
<1> HIDE DEF G
<1>3. S \in G
  BY <1>1, <1>2, SubsetInduction
<1> QED
  BY <1>3 DEF G

\* Equal terms have equal sums.
LEMMA SumSame ==
    ASSUME NEW S, IsFiniteSet(S), NEW f, NEW g,
           \A x \in S : f[x] \in Int /\ g[x] = f[x]
    PROVE  SumFunctionOnSet(f, S) = SumFunctionOnSet(g, S)
<1>1. SumFunctionOnSet(f, S) \in Int /\ SumFunctionOnSet(g, S) \in Int
  BY SumInt
<1>2. SumFunctionOnSet(f, S) <= SumFunctionOnSet(g, S)
  BY SumMono
<1>3. SumFunctionOnSet(g, S) <= SumFunctionOnSet(f, S)
  BY SumMono
<1> QED
  BY <1>1, <1>2, <1>3

\* A sum is that of a part and that of the rest.
LEMMA SumSplit ==
    ASSUME NEW S, IsFiniteSet(S), NEW f, \A x \in S : f[x] \in Int, NEW P \in SUBSET S
    PROVE  SumFunctionOnSet(f, S) = SumFunctionOnSet(f, P) + SumFunctionOnSet(f, S \ P)
<1> DEFINE G == {T \in SUBSET P : SumFunctionOnSet(f, S)
                    = SumFunctionOnSet(f, T) + SumFunctionOnSet(f, S \ T)}
<1>1. \A T \in SUBSET S : IsFiniteSet(T) /\ SumFunctionOnSet(f, T) \in Int
  <2>1. \A T \in SUBSET S : IsFiniteSet(T)
    BY FS_Subset
  <2>2. ASSUME NEW T \in SUBSET S PROVE SumFunctionOnSet(f, T) \in Int
    BY <2>1, SumInt
  <2> QED
    BY <2>1, <2>2
<1>2. {} \in G
  <2>1. SumFunctionOnSet(f, {}) = 0 /\ S \ {} = S
    BY SumUnfolds, FS_EmptySet
  <2>2. SumFunctionOnSet(f, S) \in Int
    BY <1>1
  <2> QED
    BY <2>1, <2>2
<1>3. ASSUME NEW T \in SUBSET P, T # {}, \A x \in T : T \ {x} \in G PROVE T \in G
  <2>1. PICK x \in T : TRUE
    BY <1>3
  <2> DEFINE R == T \ {x}
  <2>2. T \in SUBSET S /\ R \in SUBSET S /\ S \ T \in SUBSET S /\ S \ R \in SUBSET S
        /\ x \in S \ R /\ (S \ R) \ {x} = S \ T /\ f[x] \in Int
    OBVIOUS
  <2>3. SumFunctionOnSet(f, T) = f[x] + SumFunctionOnSet(f, R)
    BY <1>1, <2>2, SumTakeOff
  <2>4. SumFunctionOnSet(f, S \ R) = f[x] + SumFunctionOnSet(f, (S \ R) \ {x})
    <3>1. IsFiniteSet(S \ R) /\ \A y \in S \ R : f[y] \in Int
      BY <1>1, <2>2
    <3> QED
      BY <3>1, <2>2, SumTakeOff
  <2>5. SumFunctionOnSet(f, S) = SumFunctionOnSet(f, R) + SumFunctionOnSet(f, S \ R)
    BY <1>3
  <2>6. /\ SumFunctionOnSet(f, T) \in Int /\ SumFunctionOnSet(f, R) \in Int
        /\ SumFunctionOnSet(f, S \ T) \in Int /\ SumFunctionOnSet(f, S \ R) \in Int
    BY <1>1, <2>2
  <2> DEFINE ft == SumFunctionOnSet(f, T)  fr == SumFunctionOnSet(f, R)
             gt == SumFunctionOnSet(f, S \ T)  gr == SumFunctionOnSet(f, S \ R)
             all == SumFunctionOnSet(f, S)
  <2>7. ft = f[x] + fr /\ gr = f[x] + gt /\ all = fr + gr /\ f[x] \in Int
        /\ ft \in Int /\ fr \in Int /\ gt \in Int /\ gr \in Int
    BY <2>2, <2>3, <2>4, <2>5, <2>6
  <2> HIDE DEF ft, fr, gt, gr, all
  <2>8. all = ft + gt
    BY <2>7
  <2>9. SumFunctionOnSet(f, S) = SumFunctionOnSet(f, T) + SumFunctionOnSet(f, S \ T)
    BY <2>8 DEF all, ft, gt
  <2> QED
    BY <2>9
<1> HIDE DEF G
<1>4. IsFiniteSet(P)
  BY FS_Subset
<1>5. P \in G
  BY <1>2, <1>3, <1>4, SubsetInduction
<1> QED
  BY <1>5 DEF G

\* What is not negative adds up to no less than nothing.
LEMMA SumNat ==
    ASSUME NEW S, IsFiniteSet(S), NEW f, \A x \in S : f[x] \in Nat
    PROVE  SumFunctionOnSet(f, S) \in Nat
<1> DEFINE G == {T \in SUBSET S : SumFunctionOnSet(f, T) \in Nat}
<1>1. {} \in G
  BY SumUnfolds, FS_EmptySet
<1>2. ASSUME NEW T \in SUBSET S, T # {}, \A x \in T : T \ {x} \in G PROVE T \in G
  <2>1. IsFiniteSet(T)
    BY FS_Subset
  <2>2. PICK x \in T : SumFunctionOnSet(f, T) = f[x] + SumFunctionOnSet(f, T \ {x})
    BY <1>2, <2>1, SumUnfolds
  <2> QED
    BY <1>2, <2>2
<1> HIDE DEF G
<1>3. S \in G
  BY <1>1, <1>2, SubsetInduction
<1> QED
  BY <1>3 DEF G

\* A part of a sum of naturals is not more than the whole, and is the whole
\* when the rest is zero.
LEMMA SumPart ==
    ASSUME NEW S, IsFiniteSet(S), NEW f, \A x \in S : f[x] \in Nat, NEW P \in SUBSET S
    PROVE  /\ SumFunctionOnSet(f, P) <= SumFunctionOnSet(f, S)
           /\ (\A x \in S \ P : f[x] = 0) => SumFunctionOnSet(f, P) = SumFunctionOnSet(f, S)
<1>1. IsFiniteSet(P) /\ IsFiniteSet(S \ P)
  BY FS_Subset, FS_Difference
<1>2. /\ SumFunctionOnSet(f, P) \in Nat /\ SumFunctionOnSet(f, S \ P) \in Nat
      /\ SumFunctionOnSet(f, S) = SumFunctionOnSet(f, P) + SumFunctionOnSet(f, S \ P)
  BY <1>1, SumNat, SumSplit
<1>3. ASSUME \A x \in S \ P : f[x] = 0 PROVE SumFunctionOnSet(f, S \ P) = 0
  <2> DEFINE R == S \ P
             G == {T \in SUBSET R : SumFunctionOnSet(f, T) = 0}
  <2>1. {} \in G
    BY SumUnfolds, FS_EmptySet
  <2>2. ASSUME NEW T \in SUBSET R, T # {}, \A x \in T : T \ {x} \in G PROVE T \in G
    <3>1. IsFiniteSet(T)
      BY <1>1, FS_Subset
    <3>2. PICK x \in T : SumFunctionOnSet(f, T) = f[x] + SumFunctionOnSet(f, T \ {x})
      BY <2>2, <3>1, SumUnfolds
    <3>3. f[x] = 0 /\ SumFunctionOnSet(f, T \ {x}) = 0
      BY <1>3, <2>2, <3>2
    <3> QED
      BY <3>2, <3>3
  <2> HIDE DEF G, R
  <2>3. IsFiniteSet(R)
    BY <1>1 DEF R
  <2>4. R \in G
    BY <2>1, <2>2, <2>3, SubsetInduction
  <2> QED
    BY <2>4 DEF G, R
<1> QED
  BY <1>2, <1>3

\* The sum of differences is the difference of the sums.
LEMMA SumMinus ==
    ASSUME NEW S, IsFiniteSet(S), NEW f, NEW g, NEW h,
           \A x \in S : f[x] \in Int /\ g[x] \in Int /\ h[x] = f[x] - g[x]
    PROVE  SumFunctionOnSet(h, S) = SumFunctionOnSet(f, S) - SumFunctionOnSet(g, S)
<1> DEFINE G == {T \in SUBSET S : SumFunctionOnSet(h, T)
                    = SumFunctionOnSet(f, T) - SumFunctionOnSet(g, T)}
<1>1. {} \in G
  <2>1. /\ SumFunctionOnSet(f, {}) = 0 /\ SumFunctionOnSet(g, {}) = 0
        /\ SumFunctionOnSet(h, {}) = 0
    BY SumUnfolds, FS_EmptySet
  <2> QED
    BY <2>1
<1>2. ASSUME NEW T \in SUBSET S, T # {}, \A x \in T : T \ {x} \in G PROVE T \in G
  <2>1. IsFiniteSet(T)
    BY FS_Subset
  <2>2. PICK x \in T : TRUE
    BY <1>2
  <2>3. SumFunctionOnSet(f, T) = f[x] + SumFunctionOnSet(f, T \ {x})
    BY <2>1, SumTakeOff
  <2>4. SumFunctionOnSet(g, T) = g[x] + SumFunctionOnSet(g, T \ {x})
    BY <2>1, SumTakeOff
  <2>5. \A y \in T : h[y] \in Int
    OBVIOUS
  <2>6. SumFunctionOnSet(h, T) = h[x] + SumFunctionOnSet(h, T \ {x})
    BY <2>1, <2>5, SumTakeOff
  <2>7. IsFiniteSet(T \ {x})
    BY <2>1, FS_RemoveElement
  <2>8. SumFunctionOnSet(f, T \ {x}) \in Int /\ SumFunctionOnSet(g, T \ {x}) \in Int
    BY <2>7, SumInt
  <2>9. SumFunctionOnSet(h, T \ {x})
          = SumFunctionOnSet(f, T \ {x}) - SumFunctionOnSet(g, T \ {x})
    BY <1>2
  <2>10. f[x] \in Int /\ g[x] \in Int /\ h[x] = f[x] - g[x]
    OBVIOUS
  <2>11. SumFunctionOnSet(h, T) = SumFunctionOnSet(f, T) - SumFunctionOnSet(g, T)
    BY <2>3, <2>4, <2>6, <2>8, <2>9, <2>10
  <2> QED
    BY <2>11
<1> HIDE DEF G
<1>3. S \in G
  BY <1>1, <1>2, SubsetInduction
<1> QED
  BY <1>3 DEF G

-----------------------------------------------------------------------------
(* Heaps of results.                                                       *)

\* A heap as the queries fill it: finitely many entries, one for a document.
IsHeap(h) ==
    /\ IsFiniteSet(h)
    /\ h \subseteq [doc : Nat, score : Nat]
    /\ \A x, y \in h : x.doc = y.doc => x = y

\* A non-empty heap has a top, and no entry scores less.
LEMMA TopIsLowest ==
    ASSUME NEW h, IsHeap(h), h # {}
    PROVE  Top(h) \in h /\ \A y \in h : Top(h).score <= y.score
<1> DEFINE S == {x.score : x \in h}
<1>1. \A x \in h : x.score \in Nat /\ x.doc \in Nat
  BY DEF IsHeap
<1>2. S \in SUBSET Nat /\ S # {}
  BY <1>1
<1>3. PICK s \in S : \A t \in S : s <= t
  BY <1>2, LeastExists
<1> DEFINE D == {x.doc : x \in {z \in h : z.score = s}}
<1>4. D \in SUBSET Nat /\ D # {}
  BY <1>1
<1>5. PICK d \in D : \A e \in D : d <= e
  BY <1>4, LeastExists
<1>6. PICK x \in h : x.score = s /\ x.doc = d
  BY <1>5
<1>7. ASSUME NEW y \in h \ {x} PROVE Above(y, x)
  <2>1. y.score \in Nat /\ y.doc \in Nat /\ x.score \in Nat /\ x.doc \in Nat
    BY <1>1
  <2>2. y.score >= x.score
    BY <1>3, <1>6, <2>1
  <2>3. y.doc # x.doc
    BY DEF IsHeap
  <2>4. y.score = x.score => y.doc >= x.doc
    BY <1>5, <1>6, <2>1
  <2> QED
    BY <2>1, <2>2, <2>3, <2>4 DEF Above
<1> DEFINE t == Top(h)
<1>8. t \in h /\ \A y \in h \ {t} : Above(y, t)
  BY <1>7 DEF Top
<1> HIDE DEF t
<1>9. ASSUME NEW y \in h PROVE t.score <= y.score
  BY <1>1, <1>8 DEF Above
<1> QED
  BY <1>8, <1>9 DEF t

\* Documents whose entries are all in A are no more than A has entries.
LEMMA EntriesOf ==
    ASSUME NEW D, NEW sc, NEW A, IsFiniteSet(A),
           \A d \in D : [doc |-> d, score |-> sc[d]] \in A
    PROVE  IsFiniteSet(D) /\ Cardinality(D) <= Cardinality(A)
<1> DEFINE f == [d \in D |-> [doc |-> d, score |-> sc[d]]]
<1>1. f \in [D -> A]
  OBVIOUS
<1>2. ASSUME NEW x \in D, NEW y \in D, f[x] = f[y] PROVE x = y
  <2>1. f[x].doc = x /\ f[y].doc = y
    OBVIOUS
  <2> QED
    BY <2>1, <1>2
<1> HIDE DEF f
<1>3. f \in Injection(D, A)
  BY <1>1, <1>2 DEF Injection, IsInjective
<1> QED
  BY <1>3, FS_Injection

\* A heap has no more entries than there are documents they can be of.
LEMMA DocsOf ==
    ASSUME NEW h, IsHeap(h), NEW D, IsFiniteSet(D), \A x \in h : x.doc \in D
    PROVE  Cardinality(h) <= Cardinality(D)
<1> DEFINE f == [x \in h |-> x.doc]
<1>1. f \in [h -> D]
  OBVIOUS
<1>2. \A x, y \in h : f[x] = f[y] => x = y
  BY DEF IsHeap
<1> HIDE DEF f
<1>3. f \in Injection(h, D)
  BY <1>1, <1>2 DEF Injection, IsInjective
<1> QED
  BY <1>3, FS_Injection


-----------------------------------------------------------------------------
(* Blocks.                                                                 *)

\* What a loop that stops at the first match finds.
LEMMA LeastInSet ==
    ASSUME NEW S \in SUBSET Nat, S # {}
    PROVE  Least(S) \in S /\ \A y \in S : Least(S) <= y
BY LeastExists DEF Least

\* Every position lies in one block of the list, the one BlockOf names.
LEMMA PositionInBlock ==
    ASSUME NEW pl, IsPostingsList(pl), NEW p \in 0 .. pl.n - 1
    PROVE  /\ NumBlocks(pl) \in Nat
           /\ BlockOf(p) \in 0 .. NumBlocks(pl) - 1
           /\ p \in BlockPositions(pl, BlockOf(p))
           /\ BlockSize * BlockOf(p) + (p % BlockSize) = p
<1> DEFINE B == BlockSize  q == p \div B  nq == pl.n \div B
<1>1. B \in Nat \ {0} /\ pl.n \in Nat /\ p \in Nat /\ p < pl.n
  BY BlockSizeAssumption DEF IsPostingsList
<1> HIDE DEF B
<1>2. q \in Nat /\ p % B \in 0 .. B - 1 /\ p = B * q + (p % B)
  BY <1>1, DivMod
<1>3. nq \in Nat /\ pl.n % B \in 0 .. B - 1 /\ pl.n = B * nq + (pl.n % B)
  BY <1>1, DivMod
<1>4. q <= nq
  BY <1>1, DivMono
<1> HIDE DEF q, nq
<1>5. B * q \in Nat /\ B * (q + 1) = B * q + B
  BY <1>1, <1>2
<1>6. pl.n % B = 0 => q < nq
  <2>1. SUFFICES ASSUME pl.n % B = 0, q = nq PROVE FALSE
    BY <1>2, <1>3, <1>4
  <2>2. pl.n = B * q
    BY <2>1, <1>1, <1>3, <1>5
  <2> QED
    BY <2>2, <1>1, <1>2, <1>5
<1>7. B * q + (p % B) = p
  BY <1>2
<1>8. NumBlocks(pl) = nq + (IF pl.n % B # 0 THEN 1 ELSE 0) /\ BlockOf(p) = q
  BY DEF NumBlocks, BlockOf, B, q, nq
<1>9. q \in 0 .. NumBlocks(pl) - 1 /\ NumBlocks(pl) \in Nat
  BY <1>2, <1>3, <1>4, <1>6, <1>8
<1>10. BlockPositions(pl, q) = B * q .. (IF B * (q + 1) <= pl.n THEN B * (q + 1) ELSE pl.n) - 1
  BY DEF BlockPositions, BlockEnd, B
<1>11. p \in BlockPositions(pl, q)
  BY <1>1, <1>2, <1>5, <1>10
<1> QED
  BY <1>7, <1>8, <1>9, <1>11 DEF B

\* Every block is a non-empty stretch of positions of the list.
LEMMA BlockInList ==
    ASSUME NEW pl, IsPostingsList(pl), NEW b \in 0 .. NumBlocks(pl) - 1
    PROVE  /\ BlockEnd(pl, b) \in 1 .. pl.n
           /\ BlockSize * b \in Nat
           /\ BlockSize * b < BlockEnd(pl, b)
           /\ BlockEnd(pl, b) <= BlockSize * b + BlockSize
           /\ BlockEnd(pl, b) = BlockSize * b + BlockSize \/ BlockEnd(pl, b) = pl.n
<1> DEFINE B == BlockSize  nq == pl.n \div B
<1>1. B \in Nat \ {0} /\ pl.n \in Nat
  BY BlockSizeAssumption DEF IsPostingsList
<1> HIDE DEF B
<1>2. nq \in Nat /\ pl.n % B \in 0 .. B - 1 /\ pl.n = B * nq + (pl.n % B)
  BY <1>1, DivMod
<1>3. NumBlocks(pl) = nq + (IF pl.n % B # 0 THEN 1 ELSE 0)
  BY DEF NumBlocks, B, nq
<1> HIDE DEF nq
<1>4. b \in Nat /\ b < NumBlocks(pl)
  BY <1>2, <1>3
<1>5. B * b \in Nat /\ B * nq \in Nat /\ B * (b + 1) = B * b + B
  BY <1>1, <1>2, <1>4
<1>6. BlockEnd(pl, b) = IF B * (b + 1) <= pl.n THEN B * (b + 1) ELSE pl.n
  BY DEF BlockEnd, B
<1>7. CASE b < nq
  <2>1. B * b + B <= B * nq
    BY <1>1, <1>2, <1>4, <1>7, MulMono
  <2>2. B * (b + 1) <= pl.n
    BY <2>1, <1>1, <1>2, <1>5
  <2> QED
    BY <2>2, <1>1, <1>5, <1>6 DEF B
<1>8. CASE b = nq
  <2>1. pl.n % B # 0
    BY <1>2, <1>3, <1>4, <1>8
  <2>2. B * b < pl.n
    BY <2>1, <1>1, <1>2, <1>5, <1>8
  <2> QED
    BY <2>2, <1>1, <1>5, <1>6 DEF B
<1>9. b < nq \/ b = nq
  BY <1>2, <1>3, <1>4
<1> QED
  BY <1>7, <1>8, <1>9

\* The positions of a block carry the block's number, and its representative
\* is the largest identifier in it.
LEMMA BlockMembers ==
    ASSUME NEW pl, IsPostingsList(pl), NEW b \in 0 .. NumBlocks(pl) - 1
    PROVE  /\ BlockRep(pl, b) \in Nat
           /\ BlockEnd(pl, b) - 1 \in BlockPositions(pl, b)
           /\ \A p \in BlockPositions(pl, b) :
                 /\ p \in 0 .. pl.n - 1
                 /\ BlockOf(p) = b
                 /\ pl.ids[p] \in Nat
                 /\ pl.ids[p] <= BlockRep(pl, b)
<1> DEFINE first == BlockSize * b  last == BlockEnd(pl, b) - 1
<1>1. /\ first \in Nat /\ last \in 0 .. pl.n - 1 /\ first <= last
      /\ last < first + BlockSize
      /\ BlockSize \in Nat \ {0} /\ pl.n \in Nat /\ b \in Nat
  BY BlockInList, BlockSizeAssumption DEF IsPostingsList
<1>2. BlockPositions(pl, b) = first .. last
  BY DEF BlockPositions
<1>3. BlockRep(pl, b) = pl.ids[last]
  BY DEF BlockRep
<1>4. ASSUME NEW p \in first .. last PROVE BlockOf(p) = b
  <2>1. PICK r \in 0 .. BlockSize - 1 : p = first + r
    <3>1. p - first \in 0 .. BlockSize - 1 /\ p = first + (p - first)
      BY <1>1
    <3> QED
      BY <3>1
  <2> QED
    BY <2>1, <1>1, DivUnique DEF BlockOf
<1> HIDE DEF first, last
<1>5. \A p \in 0 .. pl.n - 1 : pl.ids[p] \in Nat
  BY DEF IsPostingsList
<1>6. ASSUME NEW p \in first .. last PROVE pl.ids[p] <= pl.ids[last]
  <2>1. p \in 0 .. pl.n - 1 /\ (p < last \/ p = last)
    BY <1>1
  <2>2. p < last => pl.ids[p] < pl.ids[last]
    BY <2>1, <1>1 DEF IsPostingsList
  <2> QED
    BY <2>1, <2>2, <1>1, <1>5
<1>7. last \in first .. last /\ first .. last \subseteq 0 .. pl.n - 1
  BY <1>1
<1>8. BlockEnd(pl, b) - 1 = last
  BY DEF last
<1> QED
  BY <1>2, <1>3, <1>4, <1>5, <1>6, <1>7, <1>8

\* Representatives ascend with the blocks.
LEMMA RepsAscend ==
    ASSUME NEW pl, IsPostingsList(pl),
           NEW b \in 0 .. NumBlocks(pl) - 1, NEW c \in 0 .. NumBlocks(pl) - 1,
           b < c
    PROVE  BlockRep(pl, b) < BlockRep(pl, c)
<1> DEFINE x == BlockEnd(pl, b) - 1  y == BlockEnd(pl, c) - 1
<1>1. b \in Nat /\ c \in Nat /\ BlockSize \in Nat \ {0}
  BY BlockSizeAssumption
<1>2. BlockSize * b + BlockSize <= BlockSize * c
  BY <1>1, MulMono
<1>3. x \in 0 .. pl.n - 1 /\ y \in 0 .. pl.n - 1 /\ x < y
  <2>1. /\ BlockEnd(pl, b) \in 1 .. pl.n
        /\ BlockEnd(pl, b) <= BlockSize * b + BlockSize
    BY BlockInList
  <2>2. /\ BlockEnd(pl, c) \in 1 .. pl.n /\ BlockSize * c \in Nat
        /\ BlockSize * c < BlockEnd(pl, c)
    BY BlockInList
  <2>3. pl.n \in Nat /\ BlockSize * b \in Nat
    BY <1>1 DEF IsPostingsList
  <2> QED
    BY <2>1, <2>2, <2>3, <1>1, <1>2
<1> HIDE DEF x, y
<1>4. pl.ids[x] < pl.ids[y]
  BY <1>3 DEF IsPostingsList
<1> QED
  BY <1>4 DEF BlockRep, x, y

-----------------------------------------------------------------------------
(* Searches.                                                               *)

\* find_block_with_id passes over blocks whose representative is below id,
\* and only over those.
LEMMA FindBlockFinds ==
    ASSUME NEW pl, IsPostingsList(pl), NumBlocks(pl) \in Nat,
           NEW id \in Nat, NEW start \in Nat
    PROVE  LET f == FindBlock(pl, id, start)
           IN  /\ f \in Nat /\ start <= f
               /\ start <= NumBlocks(pl) => f <= NumBlocks(pl)
               /\ f < NumBlocks(pl) => BlockRep(pl, f) >= id
               /\ \A b \in start .. f - 1 : BlockRep(pl, b) < id
<1> DEFINE nb == NumBlocks(pl)
           S  == {b \in start .. nb - 1 : BlockRep(pl, b) >= id} \cup {nb}
           f  == FindBlock(pl, id, start)
<1>1. CASE start >= nb
  BY <1>1 DEF FindBlock
<1>2. CASE start < nb
  <2>1. f = Least(S)
    BY <1>2 DEF FindBlock
  <2>2. S \in SUBSET Nat /\ S # {}
    BY <1>2
  <2>3. f \in S /\ \A y \in S : f <= y
    BY <2>1, <2>2, LeastInSet
  <2>4. f \in start .. nb /\ (f < nb => BlockRep(pl, f) >= id)
    BY <2>3, <1>2
  <2>5. ASSUME NEW b \in start .. f - 1 PROVE BlockRep(pl, b) < id
    <3>1. b \notin S /\ b \in start .. nb - 1
      BY <2>3, <2>4
    <3>2. b \in 0 .. nb - 1
      BY <3>1
    <3>3. BlockRep(pl, b) \in Nat
      BY <3>2, BlockMembers
    <3> QED
      BY <3>1, <3>3
  <2> QED
    BY <2>4, <2>5, <1>2
<1> QED
  BY <1>1, <1>2

\* lower_bound inside a block that can hold id finds the first posting from
\* the start slot on that is not below it.
LEMMA LowerBoundFinds ==
    ASSUME NEW pl, IsPostingsList(pl), NEW b \in 0 .. NumBlocks(pl) - 1,
           NEW id \in Nat, BlockRep(pl, b) >= id,
           NEW from \in BlockPositions(pl, b)
    PROVE  LET p == LowerBound(pl, b, from, id)
           IN  /\ p \in BlockPositions(pl, b)
               /\ p >= from
               /\ pl.ids[p] >= id
               /\ \A q \in BlockPositions(pl, b) : from <= q /\ q < p => pl.ids[q] < id
<1> DEFINE last == BlockEnd(pl, b) - 1
           P == BlockPositions(pl, b)
           S == {p \in P : p >= from /\ pl.ids[p] >= id} \cup {BlockEnd(pl, b)}
           p == LowerBound(pl, b, from, id)
<1>1. last \in P /\ BlockEnd(pl, b) = last + 1 /\ BlockEnd(pl, b) \in Nat
      /\ pl.ids[last] >= id
  BY BlockMembers, BlockInList DEF BlockRep
<1>2. P \subseteq Nat /\ (\A q \in P : q <= last /\ pl.ids[q] \in Nat)
  <2>1. BlockSize * b \in Nat /\ last \in Nat /\ P = BlockSize * b .. last
    BY BlockInList DEF BlockPositions
  <2> QED
    BY <2>1, BlockMembers
<1> HIDE DEF last, P
<1>3. p = Least(S)
  BY DEF LowerBound, P
<1>4. S \in SUBSET Nat /\ S # {}
  BY <1>1, <1>2
<1>5. p \in S /\ \A y \in S : p <= y
  BY <1>3, <1>4, LeastInSet
<1>6. last \in S
  BY <1>1, <1>2 DEF P
<1>7. p <= last /\ p # BlockEnd(pl, b)
  BY <1>1, <1>2, <1>5, <1>6
<1>8. p \in P /\ p >= from /\ pl.ids[p] >= id
  BY <1>5, <1>7
<1>9. ASSUME NEW q \in P, from <= q, q < p PROVE pl.ids[q] < id
  <2>1. q \notin S
    BY <1>2, <1>5, <1>8, <1>9
  <2>2. ~(pl.ids[q] >= id)
    BY <2>1, <1>9, <1>2
  <2> QED
    BY <2>2, <1>2
<1> QED
  BY <1>8, <1>9 DEF P

-----------------------------------------------------------------------------
(* skip_to_id.                                                             *)

Iterators == [pos : Nat, blk : Nat, accBlk : Nat, accPos : Nat, docid : Nat]

\* What the guards of the searches and CachesSound say of an iterator that is
\* asked for id: its caches are in step, and its block pointer has passed
\* no block that could hold id or a later document.
SearchReady(l, j, id) ==
    /\ j \in Iterators
    /\ j.pos \in 0 .. l.n - 1
    /\ j.accPos = j.pos
    /\ j.docid = l.ids[j.pos]
    /\ j.accBlk = BlockOf(j.pos)
    /\ j.blk \in BlockOf(j.pos) .. NumBlocks(l)
    /\ j.blk > BlockOf(j.pos) => BlockRep(l, j.blk - 1) < id

\* Every posting in a block the block search passes over is below id, those
\* of the blocks an earlier shallow move passed over included.
LEMMA PassedBlocks ==
    ASSUME NEW l, IsPostingsList(l), NEW j, NEW id \in Nat,
           SearchReady(l, j, id),
           NEW q \in j.pos .. l.n - 1,
           BlockOf(q) < FindBlock(l, id, j.blk)
    PROVE  l.ids[q] < id
<1> DEFINE c == BlockOf(q)  nb == NumBlocks(l)
<1>1. q \in 0 .. l.n - 1 /\ j.pos \in Nat /\ l.n \in Nat
  BY DEF SearchReady, IsPostingsList
<1>2. c \in 0 .. nb - 1 /\ q \in BlockPositions(l, c) /\ nb \in Nat
  BY <1>1, PositionInBlock
<1>3. l.ids[q] \in Nat /\ BlockRep(l, c) \in Nat /\ l.ids[q] <= BlockRep(l, c)
  BY <1>2, BlockMembers
<1>4. BlockOf(j.pos) \in Nat /\ BlockOf(j.pos) <= c
  <2>1. BlockOf(j.pos) <= c
    BY <1>1, DivMono, BlockSizeAssumption DEF BlockOf
  <2>2. BlockOf(j.pos) \in Nat
    BY <1>1, DivMod, BlockSizeAssumption DEF BlockOf
  <2> QED
    BY <2>1, <2>2
<1>5. j.blk \in Nat /\ BlockOf(j.pos) <= j.blk /\ j.blk <= nb
  BY <1>2, <1>4 DEF SearchReady
<1>6. CASE c >= j.blk
  <2>1. FindBlock(l, id, j.blk) \in Nat
        /\ \A b \in j.blk .. FindBlock(l, id, j.blk) - 1 : BlockRep(l, b) < id
    BY <1>2, <1>5, FindBlockFinds
  <2>2. BlockRep(l, c) < id
    BY <2>1, <1>2, <1>5, <1>6
  <2> QED
    BY <2>2, <1>3
<1>7. CASE c < j.blk
  <2>1. BlockRep(l, j.blk - 1) < id /\ j.blk - 1 \in 0 .. nb - 1
    BY <1>2, <1>4, <1>5, <1>7 DEF SearchReady
  <2>2. BlockRep(l, c) <= BlockRep(l, j.blk - 1)
    <3>1. BlockRep(l, j.blk - 1) \in Nat
      BY <2>1, BlockMembers
    <3>2. c = j.blk - 1 \/ BlockRep(l, c) < BlockRep(l, j.blk - 1)
      BY <2>1, <1>2, <1>5, <1>7, RepsAscend
    <3> QED
      BY <3>1, <3>2, <1>3
  <2>3. BlockRep(l, j.blk - 1) \in Nat
    BY <2>1, BlockMembers
  <2> QED
    BY <2>1, <2>2, <2>3, <1>3
<1>8. c >= j.blk \/ c < j.blk
  BY <1>2, <1>5
<1> QED
  BY <1>6, <1>7, <1>8

\* skip_to_id never moves back, drops only documents below id, and lands on
\* the first one that is not, with its caches filled for it.
LEMMA SkipLands ==
    ASSUME NEW l, IsPostingsList(l), NEW j, NEW id \in Nat,
           SearchReady(l, j, id)
    PROVE  LET k == SkipTo(l, j, id)
           IN  /\ k \in Iterators
               /\ k.pos \in j.pos .. l.n
               /\ \A q \in j.pos .. k.pos - 1 : l.ids[q] < id
               /\ k.pos < l.n => SearchReady(l, k, id) /\ l.ids[k.pos] >= id
               /\ k.pos = l.n => /\ k.accPos = j.accPos /\ k.accBlk = j.accBlk
                                 /\ k.docid = j.docid
<1> DEFINE nb == NumBlocks(l)
           b == FindBlock(l, id, j.blk)
           k == SkipTo(l, j, id)
<1>1. /\ j \in Iterators /\ j.pos \in Nat /\ j.pos < l.n /\ l.n \in Nat
      /\ BlockOf(j.pos) \in 0 .. nb - 1 /\ nb \in Nat /\ j.blk \in Nat
      /\ BlockOf(j.pos) <= j.blk /\ j.blk <= nb
      /\ j.accBlk = BlockOf(j.pos) /\ j.accPos = j.pos /\ j.docid = l.ids[j.pos]
  <2>1. j.pos \in 0 .. l.n - 1 /\ l.n \in Nat
    BY DEF SearchReady, IsPostingsList
  <2>2. BlockOf(j.pos) \in 0 .. nb - 1 /\ nb \in Nat
    BY <2>1, PositionInBlock
  <2> QED
    BY <2>1, <2>2 DEF SearchReady
<1>2. /\ b \in j.blk .. nb
      /\ b < nb => BlockRep(l, b) >= id
  <2>1. IsPostingsList(l) /\ nb \in Nat /\ j.blk \in Nat /\ j.blk <= nb
    BY <1>1
  <2>2. /\ b \in Nat /\ j.blk <= b
        /\ j.blk <= nb => b <= nb
        /\ b < nb => BlockRep(l, b) >= id
    BY <2>1, FindBlockFinds
  <2> QED
    BY <2>1, <2>2
<1> HIDE DEF nb, b
<1>3. CASE id = j.docid
  <2>1. k = j
    BY <1>3 DEF SkipTo
  <2> QED
    BY <2>1, <1>1, <1>3 DEF SearchReady
<1>4. CASE id # j.docid /\ b >= nb
  <2>1. k = [j EXCEPT !.blk = b, !.pos = l.n]
    BY <1>4 DEF SkipTo, b, nb
  <2> HIDE DEF k
  <2>2. k \in Iterators /\ k.pos = l.n /\ k.accPos = j.accPos
        /\ k.accBlk = j.accBlk /\ k.docid = j.docid
    <3>1. j \in Iterators /\ b \in Nat /\ l.n \in Nat
      BY <1>1, <1>2
    <3>2. [j EXCEPT !.blk = b, !.pos = l.n] \in Iterators
      BY <3>1 DEF Iterators
    <3> QED
      BY <3>1, <3>2, <2>1 DEF Iterators
  <2>3. ASSUME NEW q \in j.pos .. l.n - 1 PROVE l.ids[q] < id
    <3>1. BlockOf(q) \in 0 .. nb - 1
      BY <1>1, PositionInBlock DEF nb
    <3>2. BlockOf(q) < b
      BY <3>1, <1>1, <1>2, <1>4
    <3> QED
      BY <3>2, PassedBlocks DEF b
  <2> QED
    BY <2>2, <2>3, <1>1 DEF k
<1>5. CASE id # j.docid /\ b < nb
  <2> DEFINE pos  == IF b = j.blk THEN j.pos ELSE BlockSize * b
             from == IF j.accBlk # b THEN BlockSize * b
                     ELSE BlockSize * b + (pos % BlockSize)
             p    == LowerBound(l, b, from, id)
  <2>1. k = [pos |-> p, blk |-> b, accBlk |-> b, accPos |-> p,
             docid |-> l.ids[BlockSize * b + (p % BlockSize)]]
    <3>1. ~(b >= nb)
      BY <1>5, <1>1, <1>2
    <3> QED
      BY <3>1, <1>5 DEF SkipTo, b, nb
  <2> HIDE DEF k
  <2>2. b \in 0 .. nb - 1 /\ BlockRep(l, b) >= id
    BY <1>1, <1>2, <1>5
  <2>3. /\ BlockSize * b \in BlockPositions(l, b)
        /\ \A q \in BlockPositions(l, b) : BlockSize * b <= q
    <3>1. BlockSize * b \in Nat /\ BlockEnd(l, b) \in Nat /\ BlockSize * b < BlockEnd(l, b)
      BY <2>2, BlockInList DEF nb
    <3> QED
      BY <3>1 DEF BlockPositions
  <2>4. j.accBlk = b => from = j.pos /\ j.pos \in BlockPositions(l, b)
    <3>1. SUFFICES ASSUME j.accBlk = b PROVE from = j.pos /\ j.pos \in BlockPositions(l, b)
      OBVIOUS
    <3>2. BlockOf(j.pos) = b /\ b = j.blk
      BY <3>1, <1>1, <1>2
    <3>3. BlockSize * b + (j.pos % BlockSize) = j.pos /\ j.pos \in BlockPositions(l, b)
      BY <3>2, <1>1, PositionInBlock
    <3> QED
      BY <3>1, <3>2, <3>3
  <2>5. from \in BlockPositions(l, b)
    BY <2>3, <2>4
  <2>6. /\ p \in BlockPositions(l, b)
        /\ p >= from
        /\ l.ids[p] >= id
        /\ \A q \in BlockPositions(l, b) : from <= q /\ q < p => l.ids[q] < id
    BY <2>2, <2>5, LowerBoundFinds DEF nb
  <2>7. p \in 0 .. l.n - 1 /\ BlockOf(p) = b /\ l.ids[p] \in Nat
    BY <2>2, <2>6, BlockMembers DEF nb
  <2>8. BlockSize * b + (p % BlockSize) = p
    BY <2>7, PositionInBlock
  <2> HIDE DEF p, from, pos
  <2>9. j.pos <= p
    <3>1. CASE j.accBlk = b
      BY <3>1, <2>4, <2>6, <2>7, <1>1
    <3>2. CASE j.accBlk # b
      <4>1. BlockOf(j.pos) < BlockOf(p)
        BY <3>2, <2>7, <1>1, <1>2
      <4>2. p < j.pos => BlockOf(p) <= BlockOf(j.pos)
        BY <2>7, <1>1, DivMono, BlockSizeAssumption DEF BlockOf
      <4> QED
        BY <4>1, <4>2, <2>2, <2>7, <1>1
    <3> QED
      BY <3>1, <3>2
  <2>10. ASSUME NEW q \in j.pos .. p - 1 PROVE l.ids[q] < id
    <3>1. q \in 0 .. l.n - 1 /\ q < p /\ q \in Nat /\ p \in Nat /\ q \in j.pos .. l.n - 1
      BY <1>1, <2>7
    <3>2. BlockOf(q) \in 0 .. nb - 1 /\ q \in BlockPositions(l, BlockOf(q))
      BY <3>1, PositionInBlock DEF nb
    <3>3. BlockOf(q) <= b
      <4>1. BlockOf(q) <= BlockOf(p)
        BY <3>1, DivMono, BlockSizeAssumption DEF BlockOf
      <4> QED
        BY <4>1, <2>7
    <3>4. CASE BlockOf(q) < b
      BY <3>1, <3>4, PassedBlocks DEF b
    <3>5. CASE BlockOf(q) = b
      <4>1. from <= q
        BY <2>3, <2>4, <3>2, <3>5 DEF from
      <4> QED
        BY <4>1, <2>6, <3>1, <3>2, <3>5
    <3> QED
      BY <3>2, <3>3, <3>4, <3>5, <1>1, <1>2
  <2>11. k = [pos |-> p, blk |-> b, accBlk |-> b, accPos |-> p, docid |-> l.ids[p]]
    BY <2>1, <2>8
  <2>12. k \in Iterators /\ k.pos = p
    BY <2>2, <2>7, <2>11 DEF Iterators
  <2>13. SearchReady(l, k, id)
    BY <2>2, <2>7, <2>11, <2>12, <1>1 DEF SearchReady, nb
  <2> QED
    BY <1>1, <2>6, <2>7, <2>9, <2>10, <2>12, <2>13 DEF k
<1>6. b >= nb \/ b < nb
  BY <1>1, <1>2
<1> QED
  BY <1>3, <1>4, <1>5, <1>6

=================================================================================
