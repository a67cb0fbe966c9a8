-------------------------- MODULE ComponentsProofs --------------------------
(***************************************************************************)
(* Genres, budget, analytics, music compiler and rendering: components     *)
(* that compute.  What they compute is a sum, an average, a quotient or a  *)
(* fold, so the facts about these come first; each is proved by induction  *)
(* on the natural numbers, in the form that a set of numbers that is not   *)
(* empty has a least one.                                                  *)
(***************************************************************************)
EXTENDS Genres, LlmBudget, Analytics, MusicCompiler, Rendering, FiniteSetTheorems,
        SequenceTheorems, TLAPS

-----------------------------------------------------------------------------
(* Numbers. *)

\* A set of numbers that is not empty has a least one.
LEMMA Least ==
  ASSUME NEW T \in SUBSET Nat, T # {}
  PROVE  \E n \in T : \A m \in T : n <= m
<1>1. PICK n \in T : \A m \in T : ~ (<<m, n>> \in OpToRel(<, Nat))
  BY NatLessThanWellFounded, WFMin
<1>2. \A m \in T : m < n => <<m, n>> \in OpToRel(<, Nat)
  BY DEF OpToRel
<1>3. \A m \in T : ~ (m < n)
  BY <1>1, <1>2, Zenon
<1> QED BY <1>3

\* Induction, said of a set.
LEMMA AllNumbers ==
  ASSUME NEW T \in SUBSET Nat, 0 \in T, \A n \in T : n + 1 \in T
  PROVE  T = Nat
<1> SUFFICES ASSUME Nat \ T # {} PROVE FALSE
  OBVIOUS
<1>1. PICK n \in Nat \ T : \A m \in Nat \ T : n <= m
  BY Least
<1>2. n # 0 /\ n - 1 \in Nat /\ n - 1 \notin Nat \ T
  BY <1>1
<1> QED BY <1>1, <1>2

\* What the integer quotient is.
LEMMA QuotientBounds ==
  ASSUME NEW a \in Nat, NEW d \in Nat \ {0}
  PROVE  a \div d \in Nat /\ d * (a \div d) <= a /\ a < d * (a \div d) + d
OBVIOUS

\* A factor more is at least one divisor more.
LEMMA ProductMonotone ==
  ASSUME NEW x \in Nat, NEW y \in Nat, NEW d \in Nat \ {0}, x + 1 <= y
  PROVE  d * x + d <= d * y
<1>1. PICK k \in Nat : y = x + 1 + k
  <2>1. y - x - 1 \in Nat /\ y = x + 1 + (y - x - 1)
    OBVIOUS
  <2> QED BY <2>1
<1>2. d * (x + 1 + k) = d * x + d + d * k
  OBVIOUS
<1>3. d * k \in Nat /\ d * x \in Nat
  OBVIOUS
<1> QED BY <1>1, <1>2, <1>3

\* A greater number has no smaller quotient.
LEMMA QuotientMonotone ==
  ASSUME NEW a \in Nat, NEW b \in Nat, NEW d \in Nat \ {0}, a <= b
  PROVE  a \div d <= b \div d
<1> DEFINE x == a \div d
           y == b \div d
<1>1. x \in Nat /\ y \in Nat /\ d * x <= a /\ b < d * y + d
  BY QuotientBounds
<1> HIDE DEF x, y
<1>2. SUFFICES ASSUME y + 1 <= x PROVE FALSE
  BY <1>1 DEF x, y
<1>3. d * y + d <= d * x
  BY <1>1, <1>2, ProductMonotone
<1>4. d * y \in Nat /\ d * x \in Nat
  BY <1>1
<1> QED BY <1>1, <1>3, <1>4

\* A greater factor makes no smaller product.
LEMMA ProductGrows ==
  ASSUME NEW x \in Nat, NEW y \in Nat, NEW d \in Nat, x <= y
  PROVE  x * d <= y * d /\ d * x <= d * y
<1>1. PICK k \in Nat : y = x + k
  <2>1. y - x \in Nat /\ y = x + (y - x)
    OBVIOUS
  <2> QED BY <2>1
<1>2. d * (x + k) = d * x + d * k /\ (x + k) * d = x * d + k * d
  OBVIOUS
<1>3. d * k \in Nat /\ k * d \in Nat /\ d * x \in Nat /\ x * d \in Nat
  OBVIOUS
<1> QED BY <1>1, <1>2, <1>3

\* Two comparisons with a number between them, low, multiplied out: the one step of
\* every comparison of averages.
LEMMA CrossProducts ==
  ASSUME NEW k \in Nat, NEW c \in Nat, NEW m \in Nat, NEW e \in Nat, NEW low \in Nat,
         NEW i \in Nat, NEW j \in Nat, NEW x \in Nat, NEW y \in Nat,
         k * x <= m * i, m + e = c * low, low * j <= y
  PROVE  k * (x * j) + e * (i * j) <= c * (y * i)
<1>1. k * x \in Nat /\ m * i \in Nat /\ low * j \in Nat /\ c * i \in Nat /\ i * j \in Nat
  OBVIOUS
<1>2. (k * x) * j <= (m * i) * j
  BY <1>1, ProductGrows
<1>3. (c * i) * (low * j) <= (c * i) * y
  BY <1>1, ProductGrows
<1>4. (k * x) * j = k * (x * j) /\ (m * i) * j = m * (i * j)
  OBVIOUS
<1>5. m * (i * j) + e * (i * j) = (m + e) * (i * j)
  OBVIOUS
<1>6. (c * low) * (i * j) = (c * i) * (low * j)
  OBVIOUS
<1>7. (c * i) * y = c * (y * i)
  OBVIOUS
<1>8. k * (x * j) \in Nat /\ c * (y * i) \in Nat /\ (c * i) * (low * j) \in Nat
      /\ m * (i * j) \in Nat /\ e * (i * j) \in Nat
  OBVIOUS
<1>9. m * (i * j) + e * (i * j) <= c * (y * i)
  BY <1>3, <1>5, <1>6, <1>7
<1> QED BY <1>2, <1>4, <1>8, <1>9

\* A product of numbers is a number, and zero only with one of them.
LEMMA ProductPositive ==
  ASSUME NEW x \in Nat, NEW y \in Nat
  PROVE  x * y \in Nat /\ (x # 0 /\ y # 0 => x * y # 0)
OBVIOUS

\* The greater of two numbers, as the code writes it.
LEMMA MaxOfTwo ==
  ASSUME NEW a \in Nat, NEW b \in Nat
  PROVE  Max({a, b}) = IF a < b THEN b ELSE a
<1>1. CASE a < b
  <2>1. \A x : (x \in {a, b} /\ \A y \in {a, b} : x >= y) <=> x = b
    BY <1>1
  <2> QED BY <1>1, <2>1 DEF Max
<1>2. CASE ~ (a < b)
  <2>1. \A x : (x \in {a, b} /\ \A y \in {a, b} : x >= y) <=> x = a
    BY <1>2
  <2> QED BY <1>2, <2>1 DEF Max
<1> QED BY <1>1, <1>2

\* And the smaller.
LEMMA MinOfTwo ==
  ASSUME NEW a \in Nat, NEW b \in Nat
  PROVE  Min({a, b}) = IF a < b THEN a ELSE b
<1>1. CASE a < b
  <2>1. \A x : (x \in {a, b} /\ \A y \in {a, b} : x <= y) <=> x = a
    BY <1>1
  <2> QED BY <1>1, <2>1 DEF Min
<1>2. CASE ~ (a < b)
  <2>1. \A x : (x \in {a, b} /\ \A y \in {a, b} : x <= y) <=> x = b
    BY <1>2
  <2> QED BY <1>2, <2>1 DEF Min
<1> QED BY <1>1, <1>2

\* A set of numbers that is bounded and not empty has a greatest one.
LEMMA MaxIsGreatest ==
  ASSUME NEW n \in Nat, NEW s \in SUBSET (0 .. n), s # {}
  PROVE  Max(s) \in s /\ \A x \in s : x <= Max(s)
<1> DEFINE T == {n - x : x \in s}
<1>0. \A x \in s : x \in Nat /\ n - x \in Nat
  <2>1. \A x \in 0 .. n : x \in Nat /\ n - x \in Nat
    OBVIOUS
  <2> QED
    BY <2>1
<1>1. T \in SUBSET Nat /\ T # {}
  BY <1>0
<1>2. PICK d \in T : \A e \in T : d <= e
  BY <1>1, Least
<1>3. PICK x \in s : d = n - x
  BY <1>2
<1>4. ASSUME NEW y \in s
      PROVE  x >= y
  <2>1. n - x <= n - y
    BY <1>2, <1>3
  <2> QED
    BY <1>0, <2>1
<1>5. Max(s) \in s /\ \A y \in s : Max(s) >= y
  BY <1>4 DEF Max
<1> QED
  BY <1>0, <1>5

\* A set of numbers that is not empty has its minimum.
LEMMA MinIsLeast ==
  ASSUME NEW s \in SUBSET Nat, s # {}
  PROVE  Min(s) \in s /\ \A x \in s : Min(s) <= x
<1>1. PICK n \in s : \A m \in s : n <= m
  BY Least
<1> QED
  BY <1>1 DEF Min

-----------------------------------------------------------------------------
(* Sums over a finite set. *)

\* The element that MapThenSumSet takes out of a set.
Pick(s) == CHOOSE x \in s : TRUE

\* It is one of the set.
LEMMA Picked ==
  ASSUME NEW s, s # {}
  PROVE  Pick(s) \in s
BY DEF Pick

\* What MapThenSumSet iterates.
Sums(g, f, S) ==
  g = [s \in SUBSET S |-> IF s = {} THEN 0 ELSE f[Pick(s)] + g[s \ {Pick(s)}]]

\* What is left without it is smaller by one.
LEMMA Smaller ==
  ASSUME NEW S, IsFiniteSet(S), NEW s \in SUBSET S, NEW x \in s
  PROVE  /\ s \ {x} \in SUBSET S
         /\ IsFiniteSet(s) /\ Cardinality(s) \in Nat \ {0}
         /\ Cardinality(s \ {x}) = Cardinality(s) - 1
<1>1. IsFiniteSet(s)
  BY FS_Subset
<1>2. Cardinality(s) \in Nat /\ s # {}
  BY <1>1, FS_CardinalityType
<1>3. Cardinality(s) # 0
  BY <1>1, <1>2, FS_EmptySet
<1>4. Cardinality(s \ {x}) = Cardinality(s) - 1
  BY <1>1, FS_RemoveElement
<1> QED BY <1>1, <1>2, <1>3, <1>4

\* There is such a function, built from the smaller subsets to the larger.
LEMMA SumExists ==
  ASSUME NEW S, IsFiniteSet(S), NEW f \in [S -> Nat]
  PROVE  \E g \in [SUBSET S -> Nat] : Sums(g, f, S)
<1> DEFINE Upto(n, g) == \A s \in SUBSET S : Cardinality(s) <= n =>
             g[s] = IF s = {} THEN 0 ELSE f[Pick(s)] + g[s \ {Pick(s)}]
           T == {n \in Nat : \E g \in [SUBSET S -> Nat] : Upto(n, g)}
<1>0. \A s \in SUBSET S : Cardinality(s) \in Nat /\ (Cardinality(s) = 0 <=> s = {})
  BY FS_Subset, FS_CardinalityType, FS_EmptySet
<1>1. 0 \in T
  <2>1. [s \in SUBSET S |-> 0] \in [SUBSET S -> Nat]
    OBVIOUS
  <2>2. Upto(0, [s \in SUBSET S |-> 0])
    BY <1>0
  <2> QED BY <2>1, <2>2
<1>2. ASSUME NEW n \in T PROVE n + 1 \in T
  <2>1. PICK g \in [SUBSET S -> Nat] : Upto(n, g)
    OBVIOUS
  <2> DEFINE h == [s \in SUBSET S |-> IF Cardinality(s) = n + 1
                                        THEN f[Pick(s)] + g[s \ {Pick(s)}] ELSE g[s]]
  <2>2. ASSUME NEW s \in SUBSET S, s # {}
        PROVE  f[Pick(s)] \in Nat /\ g[s \ {Pick(s)}] \in Nat
               /\ s \ {Pick(s)} \in SUBSET S
               /\ Cardinality(s \ {Pick(s)}) = Cardinality(s) - 1
    BY <2>2, Picked, Smaller
  <2>3. h \in [SUBSET S -> Nat]
    <3>1. ASSUME NEW s \in SUBSET S PROVE h[s] \in Nat
      <4>1. CASE Cardinality(s) = n + 1
        BY <1>0, <2>2, <4>1
      <4>2. CASE Cardinality(s) # n + 1
        BY <4>2
      <4> QED BY <4>1, <4>2
    <3> QED BY <3>1
  <2>4. ASSUME NEW s \in SUBSET S, Cardinality(s) <= n + 1
        PROVE  h[s] = IF s = {} THEN 0 ELSE f[Pick(s)] + h[s \ {Pick(s)}]
    <3>1. CASE s = {}
      BY <1>0, <2>1, <3>1
    <3>2. CASE s # {}
      <4>1. h[s \ {Pick(s)}] = g[s \ {Pick(s)}]
        BY <1>0, <2>2, <2>4, <3>2
      <4>2. h[s] = f[Pick(s)] + g[s \ {Pick(s)}]
        <5>1. CASE Cardinality(s) = n + 1
          BY <5>1
        <5>2. CASE Cardinality(s) # n + 1
          BY <1>0, <2>1, <2>4, <3>2, <5>2
        <5> QED BY <5>1, <5>2
      <4> QED BY <3>2, <4>1, <4>2
    <3> QED BY <3>1, <3>2
  <2> HIDE DEF h
  <2>5. Upto(n + 1, h)
    BY <2>4
  <2>6. n + 1 \in Nat
    OBVIOUS
  <2> QED BY <2>3, <2>5, <2>6
<1> HIDE DEF T
<1>3. T = Nat
  <2>1. T \in SUBSET Nat
    BY DEF T
  <2> QED BY <1>1, <1>2, <2>1, AllNumbers
<1>4. PICK g \in [SUBSET S -> Nat] : Upto(Cardinality(S), g)
  BY <1>0, <1>3 DEF T
<1>5. \A s \in SUBSET S : Cardinality(s) <= Cardinality(S)
  BY FS_Subset
<1>6. \A s \in SUBSET S : g[s] = IF s = {} THEN 0 ELSE f[Pick(s)] + g[s \ {Pick(s)}]
  BY <1>4, <1>5
<1>7. g = [s \in SUBSET S |-> g[s]]
  OBVIOUS
<1>8. Sums(g, f, S)
  BY <1>6, <1>7 DEF Sums
<1> QED BY <1>8

\* Any element may be taken out first.
SplitsOff(g, f, S) ==
  /\ g[{}] = 0
  /\ \A s \in SUBSET S : \A y \in s : g[s] = f[y] + g[s \ {y}]

\* By induction on the size: taking two elements out in either order leaves the same.
LEMMA SumRest ==
  ASSUME NEW S, IsFiniteSet(S), NEW f \in [S -> Nat], NEW g \in [SUBSET S -> Nat],
         Sums(g, f, S)
  PROVE  SplitsOff(g, f, S)
<1>0. \A s \in SUBSET S : g[s] = IF s = {} THEN 0 ELSE f[Pick(s)] + g[s \ {Pick(s)}]
  BY DEF Sums
<1> DEFINE Out(s) == \A y \in s : g[s] = f[y] + g[s \ {y}]
           T == {n \in Nat : \A s \in SUBSET S : Cardinality(s) = n => Out(s)}
<1>1. 0 \in T
  <2>1. ASSUME NEW s \in SUBSET S, NEW y \in s, Cardinality(s) = 0 PROVE FALSE
    BY <2>1, Smaller
  <2> QED BY <2>1
<1>2. ASSUME NEW n \in T PROVE n + 1 \in T
  <2> SUFFICES ASSUME NEW s \in SUBSET S, Cardinality(s) = n + 1, NEW y \in s
               PROVE  g[s] = f[y] + g[s \ {y}]
    OBVIOUS
  <2> DEFINE x == Pick(s)
  <2>1. x \in s
    BY Picked
  <2>2. g[s] = f[x] + g[s \ {x}]
    BY <1>0
  <2>3. CASE x = y
    BY <2>2, <2>3
  <2>4. CASE x # y
    <3> DEFINE a == s \ {x}
               b == s \ {y}
               c == s \ {x, y}
    <3> HIDE DEF x
    <3>1. a \in SUBSET S /\ b \in SUBSET S /\ c \in SUBSET S
      OBVIOUS
    <3>2. Cardinality(a) = n /\ Cardinality(b) = n
      BY <2>1, Smaller
    <3>3. y \in a /\ x \in b /\ a \ {y} = c /\ b \ {x} = c
      BY <2>1, <2>4
    <3> HIDE DEF a, b, c
    <3>4. g[a] = f[y] + g[c] /\ g[b] = f[x] + g[c]
      BY <3>1, <3>2, <3>3
    <3>5. f[x] \in Nat /\ f[y] \in Nat /\ g[c] \in Nat
      BY <2>1, <3>1
    <3> QED BY <2>2, <3>4, <3>5 DEF a, b
  <2> QED BY <2>3, <2>4
<1> HIDE DEF T
<1>3. T = Nat
  <2>1. T \in SUBSET Nat
    BY DEF T
  <2> QED BY <1>1, <1>2, <2>1, AllNumbers
<1>4. \A s \in SUBSET S : Out(s)
  <2>1. \A s \in SUBSET S : Cardinality(s) \in Nat
    BY FS_Subset, FS_CardinalityType
  <2> QED BY <1>3, <2>1 DEF T
<1>5. g[{}] = 0
  BY <1>0
<1> QED BY <1>4, <1>5 DEF SplitsOff

\* g gives the sum of f over every subset of S.
SumOf(g, f, S) ==
  IsFiniteSet(S) /\ f \in [S -> Nat] /\ g \in [SUBSET S -> Nat] /\ Sums(g, f, S)
\* Two functions have the same terms on U.
Agree(f, e, U) == \A x \in U : f[x] = e[x]

\* The sum over a subset depends on nothing else.
LEMMA SumSame ==
  ASSUME NEW S, NEW f, NEW g, SumOf(g, f, S),
         NEW R, NEW e, NEW h, SumOf(h, e, R),
         NEW U \in SUBSET (S \cap R), Agree(f, e, U)
  PROVE  g[U] = h[U]
<1> DEFINE T == {n \in Nat : \A s \in SUBSET U : Cardinality(s) = n => g[s] = h[s]}
<1>1. IsFiniteSet(U)
  BY FS_Subset DEF SumOf
<1>2. \A s \in SUBSET U : Cardinality(s) \in Nat /\ (Cardinality(s) = 0 <=> s = {})
  BY <1>1, FS_Subset, FS_CardinalityType, FS_EmptySet
<1>3. SplitsOff(g, f, S) /\ SplitsOff(h, e, R)
  BY SumRest DEF SumOf
<1>4. 0 \in T
  BY <1>2, <1>3 DEF SplitsOff
<1>5. ASSUME NEW n \in T PROVE n + 1 \in T
  <2> SUFFICES ASSUME NEW s \in SUBSET U, Cardinality(s) = n + 1
               PROVE  g[s] = h[s]
    OBVIOUS
  <2>1. PICK x \in s : TRUE
    BY <1>2
  <2>2. g[s] = f[x] + g[s \ {x}] /\ h[s] = e[x] + h[s \ {x}]
    BY <1>3, <2>1 DEF SplitsOff, Agree
  <2>3. Cardinality(s \ {x}) = n
    BY <1>1, <2>1, Smaller
  <2> QED BY <2>1, <2>2, <2>3 DEF Agree
<1> HIDE DEF T
<1>6. T = Nat
  <2>1. T \in SUBSET Nat
    BY DEF T
  <2> QED BY <1>4, <1>5, <2>1, AllNumbers
<1> QED BY <1>2, <1>6 DEF T

\* Bounds of the terms are bounds of the average.
LEMMA SumBelow ==
  ASSUME NEW S, IsFiniteSet(S), NEW f \in [S -> Nat], NEW g \in [SUBSET S -> Nat],
         Sums(g, f, S), NEW k \in Nat, NEW c \in Nat, \A x \in S : k * f[x] <= c
  PROVE  k * g[S] <= c * Cardinality(S)
<1>0. SplitsOff(g, f, S)
  BY SumRest
<1> DEFINE Bounded(s, n) == k * g[s] <= c * n
           T == {n \in Nat : \A s \in SUBSET S : Cardinality(s) = n => Bounded(s, n)}
<1>1. \A s \in SUBSET S : Cardinality(s) \in Nat /\ (Cardinality(s) = 0 <=> s = {})
  BY FS_Subset, FS_CardinalityType, FS_EmptySet
<1>2. 0 \in T
  <2>1. k * 0 = 0 /\ c * 0 = 0
    OBVIOUS
  <2>2. g[{}] = 0
    BY <1>0 DEF SplitsOff
  <2>3. Bounded({}, 0)
    BY <2>1, <2>2
  <2> QED BY <1>1, <2>3
<1>3. ASSUME NEW n \in T PROVE n + 1 \in T
  <2>0. n \in Nat
    OBVIOUS
  <2> SUFFICES ASSUME NEW s \in SUBSET S, Cardinality(s) = n + 1
               PROVE  k * g[s] <= c * (n + 1)
    OBVIOUS
  <2>1. PICK x \in s : TRUE
    BY <1>1
  <2>2. g[s] = f[x] + g[s \ {x}]
    BY <1>0, <2>1 DEF SplitsOff
  <2>3. Cardinality(s \ {x}) = n
    <3> HIDE DEF T
    <3> QED BY <2>0, <2>1, Smaller
  <2>4. k * g[s \ {x}] <= c * n /\ k * f[x] <= c
    BY <2>1, <2>3
  <2>5. f[x] \in Nat /\ g[s \ {x}] \in Nat /\ n \in Nat
    BY <2>1
  <2>6. k * (f[x] + g[s \ {x}]) = k * f[x] + k * g[s \ {x}]
    BY <2>5
  <2>7. c * (n + 1) = c * n + c
    BY <2>5
  <2>8. k * f[x] \in Nat /\ k * g[s \ {x}] \in Nat /\ c * n \in Nat
    BY <2>5
  <2> QED BY <2>2, <2>4, <2>6, <2>7, <2>8
<1> HIDE DEF T
<1>4. T = Nat
  <2>1. T \in SUBSET Nat
    BY DEF T
  <2> QED BY <1>2, <1>3, <2>1, AllNumbers
<1> QED BY <1>1, <1>4 DEF T

\* The bound from below.
LEMMA SumAbove ==
  ASSUME NEW S, IsFiniteSet(S), NEW f \in [S -> Nat], NEW g \in [SUBSET S -> Nat],
         Sums(g, f, S), NEW c \in Nat, \A x \in S : c <= f[x]
  PROVE  c * Cardinality(S) <= g[S]
<1>0. SplitsOff(g, f, S)
  BY SumRest
<1> DEFINE T == {n \in Nat : \A s \in SUBSET S : Cardinality(s) = n => c * n <= g[s]}
<1>1. \A s \in SUBSET S : Cardinality(s) \in Nat /\ (Cardinality(s) = 0 <=> s = {})
  BY FS_Subset, FS_CardinalityType, FS_EmptySet
<1>2. 0 \in T
  <2>1. c * 0 = 0
    OBVIOUS
  <2>2. g[{}] = 0
    BY <1>0 DEF SplitsOff
  <2> QED BY <1>1, <2>1, <2>2
<1>3. ASSUME NEW n \in T PROVE n + 1 \in T
  <2>0. n \in Nat
    OBVIOUS
  <2> SUFFICES ASSUME NEW s \in SUBSET S, Cardinality(s) = n + 1
               PROVE  c * (n + 1) <= g[s]
    OBVIOUS
  <2>1. PICK x \in s : TRUE
    BY <1>1
  <2>2. g[s] = f[x] + g[s \ {x}]
    BY <1>0, <2>1 DEF SplitsOff
  <2>3. Cardinality(s \ {x}) = n
    <3> HIDE DEF T
    <3> QED BY <2>0, <2>1, Smaller
  <2>4. c * n <= g[s \ {x}] /\ c <= f[x]
    BY <2>1, <2>3
  <2>5. f[x] \in Nat /\ g[s \ {x}] \in Nat /\ n \in Nat
    BY <2>1
  <2>6. c * (n + 1) = c * n + c /\ c * n \in Nat
    BY <2>5
  <2> QED BY <2>2, <2>4, <2>5, <2>6
<1> HIDE DEF T
<1>4. T = Nat
  <2>1. T \in SUBSET Nat
    BY DEF T
  <2> QED BY <1>2, <1>3, <2>1, AllNumbers
<1> QED BY <1>1, <1>4 DEF T

\* There is only one such function.
LEMMA SumUnique ==
  ASSUME NEW S, IsFiniteSet(S), NEW f, NEW g, NEW h, Sums(g, f, S), Sums(h, f, S)
  PROVE  g = h
<1> DEFINE T == {n \in Nat : \A s \in SUBSET S : Cardinality(s) = n => g[s] = h[s]}
<1>1. \A s \in SUBSET S : Cardinality(s) \in Nat /\ (Cardinality(s) = 0 <=> s = {})
  BY FS_Subset, FS_CardinalityType, FS_EmptySet
<1>2. \A s \in SUBSET S : /\ g[s] = IF s = {} THEN 0 ELSE f[Pick(s)] + g[s \ {Pick(s)}]
                          /\ h[s] = IF s = {} THEN 0 ELSE f[Pick(s)] + h[s \ {Pick(s)}]
  BY DEF Sums
<1>3. 0 \in T
  BY <1>1, <1>2
<1>4. ASSUME NEW n \in T PROVE n + 1 \in T
  <2> SUFFICES ASSUME NEW s \in SUBSET S, Cardinality(s) = n + 1
               PROVE  g[s] = h[s]
    OBVIOUS
  <2>1. s # {} /\ Pick(s) \in s
    BY <1>1, Picked
  <2>2. s \ {Pick(s)} \in SUBSET S /\ Cardinality(s \ {Pick(s)}) = n
    <3> HIDE DEF T
    <3>1. n \in Nat
      BY DEF T
    <3> QED BY <2>1, <3>1, Smaller
  <2> QED BY <1>2, <2>1, <2>2
<1> HIDE DEF T
<1>5. T = Nat
  <2>1. T \in SUBSET Nat
    BY DEF T
  <2> QED BY <1>3, <1>4, <2>1, AllNumbers
<1>6. \A s \in SUBSET S : g[s] = h[s]
  BY <1>1, <1>5 DEF T
<1>7. g = [s \in SUBSET S |-> g[s]] /\ h = [s \in SUBSET S |-> h[s]]
  BY DEF Sums
<1> QED BY <1>6, <1>7

-----------------------------------------------------------------------------
(* Folds over a sequence. *)

\* The first places of a sequence.
LEMMA FirstPlaces ==
  ASSUME NEW n \in Nat, NEW k \in Nat, k + 1 <= n
  PROVE  /\ 1 .. k + 1 \in SUBSET (1 .. n)
         /\ 1 .. k + 1 # {} /\ k + 1 \in 1 .. k + 1
<1>1. k + 1 \in 1 .. k + 1
  OBVIOUS
<1>2. \A x \in 1 .. k + 1 : x \in 1 .. n
  OBVIOUS
<1> QED
  BY <1>1, <1>2, Zenon

\* The greatest number of an interval that grows at its end.
LEMMA LastIsMax ==
  ASSUME NEW m \in Nat, NEW s \in SUBSET (1 .. m + 1), m + 1 \in s
  PROVE  Max(s) = m + 1
<1>1. \A x \in s : x \in Int /\ m + 1 \in Int /\ x <= m + 1
  OBVIOUS
<1>2. \A x \in s : m + 1 >= x /\ (x >= m + 1 => x = m + 1)
  BY <1>1
<1>3. \A x : (x \in s /\ \A y \in s : x >= y) <=> x = m + 1
  BY <1>2, Zenon
<1> QED
  BY <1>3, Zenon DEF Max

\* The greatest of some places is one of them.
LEMMA MaxIsIn ==
  ASSUME NEW n \in Nat, NEW s \in SUBSET (1 .. n), s # {}
  PROVE  Max(s) \in s
<1>1. \A x \in 1 .. n : x \in 0 .. n
  OBVIOUS
<1>2. s \in SUBSET (0 .. n)
  BY <1>1
<1> QED
  BY <1>2, MaxIsGreatest

\* What FoldLeft iterates over the places 1 .. n, when step is a function.
LeftFold(g, base, step, n) ==
  g = [s \in SUBSET (1 .. n) |->
         IF s = {} THEN base ELSE step[<<g[s \ {Max(s)}], Max(s)>>]]

\* There is such a function, built from one place to the next.
LEMMA FoldExists ==
  ASSUME NEW n \in Nat, NEW V, NEW base \in V, NEW step \in [V \X (1 .. n) -> V]
  PROVE  \E g \in [SUBSET (1 .. n) -> V] : LeftFold(g, base, step, n)
<1> DEFINE Upto(m, g) == \A s \in SUBSET (1 .. m) : s \in SUBSET (1 .. n) =>
             g[s] = IF s = {} THEN base ELSE step[<<g[s \ {Max(s)}], Max(s)>>]
           T == {m \in Nat : \E g \in [SUBSET (1 .. n) -> V] : Upto(m, g)}
<1>1. 0 \in T
  <2>1. [s \in SUBSET (1 .. n) |-> base] \in [SUBSET (1 .. n) -> V]
    OBVIOUS
  <2>2. \A s \in SUBSET (1 .. 0) : s = {}
    OBVIOUS
  <2>3. Upto(0, [s \in SUBSET (1 .. n) |-> base])
    BY <2>2
  <2> QED
    BY <2>1, <2>3
<1>2. ASSUME NEW m \in T
      PROVE  m + 1 \in T
  <2>1. m \in Nat
    OBVIOUS
  <2>2. PICK g \in [SUBSET (1 .. n) -> V] : Upto(m, g)
    OBVIOUS
  <2> DEFINE h == [s \in SUBSET (1 .. n) |->
                     IF m + 1 \in s THEN step[<<g[s \ {m + 1}], m + 1>>] ELSE g[s]]
  <2>3. h \in [SUBSET (1 .. n) -> V]
    <3>1. ASSUME NEW s \in SUBSET (1 .. n), m + 1 \in s
          PROVE  step[<<g[s \ {m + 1}], m + 1>>] \in V
      <4>1. s \ {m + 1} \in SUBSET (1 .. n) /\ m + 1 \in 1 .. n
        BY <3>1
      <4> QED
        BY <4>1
    <3> QED
      BY <3>1
  <2>4. ASSUME NEW s \in SUBSET (1 .. m + 1), s \in SUBSET (1 .. n)
        PROVE  h[s] = IF s = {} THEN base ELSE step[<<h[s \ {Max(s)}], Max(s)>>]
    <3>1. CASE m + 1 \in s
      <4>1. Max(s) = m + 1
        BY <2>1, <3>1, LastIsMax
      <4>2. s \ {m + 1} \in SUBSET (1 .. n) /\ m + 1 \notin s \ {m + 1}
        BY <2>4
      <4>3. h[s \ {m + 1}] = g[s \ {m + 1}]
        BY <4>2
      <4> QED
        BY <2>4, <3>1, <4>1, <4>3
    <3>2. CASE m + 1 \notin s
      <4>1. s \in SUBSET (1 .. m)
        BY <2>1, <3>2
      <4>2. s \ {Max(s)} \in SUBSET (1 .. n) /\ m + 1 \notin s \ {Max(s)}
        BY <2>4, <3>2
      <4>3. h[s] = g[s] /\ h[s \ {Max(s)}] = g[s \ {Max(s)}]
        BY <2>4, <3>2, <4>2
      <4> QED
        BY <2>2, <2>4, <4>1, <4>3
    <3> QED
      BY <3>1, <3>2
  <2> HIDE DEF h
  <2>5. Upto(m + 1, h) /\ m + 1 \in Nat
    BY <2>1, <2>4
  <2> HIDE DEF Upto
  <2> QED
    BY <2>3, <2>5
<1> HIDE DEF T
<1>3. T = Nat
  <2>1. T \in SUBSET Nat
    BY DEF T
  <2> QED
    BY <1>1, <1>2, <2>1, AllNumbers
<1>4. PICK g \in [SUBSET (1 .. n) -> V] : Upto(n, g)
  BY <1>3 DEF T
<1>5. \A s \in SUBSET (1 .. n) :
        g[s] = IF s = {} THEN base ELSE step[<<g[s \ {Max(s)}], Max(s)>>]
  BY <1>4
<1>6. LeftFold(g, base, step, n)
  BY <1>5 DEF LeftFold
<1> QED
  BY <1>6

\* A function on the places of a sequence is one.
LEMMA FunctionIsSeq ==
  ASSUME NEW S, NEW n \in Nat, NEW s \in [1 .. n -> S]
  PROVE  s \in Seq(S) /\ Len(s) = n
<1>1. s \in Seq(S)
  OBVIOUS
<1>2. DOMAIN s = 1 .. n /\ DOMAIN s = 1 .. Len(s) /\ Len(s) \in Nat
  BY <1>1
<1> QED
  BY <1>1, <1>2

-----------------------------------------------------------------------------
(* Genres: role and audit record agree, and the rotation answers what it did. *)

\* What the table may have under a name, and what a request may change in it.
Cells == Columns \cup {NoGenreRow}
Updates == [role : Roles \cup {Keep}, enabled : BOOLEAN \cup {Keep}]

\* What a request may hold between its read and its commit.
RowCalls == [op : {"promote", "demote", "disable"}, name : Names, set : Updates]
NewCalls == [op : {"create"}, name : Names, row : Columns]
WeekCalls == [op : {"rotate"}, week : WeekPlans, old : [Names -> Cells]]

\* The table and the records are well-formed.
GenreRows ==
  /\ genreRow \in [Names -> Cells]
  /\ said \in [Names -> Roles \cup {NoGenreRow}]

\* And the requests.
GenreCalls == call \in [Callers -> {NoCall} \cup RowCalls \cup NewCalls \cup WeekCalls]

\* A row that a request has read is still there when it commits.
RowsStay(c) ==
  /\ call[c].op \in {"promote", "demote", "disable"} => Exists(call[c].name)
  /\ call[c].op = "rotate" =>
       \A n \in Names : call[c].old[n] # NoGenreRow => Exists(n)

\* So it is for every request.
ReadRowsExist == \A c \in Callers : RowsStay(c)

\* The inductive invariant.
GenresInv == GenreRows /\ GenreCalls /\ ReadRowsExist /\ RoleIsAudited

-----------------------------------------------------------------------------
(* The operators of the model *)

\* A name without a row is told from every row.
LEMMA ColumnsNotNone == NoGenreRow \notin Columns /\ NoGenreRow \notin Roles
BY GenreAssumption

\* A change of role leads to a role.
LEMMA RolesClosed ==
  ASSUME NEW role
  PROVE  Promotions(role) \subseteq Roles /\ Demotions(role) \subseteq Roles
<1>1. \A i \in 1 .. 3 : Ladder[i] \in Roles
  BY DEF Roles
<1>2. Ladder[1] = "experiment" /\ Ladder[2] = "extension" /\ Ladder[3] = "main"
  BY DEF Ladder
<1>3. {"experiment", "extension", "main"} \subseteq Roles
  BY <1>1, <1>2
<1> QED BY <1>1, <1>3 DEF Promotions, Demotions, Promotable, Demotable

\* What a request changes is an update.
LEMMA ChangedType ==
  ASSUME NEW old, NEW new \in Columns
  PROVE  Changed(old, new) \in Updates
<1>1. new.role \in Roles /\ new.enabled \in BOOLEAN
  BY DEF Columns
<1> DEFINE r == IF new.role = old.role THEN Keep ELSE new.role
           e == IF new.enabled = old.enabled THEN Keep ELSE new.enabled
<1>2. r \in Roles \cup {Keep} /\ e \in BOOLEAN \cup {Keep}
  BY <1>1, Zenon
<1>3. Changed(old, new) = [role |-> r, enabled |-> e]
  BY DEF Changed
<1> HIDE DEF r, e
<1> QED BY <1>2, <1>3 DEF Updates

\* An update of a row is a row, with the role the update states.
LEMMA WrittenType ==
  ASSUME NEW row \in Columns, NEW set \in Updates
  PROVE  /\ Written(row, set) \in Columns
         /\ Written(row, set).role = (IF set.role = Keep THEN row.role ELSE set.role)
<1>1. /\ row.role \in Roles /\ row.enabled \in BOOLEAN
      /\ set.role \in Roles \cup {Keep} /\ set.enabled \in BOOLEAN \cup {Keep}
  BY DEF Columns, Updates
<1> DEFINE r == IF set.role = Keep THEN row.role ELSE set.role
           e == IF set.enabled = Keep THEN row.enabled ELSE set.enabled
<1>2. r \in Roles /\ e \in BOOLEAN
  BY <1>1, Zenon
<1>3. Written(row, set) = [role |-> r, enabled |-> e]
  BY DEF Written
<1> HIDE DEF r, e
<1>4. Written(row, set) \in Columns /\ Written(row, set).role = r
  BY <1>2, <1>3 DEF Columns
<1> QED BY <1>4 DEF r

\* The rotation makes rows of rows, and gives to each genre it moves, and to no
\* other, another role or a first one: experiment.
LEMMA RotatedType ==
  ASSUME NEW w, NEW old \in [Names -> Cells], NEW n \in Names
  PROVE  /\ old[n] # NoGenreRow => Rotated(w, old)[n] \in Columns
         /\ Rotated(w, old)[n] \in Cells
<1>1. "experiment" \in Roles
  BY DEF Roles, Ladder
<1>2. Placeholder \in Columns
  BY <1>1 DEF Placeholder, Columns
<1>3. old[n] \in Columns => /\ [old[n] EXCEPT !.enabled = TRUE] \in Columns
                            /\ [old[n] EXCEPT !.enabled = FALSE] \in Columns
  BY DEF Columns
<1>4. old[n] \in Cells
  OBVIOUS
<1> QED BY <1>2, <1>3, <1>4, ColumnsNotNone DEF Rotated, Cells

\* A genre that the rotation moves becomes an experiment, as one that it creates.
LEMMA RotatedRole ==
  ASSUME NEW w, NEW old \in [Names -> Cells], NEW n \in Names
  PROVE  LET moved == Answer(w, old).moved
         IN /\ n \in moved /\ old[n] # NoGenreRow =>
                 Rotated(w, old)[n].role = "experiment" /\ old[n].role # "experiment"
            /\ old[n] = NoGenreRow /\ Rotated(w, old)[n] # NoGenreRow =>
                 n \in moved /\ Rotated(w, old)[n].role = "experiment"
            /\ n \in moved /\ old[n] = NoGenreRow => Rotated(w, old)[n] # NoGenreRow
            /\ n \notin moved /\ old[n] # NoGenreRow =>
                 Rotated(w, old)[n].role = old[n].role
<1> DEFINE moved == {m \in w.trial : ~ IsRole(old[m], "experiment")}
                      \cup {m \in w.share : old[m] = NoGenreRow}
<1>1. Answer(w, old).moved = moved
  BY DEF Answer
<1>2. Placeholder.role = "experiment" /\ Placeholder # NoGenreRow
  <2>1. Placeholder \in Columns
    BY DEF Placeholder, Columns, Roles, Ladder
  <2> QED BY <2>1, ColumnsNotNone DEF Placeholder
<1>3. old[n] # NoGenreRow =>
        /\ [old[n] EXCEPT !.enabled = TRUE].role = old[n].role
        /\ [old[n] EXCEPT !.enabled = FALSE].role = old[n].role
  BY DEF Cells, Columns
<1>4. n \in moved <=> \/ n \in w.trial /\ ~ IsRole(old[n], "experiment")
                      \/ n \in w.share /\ old[n] = NoGenreRow
  OBVIOUS
<1>5. IsRole(old[n], "experiment") <=> old[n] # NoGenreRow /\ old[n].role = "experiment"
  BY DEF IsRole
<1> DEFINE new == Rotated(w, old)[n]
<1>6. new = CASE n \in w.trial \/ (n \in w.share /\ old[n] = NoGenreRow) -> Placeholder
              [] n \in w.share \ w.trial /\ old[n] # NoGenreRow -> [old[n] EXCEPT !.enabled = TRUE]
              [] n \in TurnOff(w) /\ old[n] # NoGenreRow -> [old[n] EXCEPT !.enabled = FALSE]
              [] OTHER -> old[n]
  BY DEF Rotated
<1>7. n \in TurnOff(w) => n \notin w.share /\ n \notin w.trial
  BY DEF TurnOff, TurnOn
<1> HIDE DEF moved, new
<1>8. /\ n \in moved /\ old[n] # NoGenreRow =>
           new.role = "experiment" /\ old[n].role # "experiment"
      /\ old[n] = NoGenreRow /\ new # NoGenreRow => n \in moved /\ new.role = "experiment"
      /\ n \in moved /\ old[n] = NoGenreRow => new # NoGenreRow
      /\ n \notin moved /\ old[n] # NoGenreRow => new.role = old[n].role
  BY <1>2, <1>3, <1>4, <1>5, <1>6, <1>7
<1> QED BY <1>1, <1>8 DEF new

-----------------------------------------------------------------------------
(* One lemma per kind of step *)

\* The dictionary that is installed agrees with its records.
LEMMA GenresInvInit == GenresInit => GenresInv
<1> SUFFICES ASSUME GenresInit PROVE GenresInv
  OBVIOUS
<1>1. \A n \in Names : n \in DOMAIN Seed => [role |-> Seed[n], enabled |-> TRUE] \in Columns
  BY GenreAssumption DEF Columns
<1>2. GenreRows
  BY <1>1, GenreAssumption DEF GenresInit, GenreRows, Cells
<1>3. GenreCalls
  BY DEF GenresInit, GenreCalls
<1>4. ReadRowsExist
  BY DEF GenresInit, ReadRowsExist, RowsStay, NoCall
<1>5. RoleIsAudited
  BY <1>1, ColumnsNotNone DEF GenresInit, RoleIsAudited, Exists
<1> QED BY <1>2, <1>3, <1>4, <1>5 DEF GenresInv

\* A request that only reads leaves rows and records alone, and what it keeps is
\* of the right kind.
LEMMA ReadStep ==
  ASSUME GenresInv, NEW c \in Callers, NEW next,
         call' = [call EXCEPT ![c] = next], UNCHANGED <<genreRow, said>>,
         \/ next = NoCall
         \/ next \in RowCalls /\ Exists(next.name)
         \/ next \in NewCalls
         \/ next \in WeekCalls /\ next.old = genreRow
  PROVE  GenresInv'
<1>1. GenreRows' /\ RoleIsAudited'
  BY DEF GenresInv, GenreRows, RoleIsAudited, Exists
<1>2. GenreCalls'
  BY DEF GenresInv, GenreCalls
<1>3. \A d \in Callers : call'[d] = IF d = c THEN next ELSE call[d]
  BY DEF GenresInv, GenreCalls
<1>4. /\ next.op \in {"promote", "demote", "disable"} => Exists(next.name)
      /\ next.op = "rotate" => next.old = genreRow
  BY DEF NoCall, RowCalls, NewCalls, WeekCalls
<1>5. ReadRowsExist'
  BY <1>3, <1>4 DEF GenresInv, ReadRowsExist, RowsStay, Exists
<1> QED BY <1>1, <1>2, <1>5 DEF GenresInv

\* A commit never takes a row away and says of every row the role it has.
LEMMA CommitStep ==
  ASSUME GenresInv, NEW c \in Callers, call' = [call EXCEPT ![c] = NoCall],
         GenreRows', \A n \in Names : Exists(n) => Exists(n)', RoleIsAudited'
  PROVE  GenresInv'
<1>1. GenreCalls'
  BY DEF GenresInv, GenreCalls
<1>2. \A d \in Callers : call'[d] = IF d = c THEN NoCall ELSE call[d]
  BY DEF GenresInv, GenreCalls
<1>3. ReadRowsExist'
  <2> SUFFICES ASSUME NEW d \in Callers
               PROVE  RowsStay(d)'
    BY DEF ReadRowsExist
  <2>1. CASE d = c
    BY <1>2, <2>1 DEF NoCall, RowsStay
  <2>2. CASE d # c
    <3>1. call[d].op \in {"promote", "demote", "disable"} => call[d].name \in Names
      BY DEF GenresInv, GenreCalls, NoCall, RowCalls, NewCalls, WeekCalls
    <3> QED BY <1>2, <2>2, <3>1 DEF GenresInv, ReadRowsExist, RowsStay, Exists
  <2> QED BY <2>1, <2>2
<1> QED BY <1>1, <1>3 DEF GenresInv

\* Reading before a promotion, a demotion or a suspension.
LEMMA ReadsStep ==
  ASSUME GenresInv, NEW c \in Callers, NEW n \in Names,
         PromoteGenre(c, n) \/ DemoteGenre(c, n) \/ DisableGenre(c, n)
  PROVE  GenresInv'
<1>1. genreRow[n] \in Columns
  BY DEF GenresInv, GenreRows, Cells, PromoteGenre, DemoteGenre, DisableGenre, Exists
<1>2. genreRow[n].role \in Roles /\ genreRow[n].enabled \in BOOLEAN
  BY <1>1 DEF Columns
<1>3. \E op \in {"promote", "demote", "disable"}, new \in Columns : Read(c, n, op, new)
  <2>1. CASE PromoteGenre(c, n)
    <3>1. PICK role \in Promotions(genreRow[n].role) :
            Read(c, n, "promote", [role |-> role, enabled |-> TRUE])
      BY <2>1 DEF PromoteGenre
    <3>2. [role |-> role, enabled |-> TRUE] \in Columns
      BY RolesClosed DEF Columns
    <3> QED BY <3>1, <3>2
  <2>2. CASE DemoteGenre(c, n)
    <3>1. PICK role \in Demotions(genreRow[n].role) :
            Read(c, n, "demote", [genreRow[n] EXCEPT !.role = role])
      BY <2>2 DEF DemoteGenre
    <3>2. [genreRow[n] EXCEPT !.role = role] \in Columns
      BY <1>1, RolesClosed DEF Columns
    <3> QED BY <3>1, <3>2
  <2>3. CASE DisableGenre(c, n)
    <3>1. [genreRow[n] EXCEPT !.enabled = FALSE] \in Columns
      BY <1>1 DEF Columns
    <3> QED BY <2>3, <3>1 DEF DisableGenre
  <2> QED BY <2>1, <2>2, <2>3
<1>4. PICK op \in {"promote", "demote", "disable"}, new \in Columns : Read(c, n, op, new)
  BY <1>3
<1> DEFINE next == [op |-> op, name |-> n, set |-> Changed(genreRow[n], new)]
<1>5. next \in RowCalls /\ Exists(next.name)
  BY ChangedType DEF RowCalls, PromoteGenre, DemoteGenre, DisableGenre
<1>6. call' = [call EXCEPT ![c] = next] /\ UNCHANGED <<genreRow, said>>
  BY <1>4 DEF Read
<1> HIDE DEF next
<1> QED BY <1>5, <1>6, ReadStep

\* Committing one of these, on the row as it is by then.
LEMMA SaveStep ==
  ASSUME GenresInv, NEW c \in Callers, Save(c)
  PROVE  GenresInv'
<1> DEFINE n == call[c].name
           set == call[c].set
<1>1. call[c] \in RowCalls
  BY DEF GenresInv, GenreCalls, Save, NoCall, NewCalls, WeekCalls
<1>2. n \in Names /\ set \in Updates
  BY <1>1 DEF RowCalls
<1>3. Exists(n) /\ genreRow[n] \in Columns
  BY <1>2 DEF GenresInv, ReadRowsExist, RowsStay, Save, GenreRows, Cells, Exists
<1>4. /\ genreRow' = [genreRow EXCEPT ![n] = Written(genreRow[n], set)]
      /\ said' = [said EXCEPT ![n] = IF set.role = Keep THEN said[n] ELSE set.role]
      /\ call' = [call EXCEPT ![c] = NoCall]
  BY DEF Save, Answered
<1>5. /\ Written(genreRow[n], set) \in Columns
      /\ Written(genreRow[n], set).role =
           (IF set.role = Keep THEN genreRow[n].role ELSE set.role)
  BY <1>2, <1>3, WrittenType
<1>10. set.role \in Roles \cup {Keep}
  BY <1>2 DEF Updates
<1> HIDE DEF n, set
<1>6. GenreRows'
  BY <1>2, <1>4, <1>5, <1>10 DEF GenresInv, GenreRows, Cells
<1>7. \A m \in Names : genreRow'[m] = IF m = n THEN Written(genreRow[n], set) ELSE genreRow[m]
  BY <1>4 DEF GenresInv, GenreRows
<1>8. \A m \in Names : Exists(m) => Exists(m)'
  BY <1>5, <1>7, ColumnsNotNone DEF Exists
<1>9. RoleIsAudited'
  <2>1. \A m \in Names : said'[m] = IF m = n /\ set.role # Keep THEN set.role ELSE said[m]
    BY <1>4 DEF GenresInv, GenreRows
  <2> QED BY <1>3, <1>5, <1>7, <2>1, ColumnsNotNone DEF GenresInv, RoleIsAudited, Exists
<1> QED BY <1>4, <1>6, <1>8, <1>9, CommitStep

\* Committing a new genre, if its name is still free.
LEMMA SaveNewStep ==
  ASSUME GenresInv, NEW c \in Callers, SaveNew(c)
  PROVE  GenresInv'
<1>1. call[c] \in NewCalls
  BY DEF GenresInv, GenreCalls, SaveNew, NoCall, RowCalls, WeekCalls
<1>2. call[c].name \in Names /\ call[c].row \in Columns
  BY <1>1 DEF NewCalls
<1>3. call' = [call EXCEPT ![c] = NoCall]
  BY DEF SaveNew, Answered
<1>4. CASE Exists(call[c].name)
  BY <1>3, <1>4, ReadStep DEF SaveNew
<1>5. CASE ~ Exists(call[c].name)
  <2> DEFINE n == call[c].name
             row == call[c].row
  <2>1. genreRow' = [genreRow EXCEPT ![n] = row] /\ said' = [said EXCEPT ![n] = row.role]
    BY <1>5 DEF SaveNew
  <2>2. n \in Names /\ row \in Columns /\ row # NoGenreRow /\ row.role \in Roles
    BY <1>2, ColumnsNotNone DEF Columns
  <2> HIDE DEF n, row
  <2>3. GenreRows'
    BY <2>1, <2>2 DEF GenresInv, GenreRows, Cells
  <2>4. \A m \in Names : Exists(m) => Exists(m)'
    BY <2>1, <2>2 DEF GenresInv, GenreRows, Exists
  <2>5. RoleIsAudited'
    BY <2>1, <2>2 DEF GenresInv, GenreRows, RoleIsAudited, Exists
  <2> QED BY <1>3, <2>3, <2>4, <2>5, CommitStep
<1> QED BY <1>4, <1>5

\* Committing a rotation: every row at once, each with its record.
LEMMA SaveWeekStep ==
  ASSUME GenresInv, NEW c \in Callers, SaveWeek(c)
  PROVE  GenresInv'
<1> DEFINE w == call[c].week
           old == call[c].old
           new == Rotated(w, old)
           moved == Answer(w, old).moved
           made == {n \in Names : old[n] = NoGenreRow /\ new[n] # NoGenreRow}
<1>1. call[c] \in WeekCalls
  BY DEF GenresInv, GenreCalls, SaveWeek, NoCall, RowCalls, NewCalls
<1>2. old \in [Names -> Cells]
  BY <1>1 DEF WeekCalls
<1>3. \A n \in Names : old[n] # NoGenreRow => Exists(n) /\ genreRow[n] \in Columns
  BY DEF GenresInv, ReadRowsExist, RowsStay, SaveWeek, GenreRows, Cells, Exists
<1>4. call' = [call EXCEPT ![c] = NoCall]
  BY DEF SaveWeek, Answered
<1>5. CASE \E n \in made : Exists(n)
  <2>1. UNCHANGED <<genreRow, said>>
    BY <1>5 DEF SaveWeek
  <2> QED BY <1>4, <2>1, ReadStep
<1>6. CASE ~ \E n \in made : Exists(n)
  <2>1. /\ genreRow' = [n \in Names |->
             CASE n \in made -> new[n]
               [] old[n] # NoGenreRow -> Written(genreRow[n], Changed(old[n], new[n]))
               [] OTHER -> genreRow[n]]
        /\ said' = [n \in Names |-> IF n \in moved THEN "experiment" ELSE said[n]]
    BY <1>6 DEF SaveWeek
  <2>2. ASSUME NEW n \in Names
        PROVE  /\ genreRow'[n] \in Cells
               /\ Exists(n) => genreRow'[n] # NoGenreRow
               /\ said'[n] \in Roles \cup {NoGenreRow}
               /\ said'[n] = IF genreRow'[n] # NoGenreRow THEN genreRow'[n].role ELSE NoGenreRow
    <3>1. /\ old[n] # NoGenreRow => new[n] \in Columns
          /\ new[n] \in Cells
      BY <1>2, RotatedType
    <3>2. /\ n \in moved /\ old[n] # NoGenreRow =>
               new[n].role = "experiment" /\ old[n].role # "experiment"
          /\ old[n] = NoGenreRow /\ new[n] # NoGenreRow =>
               n \in moved /\ new[n].role = "experiment"
          /\ n \in moved /\ old[n] = NoGenreRow => new[n] # NoGenreRow
          /\ n \notin moved /\ old[n] # NoGenreRow => new[n].role = old[n].role
      BY <1>2, RotatedRole
    <3>3. said[n] = IF Exists(n) THEN genreRow[n].role ELSE NoGenreRow
      BY DEF GenresInv, RoleIsAudited
    <3>4. said'[n] = IF n \in moved THEN "experiment" ELSE said[n]
      BY <2>1
    <3>5. said'[n] \in Roles \cup {NoGenreRow}
      BY <3>4 DEF GenresInv, GenreRows, Roles, Ladder
    <3>6. CASE n \in made
      BY <1>6, <2>1, <3>1, <3>2, <3>4, <3>5, <3>6
    <3>7. CASE old[n] # NoGenreRow
      <4> DEFINE set == Changed(old[n], new[n])
                 row == Written(genreRow[n], set)
      <4>1. genreRow'[n] = row
        BY <2>1, <3>7
      <4>2. set \in Updates /\ set.role = IF new[n].role = old[n].role THEN Keep ELSE new[n].role
        <5>1. set \in Updates
          BY <3>1, <3>7, ChangedType
        <5>2. set.role = IF new[n].role = old[n].role THEN Keep ELSE new[n].role
          BY DEF Changed
        <5> QED BY <5>1, <5>2
      <4>3. row \in Columns /\ row.role = (IF set.role = Keep THEN genreRow[n].role ELSE set.role)
        BY <1>3, <3>7, <4>2, WrittenType
      <4>4. "experiment" # Keep
        BY GenreAssumption DEF Roles, Ladder
      <4> HIDE DEF row, set, moved, new, old
      <4>5. row.role = IF n \in moved THEN "experiment" ELSE said[n]
        BY <1>3, <3>2, <3>3, <3>7, <4>2, <4>3, <4>4
      <4> QED BY <3>4, <3>5, <4>1, <4>3, <4>5, ColumnsNotNone DEF Cells
    <3>8. CASE n \notin made /\ old[n] = NoGenreRow
      <4>1. genreRow'[n] = genreRow[n]
        BY <2>1, <3>8
      <4>2. n \notin moved
        BY <3>2, <3>8
      <4>3. genreRow[n] \in Cells
        BY DEF GenresInv, GenreRows
      <4> QED BY <3>3, <3>4, <3>5, <4>1, <4>2, <4>3 DEF Exists
    <3> QED BY <3>6, <3>7, <3>8
  <2>3. GenreRows'
    BY <2>1, <2>2 DEF GenreRows
  <2>4. \A n \in Names : Exists(n) => Exists(n)'
    BY <2>2 DEF Exists
  <2>5. RoleIsAudited'
    BY <2>2 DEF RoleIsAudited, Exists
  <2> QED BY <1>4, <2>3, <2>4, <2>5, CommitStep
<1> QED BY <1>5, <1>6

-----------------------------------------------------------------------------
(* Theorems *)

\* Any step keeps the invariant.
LEMMA GenresInvNext ==
  ASSUME GenresInv, [GenresNext]_genreVars
  PROVE  GenresInv'
<1>1. CASE UNCHANGED genreVars
  BY <1>1 DEF genreVars, GenresInv, GenreRows, GenreCalls, ReadRowsExist, RowsStay, RoleIsAudited, Exists
<1>2. ASSUME NEW c \in Callers, NEW n \in Names,
             PromoteGenre(c, n) \/ DemoteGenre(c, n) \/ DisableGenre(c, n)
      PROVE  GenresInv'
  BY <1>2, ReadsStep
<1>3. ASSUME NEW c \in Callers, NEW n \in Names, NEW role \in Roles, NEW on \in BOOLEAN,
             CreateGenre(c, n, role, on)
      PROVE  GenresInv'
  <2> DEFINE next == [op |-> "create", name |-> n, row |-> [role |-> role, enabled |-> on]]
  <2>1. next \in NewCalls
    BY DEF NewCalls, Columns
  <2>2. call' = [call EXCEPT ![c] = next] /\ UNCHANGED <<genreRow, said>>
    BY <1>3 DEF CreateGenre
  <2> HIDE DEF next
  <2> QED BY <2>1, <2>2, ReadStep
<1>4. ASSUME NEW c \in Callers, NEW w \in WeekPlans, ReadWeek(c, w)
      PROVE  GenresInv'
  <2> DEFINE next == [op |-> "rotate", week |-> w, old |-> genreRow]
  <2>1. next \in WeekCalls /\ next.old = genreRow
    BY DEF WeekCalls, GenresInv, GenreRows
  <2>2. call' = [call EXCEPT ![c] = next] /\ UNCHANGED <<genreRow, said>>
    BY <1>4 DEF ReadWeek
  <2> HIDE DEF next
  <2> QED BY <2>1, <2>2, ReadStep
<1>5. ASSUME NEW c \in Callers, Abandon(c)
      PROVE  GenresInv'
  BY <1>5, ReadStep DEF Abandon, Answered
<1> QED BY <1>1, <1>2, <1>3, <1>4, <1>5, SaveStep, SaveNewStep, SaveWeekStep DEF GenresNext

\* The inductive invariant: rows and pending requests are well-formed, a row
\* that was read is never taken away, and role and record agree.
THEOREM GenresInductive == GenresSpec => []GenresInv
<1>1. GenresInv /\ [GenresNext]_genreVars => GenresInv'
  BY GenresInvNext
<1> QED BY <1>1, GenresInvInit, PTL DEF GenresSpec

\* However promotions, demotions, suspensions, insertions and rotations
\* interleave on stale reads, a genre has the role that the last audit record on
\* it states (api/genres.py, domain/genres/rotation.py).
THEOREM RoleAudited == GenresSpec => []RoleIsAudited
<1>1. GenresInv => RoleIsAudited
  BY DEF GenresInv
<1> QED BY <1>1, GenresInductive, PTL

-----------------------------------------------------------------------------
(* The rotation says what it does *)

\* Writing the difference of two rows over the first gives the second.
LEMMA WrittenChanged ==
  ASSUME NEW old \in Columns, NEW new \in Columns
  PROVE  Written(old, Changed(old, new)) = new
<1> DEFINE role == IF new.role = old.role THEN Keep ELSE new.role
           on == IF new.enabled = old.enabled THEN Keep ELSE new.enabled
<1>1. new = [role |-> new.role, enabled |-> new.enabled]
  BY DEF Columns
<1>2. new.role \in Roles /\ new.enabled \in BOOLEAN
  BY DEF Columns
<1>3. Changed(old, new) = [role |-> role, enabled |-> on]
  BY DEF Changed
<1>4. (IF role = Keep THEN old.role ELSE role) = new.role
  BY <1>2, GenreAssumption, Zenon
<1>5. (IF on = Keep THEN old.enabled ELSE on) = new.enabled
  BY <1>2, GenreAssumption, Zenon
<1> HIDE DEF role, on
<1>6. Written(old, Changed(old, new)) =
        [role |-> IF role = Keep THEN old.role ELSE role,
         enabled |-> IF on = Keep THEN old.enabled ELSE on]
  BY <1>3 DEF Written
<1> QED BY <1>1, <1>4, <1>5, <1>6

\* What the rotation leaves of one genre.
LEMMA RotatedRow ==
  ASSUME NEW w, NEW old \in [Names -> Cells], NEW n \in Names
  PROVE  LET new == Rotated(w, old)[n]
         IN /\ n \in TurnOn(w) => ~ IsOff(new)
            /\ n \in TurnOff(w) => IsOff(new)
            /\ n \notin TurnOn(w) \cup TurnOff(w) => new = old[n]
            /\ n \in TurnOff(w) /\ IsOff(old[n]) => IsOff(new)
            /\ n \in w.trial => IsRole(new, "experiment")
            /\ n \in w.share => new # NoGenreRow
<1> DEFINE new == Rotated(w, old)[n]
<1>1. Placeholder.role = "experiment" /\ Placeholder.enabled /\ Placeholder # NoGenreRow
  <2>1. Placeholder \in Columns
    BY DEF Placeholder, Columns, Roles, Ladder
  <2> QED BY <2>1, ColumnsNotNone DEF Placeholder
<1>2. old[n] # NoGenreRow =>
        /\ [old[n] EXCEPT !.enabled = TRUE].enabled
        /\ ~ [old[n] EXCEPT !.enabled = FALSE].enabled
        /\ [old[n] EXCEPT !.enabled = TRUE] # NoGenreRow
        /\ [old[n] EXCEPT !.enabled = FALSE] # NoGenreRow
  BY ColumnsNotNone DEF Cells, Columns
<1>3. new = CASE n \in w.trial \/ (n \in w.share /\ old[n] = NoGenreRow) -> Placeholder
              [] n \in w.share \ w.trial /\ old[n] # NoGenreRow -> [old[n] EXCEPT !.enabled = TRUE]
              [] n \in TurnOff(w) /\ old[n] # NoGenreRow -> [old[n] EXCEPT !.enabled = FALSE]
              [] OTHER -> old[n]
  BY DEF Rotated
<1>4. n \in TurnOff(w) => n \notin w.share /\ n \notin w.trial
  BY DEF TurnOff, TurnOn
<1>5. n \in TurnOn(w) <=> n \in w.share \/ n \in w.trial
  BY DEF TurnOn
<1> HIDE DEF new
<1>6. CASE n \in w.trial \/ (n \in w.share /\ old[n] = NoGenreRow)
  <2>1. new = Placeholder
    BY <1>3, <1>4, <1>6
  <2> QED BY <1>1, <1>4, <1>5, <1>6, <2>1, Zenon DEF IsOff, IsRole, new
<1>7. CASE n \in w.share /\ n \notin w.trial /\ old[n] # NoGenreRow
  <2>1. new = [old[n] EXCEPT !.enabled = TRUE]
    BY <1>3, <1>4, <1>7
  <2> QED BY <1>2, <1>4, <1>5, <1>7, <2>1, Zenon DEF IsOff, IsRole, new
<1>8. CASE n \notin w.share /\ n \notin w.trial /\ n \in TurnOff(w)
  <2>1. new = IF old[n] # NoGenreRow THEN [old[n] EXCEPT !.enabled = FALSE] ELSE old[n]
    BY <1>3, <1>8
  <2> QED BY <1>2, <1>4, <1>5, <1>8, <2>1, Zenon DEF IsOff, IsRole, new
<1>9. CASE n \notin w.share /\ n \notin w.trial /\ n \notin TurnOff(w)
  <2>1. new = old[n]
    BY <1>3, <1>9
  <2> QED BY <1>5, <1>9, <2>1, Zenon DEF new
<1> QED BY <1>6, <1>7, <1>8, <1>9

\* The answer is the difference, and there is none to the rows that result.
LEMMA AnswerIsDifference ==
  ASSUME NEW w \in WeekPlans, NEW old \in [Names -> Cells], NEW new \in [Names -> Cells],
         \A n \in Names : new[n] = Rotated(w, old)[n]
  PROVE  /\ Answer(w, old).on = {n \in Names : IsOff(old[n]) /\ ~ IsOff(new[n])}
         /\ Answer(w, old).off = {n \in Names : ~ IsOff(old[n]) /\ IsOff(new[n])}
         /\ Answer(w, old).moved = {n \in Names : /\ new[n] # old[n]
                                                  /\ IsRole(new[n], "experiment")
                                                  /\ ~ IsRole(old[n], "experiment")}
         /\ Answer(w, new) = NoAnswer
<1>1. w.share \subseteq Names /\ w.trial \subseteq Names /\ w.avoid \subseteq Names
  BY GenreAssumption
<1>2. TurnOn(w) \subseteq Names /\ TurnOff(w) \subseteq Names
  BY <1>1 DEF TurnOn, TurnOff
<1>3. ASSUME NEW n \in Names
      PROVE  /\ n \in TurnOn(w) => ~ IsOff(new[n])
             /\ n \in TurnOff(w) => IsOff(new[n])
             /\ n \notin TurnOn(w) /\ n \notin TurnOff(w) => new[n] = old[n]
             /\ n \in w.trial => IsRole(new[n], "experiment")
             /\ n \in w.share => new[n] # NoGenreRow
  BY RotatedRow
<1>4. Answer(w, old).on = {n \in Names : IsOff(old[n]) /\ ~ IsOff(new[n])}
  <2>1. Answer(w, old).on = {n \in TurnOn(w) : IsOff(old[n])}
    BY DEF Answer
  <2>2. \A n : n \in {m \in TurnOn(w) : IsOff(old[m])} <=>
               n \in {m \in Names : IsOff(old[m]) /\ ~ IsOff(new[m])}
    BY <1>2, <1>3, Zenon
  <2> QED BY <2>1, <2>2
<1>5. Answer(w, old).off = {n \in Names : ~ IsOff(old[n]) /\ IsOff(new[n])}
  <2>1. Answer(w, old).off = {n \in TurnOff(w) : ~ IsOff(old[n])}
    BY DEF Answer
  <2>2. \A n : n \in {m \in TurnOff(w) : ~ IsOff(old[m])} <=>
               n \in {m \in Names : ~ IsOff(old[m]) /\ IsOff(new[m])}
    BY <1>2, <1>3, Zenon
  <2> QED BY <2>1, <2>2
<1>6. Answer(w, old).moved = {n \in Names : /\ new[n] # old[n]
                                            /\ IsRole(new[n], "experiment")
                                            /\ ~ IsRole(old[n], "experiment")}
  <2> DEFINE moved == Answer(w, old).moved
  <2>1. moved \subseteq Names
    BY <1>1 DEF Answer
  <2>2. ASSUME NEW n \in Names
        PROVE  n \in moved <=> /\ new[n] # old[n]
                               /\ IsRole(new[n], "experiment")
                               /\ ~ IsRole(old[n], "experiment")
    <3>1. /\ n \in moved /\ old[n] # NoGenreRow =>
               new[n].role = "experiment" /\ old[n].role # "experiment"
          /\ old[n] = NoGenreRow /\ new[n] # NoGenreRow =>
               n \in moved /\ new[n].role = "experiment"
          /\ n \in moved /\ old[n] = NoGenreRow => new[n] # NoGenreRow
          /\ n \notin moved /\ old[n] # NoGenreRow => new[n].role = old[n].role
      BY RotatedRole
    <3>2. old[n] # NoGenreRow => new[n] # NoGenreRow
      BY RotatedType, ColumnsNotNone
    <3> HIDE DEF moved
    <3> QED BY <3>1, <3>2 DEF IsRole
  <2> HIDE DEF moved
  <2>3. moved = {n \in Names : /\ new[n] # old[n]
                               /\ IsRole(new[n], "experiment")
                               /\ ~ IsRole(old[n], "experiment")}
    BY <2>1, <2>2
  <2> QED BY <2>3 DEF moved
<1>7. Answer(w, new) = NoAnswer
  <2>1. {n \in TurnOn(w) : IsOff(new[n])} = {}
    BY <1>2, <1>3
  <2>2. {n \in TurnOff(w) : ~ IsOff(new[n])} = {}
    BY <1>2, <1>3
  <2>3. {n \in w.trial : ~ IsRole(new[n], "experiment")} = {}
    BY <1>1, <1>3
  <2>4. {n \in w.share : new[n] = NoGenreRow} = {}
    BY <1>1, <1>3
  <2> QED BY <2>1, <2>2, <2>3, <2>4 DEF Answer, NoAnswer
<1> QED BY <1>4, <1>5, <1>6, <1>7

\* A rotation that nobody came in between writes the rows it has computed.
LEMMA WeekIsWritten ==
  ASSUME GenresInv, NEW c \in Callers, SaveWeek(c), told' # NoAnswer, call[c].old = genreRow
  PROVE  \A n \in Names : genreRow'[n] = Rotated(call[c].week, genreRow)[n]
<1> DEFINE w == call[c].week
           new == Rotated(w, genreRow)
           made == {n \in Names : genreRow[n] = NoGenreRow /\ new[n] # NoGenreRow}
<1>1. genreRow' = [n \in Names |->
             CASE n \in made -> new[n]
               [] genreRow[n] # NoGenreRow -> Written(genreRow[n], Changed(genreRow[n], new[n]))
               [] OTHER -> genreRow[n]]
  BY DEF SaveWeek
<1> SUFFICES ASSUME NEW n \in Names PROVE genreRow'[n] = new[n]
  OBVIOUS
<1>2. genreRow \in [Names -> Cells]
  BY DEF GenresInv, GenreRows
<1>3. genreRow[n] # NoGenreRow => genreRow[n] \in Columns /\ new[n] \in Columns
  BY <1>2, RotatedType DEF Cells
<1>4. genreRow[n] # NoGenreRow => Written(genreRow[n], Changed(genreRow[n], new[n])) = new[n]
  BY <1>3, WrittenChanged
<1> HIDE DEF new
<1>5. CASE n \in made
  BY <1>1, <1>5
<1>6. CASE n \notin made
  BY <1>1, <1>4, <1>6
<1> QED BY <1>5, <1>6

\* A request that ends with an answer is a rotation that commits.
LEMMA RotationStep ==
  ASSUME GenresInv, [GenresNext]_genreVars, told' # NoAnswer,
         NEW c \in Callers, call[c].op = "rotate", call'[c] = NoCall
  PROVE  SaveWeek(c) /\ told' = Answer(call[c].week, call[c].old)
<1>1. ASSUME NEW d \in Callers, NEW next, call' = [call EXCEPT ![d] = next]
      PROVE  d = c
  <2>1. call'[c] # call[c]
    BY DEF NoCall
  <2> QED BY <1>1, <2>1 DEF GenresInv, GenreCalls
<1>2. PICK d \in Callers : SaveWeek(d)
  <2>1. ~ UNCHANGED genreVars
    BY DEF genreVars, NoCall
  <2>2. ASSUME NEW d \in Callers,
               \/ \E n \in Names : \/ PromoteGenre(d, n)
                                   \/ DemoteGenre(d, n)
                                   \/ DisableGenre(d, n)
                                   \/ \E role \in Roles, on \in BOOLEAN : CreateGenre(d, n, role, on)
               \/ \E w \in WeekPlans : ReadWeek(d, w)
               \/ Save(d) \/ SaveNew(d) \/ Abandon(d)
        PROVE  told' = NoAnswer
    BY <2>2 DEF PromoteGenre, DemoteGenre, DisableGenre, CreateGenre, Read, ReadWeek,
                Save, SaveNew, Abandon
  <2> QED BY <2>1, <2>2 DEF GenresNext
<1>3. d = c
  BY <1>1, <1>2 DEF SaveWeek, Answered
<1>4. told' = Answer(call[c].week, call[c].old)
  BY <1>2, <1>3 DEF SaveWeek
<1> QED BY <1>2, <1>3, <1>4

\* A weekly rotation that ran alone reports exactly the genres it has enabled,
\* disabled and moved to the experiments, and running it again for the same plan
\* would find nothing left to do (domain/genres/rotation.py).
THEOREM RotationAnswers == GenresSpec => RotationAddsUp
<1>1. ASSUME GenresInv, [GenresNext]_genreVars, told' # NoAnswer,
             NEW c \in Callers, call[c].op = "rotate", call'[c] = NoCall,
             call[c].old = genreRow, GenresInv'
      PROVE  /\ told'.on = {n \in Names : IsOff(genreRow[n]) /\ ~ IsOff(genreRow'[n])}
             /\ told'.off = {n \in Names : ~ IsOff(genreRow[n]) /\ IsOff(genreRow'[n])}
             /\ told'.moved = {n \in Names : /\ genreRow'[n] # genreRow[n]
                                             /\ IsRole(genreRow'[n], "experiment")
                                             /\ ~ IsRole(genreRow[n], "experiment")}
             /\ Answer(call[c].week, genreRow') = NoAnswer
  <2>1. SaveWeek(c) /\ told' = Answer(call[c].week, genreRow)
    BY <1>1, RotationStep
  <2>2. call[c].week \in WeekPlans
    BY <1>1 DEF GenresInv, GenreCalls, NoCall, RowCalls, NewCalls, WeekCalls
  <2>3. genreRow \in [Names -> Cells] /\ genreRow' \in [Names -> Cells]
    BY <1>1 DEF GenresInv, GenreRows
  <2>4. \A n \in Names : genreRow'[n] = Rotated(call[c].week, genreRow)[n]
    BY <1>1, <2>1, WeekIsWritten
  <2> QED BY <2>1, <2>2, <2>3, <2>4, AnswerIsDifference
<1>2. GenresInv /\ GenresInv' /\ [GenresNext]_genreVars =>
        [told' # NoAnswer =>
           \A c \in Callers : call[c].op = "rotate" /\ call'[c] = NoCall /\ call[c].old = genreRow =>
             /\ told'.on = {n \in Names : IsOff(genreRow[n]) /\ ~ IsOff(genreRow'[n])}
             /\ told'.off = {n \in Names : ~ IsOff(genreRow[n]) /\ IsOff(genreRow'[n])}
             /\ told'.moved = {n \in Names : /\ genreRow'[n] # genreRow[n]
                                             /\ IsRole(genreRow'[n], "experiment")
                                             /\ ~ IsRole(genreRow[n], "experiment")}
             /\ Answer(call[c].week, genreRow') = NoAnswer]_genreVars
  BY <1>1
<1> QED BY <1>2, GenresInductive, PTL DEF GenresSpec, RotationAddsUp

-----------------------------------------------------------------------------
(* Budget: alerts rise, and the report has what each of them announced. *)

\* What an alert says.
Notice == [month : Nat, threshold : Nat]

\* Month and threshold a come before month and threshold b.
Precedes(a, b) ==
  \/ a.month < b.month
  \/ a.month = b.month /\ a.threshold < b.threshold

\* How far a check of the budget may be.
Checks ==
  {NoCheck} \cup [at : {"sum", "notify"}, month : Nat, threshold : Nat]

\* What the state of the alerts holds.
AlertTypes ==
  /\ clock \in Nat
  /\ state \in Notice
  /\ check \in Checks
  /\ alerts \in Seq(Notice)

\* What is announced was recorded before.
AlertRecorded ==
  \A i \in DOMAIN alerts : Precedes(alerts[i], state) \/ alerts[i] = state

\* A check that waits knows the latest month; one that is about to announce has
\* recorded what nobody has announced.
CheckInv ==
  /\ state.month <= clock
  /\ check.at = "sum" => state.month <= check.month /\ check.month <= clock
  /\ check.at = "notify" =>
       /\ check.month = state.month /\ check.threshold = state.threshold
       /\ \A i \in DOMAIN alerts : Precedes(alerts[i], state)

\* The inductive invariant of the order of the alerts.
AlertInv == AlertTypes /\ AlertRecorded /\ CheckInv /\ AlertsRise

-----------------------------------------------------------------------------
\* The highest threshold crossed is a number.
LEMMA MaxCrossed ==
  ASSUME NEW pct, Crossed(pct) # {}
  PROVE  Max(Crossed(pct)) \in Crossed(pct) /\ Max(Crossed(pct)) \in Nat
<1>1. Crossed(pct) \subseteq {50, 80, 100}
  BY DEF Crossed, Thresholds
<1>2. \E m \in Crossed(pct) : \A x \in Crossed(pct) : x <= m
  <2>1. CASE 100 \in Crossed(pct)
    BY <1>1, <2>1
  <2>2. CASE 100 \notin Crossed(pct) /\ 80 \in Crossed(pct)
    BY <1>1, <2>2
  <2>3. CASE 100 \notin Crossed(pct) /\ 80 \notin Crossed(pct)
    BY <1>1, <2>3
  <2> QED BY <2>1, <2>2, <2>3
<1>3. Max(Crossed(pct)) \in Crossed(pct)
  BY <1>1, <1>2 DEF Max
<1> QED BY <1>1, <1>3

\* Nothing is announced at first.
LEMMA AlertInvInit == BudgetInit => AlertInv
BY BudgetAssumption
   DEF BudgetInit, AlertInv, AlertTypes, Notice, Checks, AlertRecorded, CheckInv, AlertsRise, NoCheck

\* A step that leaves record and announcements alone and does not begin, or only
\* ends, a check.
LEMMA Elsewhere ==
  ASSUME AlertInv, UNCHANGED <<state, alerts>>, check' = check \/ check' = NoCheck,
         clock' \in Nat, clock <= clock'
  PROVE  AlertInv'
<1>1. AlertTypes' /\ AlertRecorded' /\ AlertsRise'
  BY DEF AlertInv, AlertTypes, Checks, AlertRecorded, AlertsRise
<1>2. check \in Checks /\ state.month \in Nat
  BY DEF AlertInv, AlertTypes, Notice
<1>3. check.at = "sum" => check.month \in Nat
  BY <1>2 DEF Checks, NoCheck
<1>4. CheckInv'
  <2>1. CASE check' = check
    BY <1>2, <1>3, <2>1 DEF AlertInv, AlertTypes, CheckInv
  <2>2. CASE check' = NoCheck
    BY <1>2, <2>2 DEF AlertInv, AlertTypes, CheckInv, NoCheck
  <2> QED BY <2>1, <2>2
<1> QED BY <1>1, <1>4 DEF AlertInv

\* Reading the sum announces nothing.
LEMMA ReadSumStep ==
  ASSUME AlertInv, ReadSum
  PROVE  AlertInv'
<1>1. PICK t \in Nat : check' = [at |-> "sum", month |-> clock, threshold |-> t]
  BY MaxCrossed DEF ReadSum
<1>2. UNCHANGED <<clock, state, alerts>>
  BY DEF ReadSum
<1>3. AlertTypes' /\ AlertRecorded' /\ AlertsRise'
  BY <1>1, <1>2 DEF AlertInv, AlertTypes, Checks, AlertRecorded, AlertsRise
<1>4. CheckInv'
  BY <1>1, <1>2 DEF AlertInv, AlertTypes, CheckInv
<1> QED BY <1>3, <1>4 DEF AlertInv

\* What is recorded comes after all that was announced.
LEMMA RecordStep ==
  ASSUME AlertInv, RecordAlert
  PROVE  AlertInv'
<1>1. /\ check.at = "sum" /\ check.month \in Nat /\ check.threshold \in Nat
      /\ check.threshold > LastThreshold(check.month)
  BY DEF RecordAlert, AlertInv, AlertTypes, Checks, NoCheck
<1>2. /\ state' = [month |-> check.month, threshold |-> check.threshold]
      /\ UNCHANGED <<clock, alerts>>
      /\ check' = [at |-> "notify", month |-> check.month, threshold |-> check.threshold]
  <2>1. check \in [at : {"sum", "notify"}, month : Nat, threshold : Nat]
    BY <1>1 DEF AlertInv, AlertTypes, Checks, NoCheck
  <2> QED BY <2>1 DEF RecordAlert
<1>3. AlertTypes'
  BY <1>1, <1>2 DEF AlertInv, AlertTypes, Checks, Notice
<1>4. state.month \in Nat /\ state.threshold \in Nat /\ state.month <= check.month
  BY <1>1 DEF AlertInv, AlertTypes, Notice, CheckInv
<1>5. ASSUME NEW i \in DOMAIN alerts
      PROVE  Precedes(alerts[i], state')
  <2>1. alerts[i].month \in Nat /\ alerts[i].threshold \in Nat
    <3>1. alerts \in Seq(Notice)
      BY DEF AlertInv, AlertTypes
    <3>2. alerts[i] \in Notice
      BY <3>1
    <3> QED BY <3>2 DEF Notice
  <2>2. Precedes(alerts[i], state) \/ alerts[i] = state
    BY DEF AlertInv, AlertRecorded
  <2>3. CASE state.month = check.month
    BY <1>1, <1>2, <1>4, <2>1, <2>2, <2>3 DEF Precedes, LastThreshold
  <2>4. CASE state.month < check.month
    BY <1>1, <1>2, <1>4, <2>1, <2>2, <2>4 DEF Precedes
  <2> QED BY <1>1, <1>4, <2>3, <2>4
<1>6. AlertRecorded' /\ AlertsRise'
  BY <1>2, <1>5 DEF AlertInv, AlertRecorded, AlertsRise, Precedes
<1>7. CheckInv'
  BY <1>1, <1>2, <1>5 DEF AlertInv, CheckInv, Precedes
<1> QED BY <1>3, <1>6, <1>7 DEF AlertInv

\* What is announced is what was recorded last.
LEMMA SendStep ==
  ASSUME AlertInv, SendAlert
  PROVE  AlertInv'
<1> DEFINE notice == [month |-> check.month, threshold |-> check.threshold]
<1>1. check.at = "notify" /\ check.month \in Nat /\ check.threshold \in Nat
  BY DEF SendAlert, AlertInv, AlertTypes, Checks, NoCheck
<1>2. notice \in Notice /\ notice = state
  BY <1>1 DEF Notice, AlertInv, AlertTypes, CheckInv
<1>3. alerts' = Append(alerts, notice) /\ check' = NoCheck /\ UNCHANGED <<clock, state>>
  BY DEF SendAlert
<1>4. alerts \in Seq(Notice)
  BY DEF AlertInv, AlertTypes
<1> HIDE DEF notice
<1>5. /\ alerts' \in Seq(Notice)
      /\ DOMAIN alerts' = 1 .. Len(alerts) + 1
      /\ alerts'[Len(alerts) + 1] = notice
      /\ \A i \in DOMAIN alerts : alerts'[i] = alerts[i]
      /\ Len(alerts) \in Nat /\ DOMAIN alerts = 1 .. Len(alerts)
  BY <1>2, <1>3, <1>4
<1>6. AlertTypes'
  BY <1>3, <1>5 DEF AlertInv, AlertTypes, Checks
<1>7. \A i \in DOMAIN alerts : Precedes(alerts[i], state)
  BY <1>1 DEF AlertInv, CheckInv
<1>8. AlertRecorded'
  BY <1>2, <1>3, <1>5, <1>7 DEF AlertRecorded
<1>9. AlertsRise'
  <2> SUFFICES ASSUME NEW i \in 1 .. Len(alerts) + 1, NEW j \in 1 .. Len(alerts) + 1, i < j
               PROVE  Precedes(alerts'[i], alerts'[j])
    BY <1>5 DEF AlertsRise, Precedes
  <2>1. CASE j = Len(alerts) + 1
    BY <1>2, <1>5, <1>7, <2>1
  <2>2. CASE j # Len(alerts) + 1
    BY <1>5, <2>2 DEF AlertInv, AlertsRise, Precedes
  <2> QED BY <2>1, <2>2
<1>10. CheckInv'
  BY <1>3 DEF AlertInv, CheckInv, NoCheck
<1> QED BY <1>6, <1>8, <1>9, <1>10 DEF AlertInv

\* Any step keeps the invariant.
LEMMA AlertInvNext ==
  ASSUME AlertInv, [BudgetNext]_budgetVars
  PROVE  AlertInv'
<1>1. clock \in Nat
  BY DEF AlertInv, AlertTypes
<1>2. ASSUME NEW w \in Writers, BeginUsage(w) \/ \E t \in CallTokens : WriteUsage(w, t)
      PROVE  AlertInv'
  <2>1. UNCHANGED <<clock, state, check, alerts>>
    <3>1. CASE BeginUsage(w)
      BY <3>1 DEF BeginUsage
    <3>2. CASE \E t \in CallTokens : WriteUsage(w, t)
      BY <3>2 DEF WriteUsage
    <3> QED BY <1>2, <3>1, <3>2
  <2> QED BY <1>1, <2>1, Elsewhere
<1>3. CASE NextMonth
  BY <1>1, <1>3, Elsewhere DEF NextMonth
<1>4. CASE Known \/ LoseCheck
  BY <1>1, <1>4, Elsewhere DEF Known, LoseCheck
<1>5. CASE UNCHANGED budgetVars
  BY <1>1, <1>5, Elsewhere DEF budgetVars
<1> QED BY <1>2, <1>3, <1>4, <1>5, ReadSumStep, RecordStep, SendStep DEF BudgetNext

\* The inductive invariant: what is announced was recorded, and what is recorded
\* and not yet announced comes after everything that was.
THEOREM AlertInductive == BudgetSpec => []AlertInv
<1>1. AlertInv /\ [BudgetNext]_budgetVars => AlertInv'
  BY AlertInvNext
<1> QED BY <1>1, AlertInvInit, PTL DEF BudgetSpec

\* The alerts of a month rise and never go back to an earlier month, however late
\* a check ends and whatever is lost between its commit and its notification
\* (domain/budget/alert.py).
THEOREM AlertsOrdered == BudgetSpec => []AlertsRise
<1>1. AlertInv => AlertsRise
  BY DEF AlertInv
<1> QED BY <1>1, AlertInductive, PTL

\* Rows of usage_log, and their costs as the terms of a sum.
UsageRows == [month : Nat, cost : Nat]
Costs(rows, I) == [i \in I |-> rows[i].cost]

\* There are finitely many of them, each a number.
LEMMA CostsFinite ==
  ASSUME NEW rows \in Seq(UsageRows), NEW I \in SUBSET DOMAIN rows
  PROVE  Costs(rows, I) \in [I -> Nat] /\ IsFiniteSet(I)
<1>1. \A i \in I : rows[i] \in UsageRows
  OBVIOUS
<1>2. \A i \in I : rows[i].cost \in Nat
  BY <1>1 DEF UsageRows
<1>3. DOMAIN rows = 1 .. Len(rows) /\ 1 \in Int /\ Len(rows) \in Int
  OBVIOUS
<1>4. IsFiniteSet(DOMAIN rows)
  BY <1>3, FS_Interval
<1>5. IsFiniteSet(I)
  BY <1>4, FS_Subset
<1> QED BY <1>2, <1>5 DEF Costs

\* The sum of the model is the sum of these terms.
LEMMA TermsSummed ==
  ASSUME NEW rows \in Seq(UsageRows), NEW I \in SUBSET DOMAIN rows
  PROVE  \E g \in [SUBSET I -> Nat] :
           Sums(g, Costs(rows, I), I) /\ MapThenSumSet(LAMBDA i : rows[i].cost, I) = g[I]
<1> DEFINE f == Costs(rows, I)
           h == CHOOSE k : k = [s \in SUBSET I |-> IF s = {} THEN 0
                  ELSE rows[CHOOSE x \in s : TRUE].cost + k[s \ {CHOOSE x \in s : TRUE}]]
<1>1. MapThenSumSet(LAMBDA i : rows[i].cost, I) = h[I]
  BY Zenon DEF MapThenSumSet, MapThenFoldSet
<1> HIDE DEF f, h
<1>2. f \in [I -> Nat] /\ IsFiniteSet(I)
  BY CostsFinite DEF f
<1>3. PICK g \in [SUBSET I -> Nat] : Sums(g, f, I)
  BY <1>2, SumExists
<1>4. \A s \in SUBSET I : s # {} => f[Pick(s)] = rows[CHOOSE x \in s : TRUE].cost
  BY Picked DEF Pick, Costs, f
<1>5. g = [s \in SUBSET I |-> IF s = {} THEN 0
             ELSE rows[CHOOSE x \in s : TRUE].cost + g[s \ {CHOOSE x \in s : TRUE}]]
  <2>1. g = [s \in SUBSET I |-> IF s = {} THEN 0 ELSE f[Pick(s)] + g[s \ {Pick(s)}]]
    BY <1>3 DEF Sums
  <2> QED BY <1>4, <2>1 DEF Pick
<1>6. h = [s \in SUBSET I |-> IF s = {} THEN 0
             ELSE rows[CHOOSE x \in s : TRUE].cost + h[s \ {CHOOSE x \in s : TRUE}]]
  BY <1>5, Zenon DEF h
<1>7. Sums(h, f, I)
  <2>1. h = [s \in SUBSET I |-> IF s = {} THEN 0 ELSE f[Pick(s)] + h[s \ {Pick(s)}]]
    BY <1>4, <1>6 DEF Pick
  <2> QED BY <2>1 DEF Sums
<1>8. g = h
  BY <1>2, <1>3, <1>7, SumUnique
<1> QED BY <1>1, <1>3, <1>8 DEF f

\* A row that is added does not lower the sum of a month.
LEMMA TotalGrows ==
  ASSUME NEW rows \in Seq(UsageRows), NEW row \in UsageRows, NEW w
  PROVE  Total(rows, w) \in Nat /\ Total(rows, w) <= Total(Append(rows, row), w)
<1> DEFINE more == Append(rows, row)
           In(s) == {i \in DOMAIN s : Within(s[i].month, w)}
           last == Len(rows) + 1
<1>1. /\ more \in Seq(UsageRows) /\ DOMAIN more = DOMAIN rows \cup {last}
      /\ last \notin DOMAIN rows
      /\ \A i \in DOMAIN rows : more[i] = rows[i]
  OBVIOUS
<1> HIDE DEF more, last
<1>2. In(rows) \in SUBSET DOMAIN rows /\ In(more) \in SUBSET DOMAIN more
  OBVIOUS
<1>3. In(rows) = In(more) \ {last}
  BY <1>1
<1> HIDE DEF In
<1>4. PICK g \in [SUBSET In(rows) -> Nat] :
         Sums(g, Costs(rows, In(rows)), In(rows))
         /\ MapThenSumSet(LAMBDA i : rows[i].cost, In(rows)) = g[In(rows)]
  BY <1>2, TermsSummed
<1>5. PICK h \in [SUBSET In(more) -> Nat] :
         Sums(h, Costs(more, In(more)), In(more))
         /\ MapThenSumSet(LAMBDA i : more[i].cost, In(more)) = h[In(more)]
  BY <1>1, <1>2, TermsSummed
<1>6. Total(rows, w) = g[In(rows)] /\ Total(more, w) = h[In(more)]
  BY <1>4, <1>5, Zenon DEF Total, In
<1>7. /\ Costs(rows, In(rows)) \in [In(rows) -> Nat] /\ IsFiniteSet(In(rows))
      /\ Costs(more, In(more)) \in [In(more) -> Nat] /\ IsFiniteSet(In(more))
  BY <1>1, <1>2, CostsFinite
<1>8. g[In(rows)] = h[In(rows)]
  <2>1. In(rows) \in SUBSET (In(rows) \cap In(more))
    BY <1>3
  <2>2. \A i \in In(rows) : Costs(rows, In(rows))[i] = Costs(more, In(more))[i]
    BY <1>1, <1>2, <1>3 DEF Costs
  <2> DEFINE S == In(rows)
             R == In(more)
             f == Costs(rows, S)
             e == Costs(more, R)
  <2>3. /\ SumOf(g, f, S) /\ SumOf(h, e, R)
        /\ S \in SUBSET (S \cap R) /\ Agree(f, e, S)
    BY <1>4, <1>5, <1>7, <2>1, <2>2 DEF SumOf, Agree
  <2> HIDE DEF S, R, f, e
  <2>4. g[S] = h[S]
    BY <2>3, SumSame
  <2> QED BY <2>4 DEF S
<1>9. h[In(rows)] <= h[In(more)]
  <2>1. CASE last \in In(more)
    <3>1. SplitsOff(h, Costs(more, In(more)), In(more))
      BY <1>5, <1>7, SumRest
    <3>2. h[In(more)] = Costs(more, In(more))[last] + h[In(rows)]
      BY <1>3, <2>1, <3>1 DEF SplitsOff
    <3>3. Costs(more, In(more))[last] \in Nat /\ h[In(rows)] \in Nat
      BY <1>3, <1>5, <1>7, <2>1
    <3> QED BY <3>2, <3>3
  <2>2. CASE last \notin In(more)
    <3>1. In(rows) = In(more)
      BY <1>3, <2>2
    <3> QED BY <1>5, <3>1
  <2> QED BY <2>1, <2>2
<1>10. g[In(rows)] \in Nat
  OBVIOUS
<1> QED BY <1>6, <1>8, <1>9, <1>10 DEF more

-----------------------------------------------------------------------------
\* Both computations of the interval of a month come to the same.
LEMMA BoundsAreWindow ==
  ASSUME NEW m
  PROVE  MonthBounds(m) = MonthWindow(m)
<1>1. CASE Mon(m) = 12
  BY <1>1 DEF MonthBounds, MonthWindow, Start
<1>2. CASE Mon(m) # 12
  BY <1>2 DEF MonthBounds, MonthWindow, Start
<1> QED BY <1>1, <1>2

\* The price in effect is one of the prices.
LEMMA PriceFound ==
  ASSUME NEW month \in Nat, InEffect(month) # {}
  PROVE  PriceAt(month) \in Prices
<1> DEFINE T == {month - p.from : p \in InEffect(month)}
<1>1. \A p \in InEffect(month) : p \in Prices /\ p.from \in Nat /\ p.from <= month
  BY BudgetAssumption DEF InEffect
<1>2. T \in SUBSET Nat /\ T # {}
  BY <1>1
<1>3. PICK n \in T : \A x \in T : n <= x
  BY <1>2, Least
<1>4. PICK p \in InEffect(month) : n = month - p.from
  BY <1>3
<1>5. \A q \in InEffect(month) : q.from <= p.from
  <2>1. \A q \in InEffect(month) : month - q.from \in T
    OBVIOUS
  <2>2. \A q \in InEffect(month) : month - p.from <= month - q.from
    BY <1>3, <1>4, <2>1
  <2> QED BY <1>1, <2>2
<1>6. PriceAt(month) \in InEffect(month)
  BY <1>5 DEF PriceAt
<1> QED BY <1>1, <1>6

\* A call costs no less than nothing.
LEMMA CostIsNumber ==
  ASSUME NEW p \in Prices, NEW t \in CallTokens
  PROVE  Cost(p, t) \in Nat
<1> DEFINE cached == IF p.cached = NoPrice THEN p.input ELSE p.cached
           fresh == t.prompt - t.cached
           n == fresh * p.input + t.cached * cached + t.completion * p.output
<1>1. /\ p.input \in Nat /\ p.output \in Nat /\ cached \in Nat
      /\ t.cached \in Nat /\ fresh \in Nat /\ t.completion \in Nat
  BY BudgetAssumption
<1>2. Cost(p, t) = Rounded(n, 10000)
  BY DEF Cost
<1> HIDE DEF cached, fresh
<1>3. /\ fresh * p.input \in Nat /\ t.cached * cached \in Nat
      /\ t.completion * p.output \in Nat
  BY <1>1
<1>4. n \in Nat
  BY <1>3
<1> HIDE DEF n
<1>5. (2 * n + 10000) \div 20000 \in Nat
  BY <1>4
<1> QED BY <1>2, <1>5 DEF Rounded

-----------------------------------------------------------------------------
\* The share of the budget that the rows of a month come to.
Share(m) == (100 * Total(spent, MonthWindow(m))) \div Budget
\* The report of a month has what a threshold asks for.
Earned(m, threshold) == Budget > 0 /\ Share(m) >= threshold

\* What waits to be announced, and what was, is at most the share of its month.
SpentInv ==
  /\ spent \in Seq(UsageRows) /\ writing \in [Writers -> Nat]
  /\ check.at \in {"sum", "notify"} => Earned(check.month, check.threshold)
  /\ \A i \in DOMAIN alerts : Earned(alerts[i].month, alerts[i].threshold)

\* A threshold that was crossed is not left again.
LEMMA EarnedStays ==
  ASSUME spent \in Seq(UsageRows), NEW row \in UsageRows, spent' = Append(spent, row),
         NEW m, NEW threshold \in Nat, Earned(m, threshold)
  PROVE  Earned(m, threshold)'
<1> DEFINE a == Total(spent, MonthWindow(m))
           b == Total(Append(spent, row), MonthWindow(m))
<1>1. a \in Nat /\ a <= b
  BY TotalGrows
<1>2. b \in Nat
  <2>1. Append(spent, row) \in Seq(UsageRows)
    OBVIOUS
  <2> QED BY <2>1, TotalGrows
<1>3. Share(m) = (100 * a) \div Budget /\ Share(m)' = (100 * b) \div Budget
  BY DEF Share
<1> HIDE DEF a, b
<1>4. Budget \in Nat \ {0}
  BY BudgetAssumption DEF Earned
<1>5. 100 * a \in Nat /\ 100 * b \in Nat /\ 100 * a <= 100 * b
  BY <1>1, <1>2
<1>6. (100 * a) \div Budget <= (100 * b) \div Budget
  BY <1>4, <1>5, QuotientMonotone
<1>7. (100 * a) \div Budget \in Nat /\ (100 * b) \div Budget \in Nat
  BY <1>4, <1>5, QuotientBounds
<1> QED BY <1>3, <1>6, <1>7 DEF Earned

\* A step that writes no row and announces nothing takes nothing back.
LEMMA SpentSame ==
  ASSUME SpentInv, UNCHANGED <<spent, alerts>>, writing' \in [Writers -> Nat],
         check' = check \/ check' = NoCheck
  PROVE  SpentInv'
BY DEF SpentInv, Earned, Share, NoCheck

\* A row that is written raises the sum of its month and lowers none.
LEMMA WriteStep ==
  ASSUME AlertInv, SpentInv, NEW w \in Writers, NEW t \in CallTokens, WriteUsage(w, t)
  PROVE  SpentInv'
<1> DEFINE cost == IF InEffect(clock) = {} THEN 0 ELSE Cost(PriceAt(clock), t)
           row == [month |-> writing[w], cost |-> cost]
<1>1. cost \in Nat
  <2>1. clock \in Nat
    BY DEF AlertInv, AlertTypes
  <2> QED BY <2>1, PriceFound, CostIsNumber
<1>2. row \in UsageRows
  BY <1>1 DEF SpentInv, UsageRows
<1>3. spent' = Append(spent, row) /\ UNCHANGED <<check, alerts>>
  BY DEF WriteUsage
<1>4. writing' \in [Writers -> Nat]
  BY DEF WriteUsage, SpentInv
<1> HIDE DEF row
<1>5. spent \in Seq(UsageRows) /\ spent' \in Seq(UsageRows)
  BY <1>2, <1>3 DEF SpentInv
<1>6. check.at \in {"sum", "notify"} => Earned(check.month, check.threshold)'
  <2>1. check.at \in {"sum", "notify"} => check.threshold \in Nat
    BY DEF AlertInv, AlertTypes, Checks, NoCheck
  <2> QED BY <1>2, <1>3, <1>5, <2>1, EarnedStays DEF SpentInv
<1>7. ASSUME NEW i \in DOMAIN alerts
      PROVE  Earned(alerts[i].month, alerts[i].threshold)'
  <2>1. alerts \in Seq(Notice)
    BY DEF AlertInv, AlertTypes
  <2>2. alerts[i] \in Notice
    BY <2>1
  <2>3. alerts[i].threshold \in Nat
    BY <2>2 DEF Notice
  <2>4. Earned(alerts[i].month, alerts[i].threshold)
    BY DEF SpentInv
  <2>5. ASSUME NEW m, NEW threshold \in Nat, Earned(m, threshold)
        PROVE  Earned(m, threshold)'
    BY <1>2, <1>3, <1>5, <2>5, EarnedStays
  <2> QED BY <1>3, <2>3, <2>4, <2>5 DEF Earned, Share
<1> QED BY <1>3, <1>4, <1>5, <1>6, <1>7 DEF SpentInv, Earned, Share

\* A check takes a threshold that the sum has crossed.
LEMMA ReadSumEarned ==
  ASSUME AlertInv, SpentInv, ReadSum
  PROVE  SpentInv'
<1> DEFINE pct == (100 * Total(spent, MonthWindow(clock))) \div Budget
<1>1. /\ Budget > 0 /\ Crossed(pct) # {}
      /\ check' = [at |-> "sum", month |-> clock, threshold |-> Max(Crossed(pct))]
      /\ UNCHANGED <<clock, spent, writing, state, alerts>>
  BY DEF ReadSum
<1>2. pct = Share(clock)
  BY DEF Share
<1> HIDE DEF pct
<1>3. Max(Crossed(pct)) \in Crossed(pct)
  BY <1>1, MaxCrossed
<1>4. Earned(clock, Max(Crossed(pct)))
  BY <1>1, <1>2, <1>3 DEF Crossed, Earned
<1> QED BY <1>1, <1>4 DEF SpentInv, Earned, Share

\* Any step keeps what the alerts were announced for.
LEMMA SpentNext ==
  ASSUME AlertInv, SpentInv, [BudgetNext]_budgetVars
  PROVE  SpentInv'
<1>1. ASSUME NEW w \in Writers, BeginUsage(w)
      PROVE  SpentInv'
  <2>1. clock \in Nat /\ UNCHANGED <<spent, check, alerts>>
    BY <1>1 DEF BeginUsage, AlertInv, AlertTypes
  <2>2. writing' \in [Writers -> Nat]
    BY <1>1, <2>1 DEF BeginUsage, SpentInv
  <2> QED BY <2>1, <2>2, SpentSame
<1>2. CASE NextMonth \/ Known \/ LoseCheck \/ UNCHANGED budgetVars
  <2>1. UNCHANGED <<spent, alerts, writing>> /\ (check' = check \/ check' = NoCheck)
    BY <1>2 DEF NextMonth, Known, LoseCheck, budgetVars
  <2> QED BY <2>1, SpentSame DEF SpentInv
<1>3. CASE RecordAlert
  <2>1. check \in [at : {"sum", "notify"}, month : Nat, threshold : Nat]
    BY <1>3 DEF RecordAlert, AlertInv, AlertTypes, Checks, NoCheck
  <2>2. /\ check'.month = check.month /\ check'.threshold = check.threshold
        /\ check.at = "sum" /\ UNCHANGED <<spent, writing, alerts>>
    BY <1>3, <2>1 DEF RecordAlert
  <2> QED BY <2>2 DEF SpentInv, Earned, Share
<1>4. CASE SendAlert
  <2> DEFINE notice == [month |-> check.month, threshold |-> check.threshold]
  <2>1. /\ Earned(notice.month, notice.threshold)
        /\ alerts' = Append(alerts, notice) /\ check' = NoCheck
        /\ UNCHANGED <<spent, writing>>
    BY <1>4 DEF SendAlert, SpentInv
  <2>2. alerts \in Seq(Notice)
    BY DEF AlertInv, AlertTypes
  <2> HIDE DEF notice
  <2>3. \A i \in DOMAIN alerts' : alerts'[i] = notice \/ (i \in DOMAIN alerts /\ alerts'[i] = alerts[i])
    BY <2>1, <2>2
  <2>4. \A i \in DOMAIN alerts' : Earned(alerts'[i].month, alerts'[i].threshold)
    BY <2>1, <2>3 DEF SpentInv
  <2> QED BY <2>1, <2>4 DEF SpentInv, Earned, Share, NoCheck
<1> QED BY <1>1, <1>2, <1>3, <1>4, WriteStep, ReadSumEarned DEF BudgetNext

\* An alert is backed by the report of its month: whoever opens the settings page
\* on receiving it, or any time after, sees at least that share of the budget, with
\* rows that were stored late and with whatever prices (domain/budget/alert.py,
\* api/llm.py).
THEOREM AlertsBacked == BudgetSpec => []AlertMatchesReport
<1>1. BudgetInit => SpentInv
  BY BudgetAssumption DEF BudgetInit, SpentInv, NoCheck
<1>2. AlertInv /\ SpentInv /\ [BudgetNext]_budgetVars => SpentInv'
  BY SpentNext
<1>3. SpentInv => AlertMatchesReport
  BY BoundsAreWindow DEF SpentInv, AlertMatchesReport, Earned, Share, Report
<1> QED BY <1>1, <1>2, <1>3, AlertInductive, PTL DEF BudgetSpec

-----------------------------------------------------------------------------
(* Analytics: advice was measured. *)

\* The retention that a row holds, and the rows as terms of a sum.
Figure(r) == figures[r[1]][r[2]]
Figured(rows) == [r \in rows |-> Figure(r)]

\* What is stored of a video was reported of it while it could be seen.
AdviceInv ==
  /\ AnalyticsTypeOK
  /\ \A v \in visible : posted[v] # 0
  /\ \A v \in Clips : \A d \in Days : figures[v][d] \in Retentions => posted[v] # 0

\* The rows that a comparison is made of have figures, none of them zero.
LEMMA RowsMeasured ==
  ASSUME AdviceInv, NEW clips \in SUBSET Clips
  PROVE  /\ IsFiniteSet(InWindow(clips))
         /\ \A r \in InWindow(clips) : /\ r[1] \in clips /\ r[2] \in Days
                                       /\ Measured(r[1], r[2])
                                       /\ Figure(r) \in Nat \ {0}
<1>1. IsFiniteSet(clips)
  BY AnalyticsAssumption, FS_Subset
<1>2. IsFiniteSet(Days)
  <2>1. 1 \in Int /\ LastDay \in Int
    BY AnalyticsAssumption
  <2> QED BY <2>1, FS_Interval DEF Days
<1>3. IsFiniteSet(clips \X Days)
  BY <1>1, <1>2, FS_Product
<1>4. IsFiniteSet(InWindow(clips))
  <2>1. InWindow(clips) \in SUBSET (clips \X Days)
    BY DEF InWindow
  <2> QED BY <1>3, <2>1, FS_Subset
<1>5. ASSUME NEW r \in InWindow(clips)
      PROVE  /\ r[1] \in clips /\ r[2] \in Days
             /\ Measured(r[1], r[2]) /\ Figure(r) \in Nat \ {0}
  <2>1. /\ r[1] \in clips /\ r[2] \in Days /\ r[2] + Window >= day
        /\ figures[r[1]][r[2]] \notin {NoFigure, Unmeasured}
    BY DEF InWindow
  <2>2. figures[r[1]][r[2]] \in Retentions
    BY <2>1 DEF AdviceInv, AnalyticsTypeOK
  <2>3. r[2] \in Nat /\ day \in Nat /\ Window \in Nat
    BY <2>1, AnalyticsAssumption DEF AdviceInv, AnalyticsTypeOK, Days
  <2>4. posted[r[1]] # 0
    BY <2>1, <2>2 DEF AdviceInv
  <2>5. Measured(r[1], r[2])
    BY <2>1, <2>2, <2>3, <2>4 DEF Measured
  <2>6. figures[r[1]][r[2]] \in Nat \ {0}
    BY <2>2, AnalyticsAssumption
  <2> QED BY <2>1, <2>5, <2>6 DEF Figure
<1> QED BY <1>4, <1>5

\* The sum that the code takes of some rows is one.
LEMMA FiguresSummed ==
  ASSUME NEW R, IsFiniteSet(R), \A r \in R : Figure(r) \in Nat
  PROVE  \E g : SumOf(g, Figured(R), R) /\ RetentionSum(R) = g[R]
<1> DEFINE f == Figured(R)
           h == CHOOSE k : k = [s \in SUBSET R |-> IF s = {} THEN 0
                  ELSE Figure(CHOOSE x \in s : TRUE)
                         + k[s \ {CHOOSE x \in s : TRUE}]]
<1>1. RetentionSum(R) = h[R]
  BY Zenon DEF RetentionSum, MapThenSumSet, MapThenFoldSet, Figure
<1>2. f \in [R -> Nat]
  BY DEF Figured
<1> HIDE DEF f, h
<1>3. PICK g \in [SUBSET R -> Nat] : Sums(g, f, R)
  BY <1>2, SumExists
<1>4. \A s \in SUBSET R : s # {} => f[Pick(s)] = Figure(CHOOSE x \in s : TRUE)
  BY Picked DEF Pick, Figured, f
<1>5. g = [s \in SUBSET R |-> IF s = {} THEN 0
             ELSE Figure(CHOOSE x \in s : TRUE) + g[s \ {CHOOSE x \in s : TRUE}]]
  <2>1. g = [s \in SUBSET R |-> IF s = {} THEN 0 ELSE f[Pick(s)] + g[s \ {Pick(s)}]]
    BY <1>3 DEF Sums
  <2> QED BY <1>4, <2>1 DEF Pick
<1>6. h = [s \in SUBSET R |-> IF s = {} THEN 0
             ELSE Figure(CHOOSE x \in s : TRUE) + h[s \ {CHOOSE x \in s : TRUE}]]
  BY <1>5, Zenon DEF h
<1>7. Sums(h, f, R)
  <2>1. h = [s \in SUBSET R |-> IF s = {} THEN 0 ELSE f[Pick(s)] + h[s \ {Pick(s)}]]
    BY <1>4, <1>6 DEF Pick
  <2> QED BY <2>1 DEF Sums
<1>8. g = h
  BY <1>3, <1>7, SumUnique
<1>9. SumOf(g, f, R)
  BY <1>2, <1>3 DEF SumOf
<1> QED BY <1>1, <1>8, <1>9 DEF f

\* A sample has a sum and a size.
LEMMA SampleSums ==
  ASSUME NEW R, IsFiniteSet(R), R # {}, \A r \in R : Figure(r) \in Nat
  PROVE  RetentionSum(R) \in Nat /\ Cardinality(R) \in Nat \ {0}
<1>1. PICK g : SumOf(g, Figured(R), R) /\ RetentionSum(R) = g[R]
  BY FiguresSummed
<1>2. Cardinality(R) \in Nat /\ Cardinality(R) # 0
  BY FS_CardinalityType, FS_EmptySet
<1> QED BY <1>1, <1>2 DEF SumOf

\* The figures of a sample, and a comparison of each of R with each of S.
Sampled(R) == IsFiniteSet(R) /\ R # {} /\ \A r \in R : Figure(r) \in Nat
Outweighed(R, S, k, c, e) == \A r \in R : \A s \in S : k * Figure(r) + e <= c * Figure(s)

\* When k times each figure of R, and e, come to at most c times each of S, so they
\* do on the average: here multiplied by the sizes of both.
LEMMA Averages ==
  ASSUME NEW R, Sampled(R), NEW S, Sampled(S), NEW k \in Nat, NEW c \in Nat, NEW e \in Nat,
         Outweighed(R, S, k, c, e)
  PROVE  k * (RetentionSum(R) * Cardinality(S)) + e * (Cardinality(R) * Cardinality(S))
           <= c * (RetentionSum(S) * Cardinality(R))
<1>0. /\ IsFiniteSet(R) /\ R # {} /\ \A r \in R : Figure(r) \in Nat
      /\ IsFiniteSet(S) /\ S # {} /\ \A r \in S : Figure(r) \in Nat
      /\ \A r \in R : \A s \in S : k * Figure(r) + e <= c * Figure(s)
  BY DEF Sampled, Outweighed
<1>1. PICK b \in S : \A s \in S : Figure(b) <= Figure(s)
  <2> DEFINE T == {Figure(s) : s \in S}
  <2>1. T \in SUBSET Nat /\ T # {}
    BY <1>0
  <2>2. PICK n \in T : \A m \in T : n <= m
    BY <2>1, Least
  <2> QED BY <2>2
<1> DEFINE low == Figure(b)
           i == Cardinality(R)
           j == Cardinality(S)
           m == c * low - e
           x == RetentionSum(R)
           y == RetentionSum(S)
<1>2. i \in Nat \ {0} /\ j \in Nat \ {0} /\ low \in Nat
  BY <1>0, FS_CardinalityType, FS_EmptySet
<1>3. m \in Nat /\ m + e = c * low
  <2>1. PICK r \in R : TRUE
    BY <1>0
  <2>2. k * Figure(r) \in Nat /\ c * low \in Nat
    BY <1>0, <1>2
  <2>3. k * Figure(r) + e <= c * low
    BY <1>0
  <2> HIDE DEF low
  <2> QED BY <2>2, <2>3
<1>4. \A r \in R : k * Figure(r) <= m
  <2> SUFFICES ASSUME NEW r \in R PROVE k * Figure(r) <= m
    OBVIOUS
  <2>1. k * Figure(r) \in Nat /\ c * low \in Nat
    BY <1>0, <1>2
  <2>2. k * Figure(r) + e <= c * low
    BY <1>0
  <2> HIDE DEF low
  <2> QED BY <2>1, <2>2
<1>5. PICK g : SumOf(g, Figured(R), R) /\ x = g[R]
  BY <1>0, FiguresSummed
<1>6. PICK h : SumOf(h, Figured(S), S) /\ y = h[S]
  BY <1>0, FiguresSummed
<1>7. k * x <= m * i
  <2> DEFINE f == Figured(R)
  <2>1. \A r \in R : k * f[r] <= m
    BY <1>4 DEF Figured
  <2>2. IsFiniteSet(R) /\ f \in [R -> Nat] /\ g \in [SUBSET R -> Nat] /\ Sums(g, f, R)
    BY <1>5 DEF SumOf
  <2> HIDE DEF m, i, f, x
  <2>3. k * g[R] <= m * Cardinality(R)
    BY <1>3, <2>1, <2>2, SumBelow
  <2> QED BY <1>5, <2>3 DEF i
<1>8. low * j <= y
  <2> DEFINE f == Figured(S)
  <2>1. \A s \in S : low <= f[s]
    BY <1>1 DEF Figured
  <2>2. IsFiniteSet(S) /\ f \in [S -> Nat] /\ h \in [SUBSET S -> Nat] /\ Sums(h, f, S)
    BY <1>6 DEF SumOf
  <2> HIDE DEF low, j, f, y
  <2>3. low * Cardinality(S) <= h[S]
    BY <1>2, <2>1, <2>2, SumAbove
  <2> QED BY <1>6, <2>3 DEF j
<1>9. x \in Nat /\ y \in Nat
  BY <1>5, <1>6 DEF SumOf
<1> SUFFICES k * (x * j) + e * (i * j) <= c * (y * i)
  OBVIOUS
<1> HIDE DEF low, i, j, m, x, y
<1> QED BY <1>2, <1>3, <1>7, <1>8, <1>9, CrossProducts

-----------------------------------------------------------------------------
\* What rounding the ratio to four places leaves of a comparison with 80 and with
\* 60 per cent.
LEMMA RatioBounds ==
  ASSUME NEW n \in Nat, NEW d \in Nat \ {0}
  PROVE  /\ (20000 * n + d) \div (2 * d) >= 8000 => 20000 * n >= 15999 * d
         /\ (20000 * n + d) \div (2 * d) < 6000 => 100 * n < 60 * d
<1> DEFINE a == 20000 * n + d
           e == 2 * d
           q == a \div e
<1>1. a \in Nat /\ e \in Nat \ {0}
  OBVIOUS
<1> HIDE DEF a, e
<1>2. q \in Nat /\ e * q <= a /\ a < e * q + e
  BY <1>1, QuotientBounds
<1> HIDE DEF q
<1>3. q >= 8000 => 8000 * e <= a
  <2> SUFFICES ASSUME q >= 8000 PROVE 8000 * e <= a
    OBVIOUS
  <2>1. e * 8000 <= e * q
    BY <1>1, <1>2, ProductGrows
  <2>2. e * 8000 = 8000 * e /\ e * q \in Nat
    BY <1>1, <1>2
  <2> QED BY <1>1, <1>2, <2>1, <2>2
<1>4. q < 6000 => a < 6000 * e
  <2> SUFFICES ASSUME q < 6000 PROVE a < 6000 * e
    OBVIOUS
  <2>1. e * (q + 1) <= e * 6000
    <3>1. q + 1 \in Nat /\ q + 1 <= 6000
      BY <1>2
    <3> QED BY <1>1, <3>1, ProductGrows
  <2>2. e * 6000 = 6000 * e /\ e * q \in Nat /\ e * (q + 1) = e * q + e
    BY <1>1, <1>2
  <2> QED BY <1>1, <1>2, <2>1, <2>2
<1>5. a = 20000 * n + d /\ 8000 * e = 16000 * d /\ 6000 * e = 12000 * d
  BY DEF a, e
<1>6. q >= 8000 => 20000 * n >= 15999 * d
  BY <1>3, <1>5
<1>7. q < 6000 => 100 * n < 60 * d
  BY <1>4, <1>5
<1> QED BY <1>6, <1>7 DEF q, a, e

\* The hard part: an average that passes a threshold has a day that does.  If no day
\* of the genre compared with any of the main videos, no average could.
LEMMA AdviceBacked ==
  ASSUME AdviceInv, NEW genre \in TrialGenres, Advised(genre) \in {"drop", "adopt"}
  PROVE  Backed(Advised(genre), genre)
<1> DEFINE clips == ClipsOf(genre)
           own == InWindow(clips)
           main == InWindow(MainClips)
           sample == {v \in clips : posted[v] # 0}
           is == Advised(genre)
<1>1. /\ Cardinality(sample) >= MinClips /\ Elapsed(genre) >= MinDays
      /\ own # {} /\ main # {} /\ RetentionSum(main) # 0
      /\ is = "adopt" => Ratio(own, main) >= 8000
      /\ is = "drop" => Ratio(own, main) < 6000
  BY DEF Advised
<1>2. clips \in SUBSET Clips /\ MainClips \in SUBSET Clips
  BY AnalyticsAssumption DEF ClipsOf
<1>3. /\ IsFiniteSet(own) /\ IsFiniteSet(main)
      /\ \A r \in own : /\ r[1] \in clips /\ r[2] \in Days /\ Measured(r[1], r[2])
                          /\ Figure(r) \in Nat \ {0}
      /\ \A r \in main : /\ r[1] \in MainClips /\ r[2] \in Days /\ Measured(r[1], r[2])
                           /\ Figure(r) \in Nat \ {0}
  BY <1>2, RowsMeasured
<1> HIDE DEF clips, own, main
<1>4. \E v \in clips : posted[v] # 0 /\ day - posted[v] >= MinDays
  <2> DEFINE posts == {posted[v] : v \in clips} \ {0}
  <2>1. posts # {}
    <3>1. PICK r \in own : TRUE
      BY <1>1
    <3>2. r[1] \in clips /\ posted[r[1]] # 0
      BY <1>3 DEF Measured
    <3> QED BY <3>2
  <2>2. posts \in SUBSET Nat
    BY <1>2, AnalyticsAssumption DEF AdviceInv, AnalyticsTypeOK
  <2>3. PICK n \in posts : \A m \in posts : n <= m
    BY <2>1, <2>2, Least
  <2>4. Min(posts) \in posts
    BY <2>3 DEF Min
  <2>5. Elapsed(genre) = day - Min(posts)
    BY <2>1 DEF Elapsed, clips
  <2>6. PICK v \in clips : Min(posts) = posted[v] /\ posted[v] # 0
    BY <2>4
  <2>7. day \in Nat /\ posted[v] \in Nat /\ MinDays \in Nat
    BY <2>2, <2>6, AnalyticsAssumption DEF AdviceInv, AnalyticsTypeOK, Days
  <2> QED BY <1>1, <2>5, <2>6, <2>7
<1> DEFINE n == RetentionSum(own) * Cardinality(main)
           d == RetentionSum(main) * Cardinality(own)
<1>5. n \in Nat /\ d \in Nat \ {0} /\ Cardinality(own) \in Nat \ {0} /\ Cardinality(main) \in Nat \ {0}
  <2>1. RetentionSum(own) \in Nat /\ Cardinality(own) \in Nat \ {0}
    BY <1>1, <1>3, SampleSums
  <2>2. RetentionSum(main) \in Nat /\ Cardinality(main) \in Nat \ {0}
    BY <1>1, <1>3, SampleSums
  <2>3. RetentionSum(main) \in Nat \ {0}
    BY <1>1, <2>2
  <2> QED BY <2>1, <2>2, <2>3, ProductPositive
<1>6. Sampled(own) /\ Sampled(main)
  BY <1>1, <1>3 DEF Sampled
<1>7. Ratio(own, main) = (20000 * n + d) \div (2 * d)
  BY DEF Ratio
<1>8. CASE is = "adopt"
  <2>1. \E r \in own : \E s \in main : 20000 * Figure(r) >= 15999 * Figure(s)
    <3> SUFFICES ASSUME \A r \in own : \A s \in main : ~ (20000 * Figure(r) >= 15999 * Figure(s))
                 PROVE  FALSE
      OBVIOUS
    <3>1. Outweighed(own, main, 20000, 15999, 1)
      BY <1>3 DEF Outweighed
    <3>2. 20000 * n + 1 * (Cardinality(own) * Cardinality(main)) <= 15999 * d
      BY <1>6, <3>1, Averages
    <3>3. Cardinality(own) * Cardinality(main) \in Nat \ {0}
      BY <1>5, ProductPositive
    <3>4. 20000 * n >= 15999 * d
      <4> HIDE DEF n, d
      <4> QED BY <1>1, <1>5, <1>7, <1>8, RatioBounds
    <3> HIDE DEF n, d
    <3> QED BY <1>5, <3>2, <3>3, <3>4
  <2>2. PICK r \in own : \E s \in main : 20000 * Figure(r) >= 15999 * Figure(s)
    BY <2>1
  <2>3. PICK s \in main : 20000 * Figure(r) >= 15999 * Figure(s)
    BY <2>2
  <2> QED BY <1>1, <1>3, <1>4, <1>8, <2>3 DEF Backed, Compares, LongTried, Figure, clips
<1>9. CASE is = "drop"
  <2>1. \E r \in own : \E s \in main : 100 * Figure(r) < 60 * Figure(s)
    <3> SUFFICES ASSUME \A r \in own : \A s \in main : ~ (100 * Figure(r) < 60 * Figure(s))
                 PROVE  FALSE
      OBVIOUS
    <3>1. Outweighed(main, own, 60, 100, 0)
      BY <1>3 DEF Outweighed
    <3>2. 60 * d + 0 * (Cardinality(main) * Cardinality(own)) <= 100 * n
      BY <1>6, <3>1, Averages
    <3>3. 0 * (Cardinality(main) * Cardinality(own)) = 0
      BY <1>5
    <3>4. 100 * n < 60 * d
      <4> HIDE DEF n, d
      <4> QED BY <1>1, <1>5, <1>7, <1>9, RatioBounds
    <3> HIDE DEF n, d
    <3> QED BY <1>5, <3>2, <3>3, <3>4
  <2>2. PICK r \in own : \E s \in main : 100 * Figure(r) < 60 * Figure(s)
    BY <2>1
  <2>3. PICK s \in main : 100 * Figure(r) < 60 * Figure(s)
    BY <2>2
  <2> QED BY <1>1, <1>3, <1>4, <1>9, <2>3 DEF Backed, Compares, LongTried, Figure, clips
<1> QED BY <1>8, <1>9

-----------------------------------------------------------------------------
\* No advice is given at first.
LEMMA AdviceInit == AnalyticsInit => AdviceInv /\ AdviceIsMeasured
<1> SUFFICES ASSUME AnalyticsInit PROVE AdviceInv /\ AdviceIsMeasured
  OBVIOUS
<1>1. 1 \in Days /\ LastDay \in Nat /\ MaxFetches \in Nat
  BY AnalyticsAssumption DEF Days
<1>2. AnalyticsTypeOK
  BY <1>1 DEF AnalyticsInit, AnalyticsTypeOK, NoAdvice
<1>3. NoFigure \notin Retentions
  BY AnalyticsAssumption
<1> QED BY <1>2, <1>3 DEF AnalyticsInit, AdviceInv, AdviceIsMeasured, NoAdvice

\* An advice that nothing has happened to since stays backed.
LEMMA BackedStays ==
  ASSUME NEW is, NEW genre, Backed(is, genre), UNCHANGED <<day, posted, figures>>
  PROVE  Backed(is, genre)'
<1>1. \A v, d, w, e : Compares(is, v, d, w, e) => Compares(is, v, d, w, e)'
  BY DEF Compares, Measured
<1>2. LongTried(genre)'
  BY DEF Backed, LongTried, ClipsOf
<1>3. ClipsOf(genre)' = ClipsOf(genre)
  BY DEF ClipsOf
<1> QED BY <1>1, <1>2, <1>3, Zenon DEF Backed

\* A step that stores no figure forgets the advice and takes no post away.
LEMMA NoFigureStep ==
  ASSUME AdviceInv, AnalyticsTypeOK', figures' = figures, advice' = NoAdvice,
         \A v \in Clips : posted[v] # 0 => posted'[v] # 0,
         \A v \in visible' : v \in visible \/ posted'[v] # 0
  PROVE  AdviceInv' /\ AdviceIsMeasured'
<1>1. visible \subseteq Clips
  BY DEF AdviceInv, AnalyticsTypeOK
<1>2. AdviceInv'
  BY <1>1 DEF AdviceInv
<1> QED BY <1>2 DEF AdviceIsMeasured, NoAdvice

\* Figures that come in replace those of one day, and the advice is asked for anew.
LEMMA FetchStep ==
  ASSUME AdviceInv, NEW date \in Days, NEW report \in Reports(date), Fetch(date, report)
  PROVE  AdviceInv' /\ AdviceIsMeasured'
<1>1. /\ figures' = Upserted(date, report) /\ advice' = NoAdvice
      /\ fetches < MaxFetches /\ fetches' = fetches + 1
      /\ UNCHANGED <<day, posted, visible>>
  BY DEF Fetch
<1>2. /\ report \in [Clips -> Retentions \cup {Unmeasured}]
      /\ \A v \in Clips : report[v] # Unmeasured => v \in visible
  BY DEF Reports, Targets
<1>3. Unmeasured \notin Retentions
  BY AnalyticsAssumption
<1>4. ASSUME NEW v \in Clips
      PROVE  /\ figures'[v] \in [Days -> Retentions \cup {NoFigure, Unmeasured}]
             /\ \A d \in Days : figures'[v][d] \in Retentions => posted[v] # 0
  <2>1. /\ figures[v] \in [Days -> Retentions \cup {NoFigure, Unmeasured}]
        /\ \A d \in Days : figures[v][d] \in Retentions => posted[v] # 0
    BY DEF AdviceInv, AnalyticsTypeOK
  <2>2. CASE v \in visible
    <3>1. figures'[v] = [figures[v] EXCEPT ![date] = report[v]]
      BY <1>1, <2>2 DEF Upserted, Targets, Stored
    <3>2. posted[v] # 0
      BY <2>2 DEF AdviceInv
    <3> QED BY <1>2, <2>1, <3>1, <3>2
  <2>3. CASE v \notin visible
    <3>1. figures'[v] = figures[v]
      BY <1>1, <2>3 DEF Upserted, Targets
    <3> QED BY <2>1, <3>1
  <2> QED BY <2>2, <2>3
<1>5. figures' \in [Clips -> [Days -> Retentions \cup {NoFigure, Unmeasured}]]
  <2>1. figures' = [v \in Clips |-> figures'[v]]
    BY <1>1 DEF Upserted
  <2> QED BY <1>4, <2>1
<1>6. fetches' \in 0 .. MaxFetches
  BY <1>1, AnalyticsAssumption DEF AdviceInv, AnalyticsTypeOK
<1>7. AnalyticsTypeOK'
  BY <1>1, <1>5, <1>6 DEF AdviceInv, AnalyticsTypeOK, NoAdvice
<1>8. AdviceInv'
  BY <1>1, <1>4, <1>7 DEF AdviceInv
<1> QED BY <1>1, <1>8 DEF AdviceIsMeasured, NoAdvice

\* Any step keeps both.
LEMMA AdviceNext ==
  ASSUME AdviceInv, AdviceIsMeasured, [AnalyticsNext]_analyticsVars
  PROVE  AdviceInv' /\ AdviceIsMeasured'
<1>1. /\ day \in Days /\ posted \in [Clips -> 0 .. LastDay] /\ visible \subseteq Clips
      /\ LastDay \in Nat /\ Days = 1 .. LastDay
  BY AnalyticsAssumption DEF AdviceInv, AnalyticsTypeOK, Days
<1>2. ASSUME NEW v \in Clips, PostClip(v)
      PROVE  AdviceInv' /\ AdviceIsMeasured'
  <2>1. posted' \in [Clips -> 0 .. LastDay] /\ day # 0
    BY <1>1, <1>2 DEF PostClip
  <2>2. AnalyticsTypeOK'
    BY <1>1, <1>2, <2>1 DEF PostClip, AdviceInv, AnalyticsTypeOK, NoAdvice
  <2>3. /\ \A u \in Clips : posted[u] # 0 => posted'[u] # 0
        /\ \A u \in visible' : u \in visible \/ posted'[u] # 0
    BY <1>1, <1>2, <2>1 DEF PostClip
  <2> QED BY <1>2, <2>2, <2>3, NoFigureStep DEF PostClip
<1>3. ASSUME NEW v \in Clips, HideClip(v)
      PROVE  AdviceInv' /\ AdviceIsMeasured'
  <2>1. AnalyticsTypeOK'
    BY <1>3 DEF HideClip, AdviceInv, AnalyticsTypeOK, NoAdvice
  <2> QED BY <1>3, <2>1, NoFigureStep DEF HideClip
<1>4. CASE NextDay
  <2>1. day' \in Days
    BY <1>1, <1>4 DEF NextDay
  <2>2. AnalyticsTypeOK'
    BY <1>4, <2>1 DEF NextDay, AdviceInv, AnalyticsTypeOK, NoAdvice
  <2> QED BY <1>4, <2>2, NoFigureStep DEF NextDay
<1>5. ASSUME NEW genre \in TrialGenres, Advise(genre)
      PROVE  AdviceInv' /\ AdviceIsMeasured'
  <2>1. /\ advice' = [is |-> Advised(genre), genre |-> genre]
        /\ UNCHANGED <<day, posted, visible, figures, fetches>>
    BY <1>5 DEF Advise
  <2>2. Advised(genre) \in {"adopt", "drop", "keep"}
    BY DEF Advised
  <2>3. AdviceInv'
    BY <2>1, <2>2 DEF AdviceInv, AnalyticsTypeOK
  <2>4. CASE Advised(genre) \in {"drop", "adopt"}
    <3>1. PICK is : is = Advised(genre)
      OBVIOUS
    <3>2. Backed(is, genre)'
      BY <2>1, <2>4, <3>1, AdviceBacked, BackedStays
    <3> QED BY <2>1, <2>3, <3>1, <3>2 DEF AdviceIsMeasured
  <2>5. CASE Advised(genre) = "keep"
    BY <2>1, <2>3, <2>5 DEF AdviceIsMeasured
  <2> QED BY <2>2, <2>4, <2>5
<1>6. CASE UNCHANGED analyticsVars
  <2>1. AdviceInv'
    BY <1>6 DEF analyticsVars, AdviceInv, AnalyticsTypeOK
  <2>2. CASE advice.is \in {"drop", "adopt"}
    <3>1. PICK is, genre : is = advice.is /\ genre = advice.genre
      OBVIOUS
    <3>2. Backed(is, genre)'
      BY <1>6, <2>2, <3>1, BackedStays DEF analyticsVars, AdviceIsMeasured
    <3>3. advice'.is = is /\ advice'.genre = genre
      BY <1>6, <3>1 DEF analyticsVars
    <3> QED BY <2>1, <3>2, <3>3, Zenon DEF AdviceIsMeasured
  <2>3. CASE advice.is \notin {"drop", "adopt"}
    BY <1>6, <2>1, <2>3 DEF analyticsVars, AdviceIsMeasured
  <2> QED BY <2>2, <2>3
<1> QED BY <1>2, <1>3, <1>4, <1>5, <1>6, FetchStep DEF AnalyticsNext, GetAnalytics

\* A genre is dropped or adopted on figures only: some recent day of one of its
\* videos compares with some recent day of a main video as the thresholds say, and
\* it was tried on enough videos for long enough; for any number of videos and days,
\* any window and whatever YouTube leaves out (domain/genres/recommend.py).
THEOREM AdviceMeasured == AnalyticsSpec => []AdviceIsMeasured
<1>1. AnalyticsInit => AdviceInv /\ AdviceIsMeasured
  BY AdviceInit
<1>2. AdviceInv /\ AdviceIsMeasured /\ [AnalyticsNext]_analyticsVars =>
        AdviceInv' /\ AdviceIsMeasured'
  BY AdviceNext
<1> QED BY <1>1, <1>2, PTL DEF AnalyticsSpec

-----------------------------------------------------------------------------
(* Music compiler: a batch that is accepted can be played. *)

\* As many values as tracks: no two tracks share one.
LEMMA AllDifferent ==
  ASSUME NEW f, f = [i \in 1 .. TrackCount |-> f[i]]
  PROVE  Different({f[i] : i \in 1 .. TrackCount})
           <=> \A i \in 1 .. TrackCount : \A j \in 1 .. TrackCount : f[i] = f[j] => i = j
<1> DEFINE T == {f[i] : i \in 1 .. TrackCount}
<1>1. f \in Surjection(1 .. TrackCount, T)
  <2>1. f \in [1 .. TrackCount -> T]
    <3> HIDE DEF T
    <3>1. \A i \in 1 .. TrackCount : f[i] \in T
      BY DEF T
    <3>2. f \in [1 .. TrackCount -> T] <=> [i \in 1 .. TrackCount |-> f[i]] \in [1 .. TrackCount -> T]
      OBVIOUS
    <3> QED BY <3>1, <3>2
  <2> QED BY <2>1 DEF Surjection
<1>2. IsFiniteSet(1 .. TrackCount) /\ Cardinality(1 .. TrackCount) = TrackCount
  <2>1. 1 \in Int /\ TrackCount \in Int /\ TrackCount >= 1
    BY CompilerAssumption
  <2>2. IsFiniteSet(1 .. TrackCount)
    BY <2>1, FS_Interval
  <2>3. Cardinality(1 .. TrackCount) = IF 1 > TrackCount THEN 0 ELSE TrackCount - 1 + 1
    BY <2>1, FS_Interval
  <2> QED BY <2>1, <2>2, <2>3
<1> HIDE DEF T
<1>3. Cardinality(T) = TrackCount <=> f \in Injection(1 .. TrackCount, T)
  BY <1>1, <1>2, FS_Surjection
<1>4. f \in [1 .. TrackCount -> T]
  BY <1>1 DEF Surjection
<1>5. f \in Injection(1 .. TrackCount, T) <=>
        \A i \in 1 .. TrackCount : \A j \in 1 .. TrackCount : f[i] = f[j] => i = j
  BY <1>4 DEF Injection, IsInjective
<1> QED BY <1>3, <1>5 DEF Different, T

\* What a post proposes and the limits of its genre.
LimitsInv ==
  /\ \/ post.tracks \in [1 .. TrackCount -> Proposals]
     \/ post.tracks = <<>>
  /\ genreMin \in Limits /\ genreMax \in Limits

\* The limits that are computed enclose the tempos both sides accept.
LEMMA LimitsArePlayable ==
  ASSUME LimitsInv
  PROVE  Low \in Nat /\ High \in Nat /\ Playable = Low .. High
<1>1. /\ WorkerMin \in Nat /\ WorkerMax \in Nat
      /\ genreMin # NoLimit => genreMin \in Nat
      /\ genreMax # NoLimit => genreMax \in Nat
  BY CompilerAssumption DEF LimitsInv, Limits
<1>2. Low = IF genreMin = NoLimit \/ genreMin <= WorkerMin THEN WorkerMin ELSE genreMin
  <2>1. CASE genreMin = NoLimit
    BY <2>1 DEF Low
  <2>2. CASE genreMin # NoLimit
    BY <1>1, <2>2, MaxOfTwo DEF Low
  <2> QED BY <2>1, <2>2
<1>3. High = IF genreMax = NoLimit \/ genreMax >= WorkerMax THEN WorkerMax ELSE genreMax
  <2>1. CASE genreMax = NoLimit
    BY <2>1 DEF High
  <2>2. CASE genreMax # NoLimit
    BY <1>1, <2>2, MinOfTwo DEF High
  <2> QED BY <2>1, <2>2
<1>4. Low \in Nat /\ High \in Nat
  BY <1>1, <1>2, <1>3
<1>5. \A b \in Nat : b \in Playable <=> b \in Low .. High
  BY <1>1, <1>2, <1>3, <1>4 DEF Playable
<1>6. Playable \subseteq Nat /\ Low .. High \subseteq Nat
  BY <1>1, <1>4 DEF Playable
<1> QED BY <1>4, <1>5, <1>6

\* What is asked for: one proposal for each track.
LEMMA WantedTracks ==
  ASSUME LimitsInv
  PROVE  /\ DOMAIN Wanted = 1 .. TrackCount
         /\ post.tracks # <<>> => Wanted \in [1 .. TrackCount -> Proposals]
         /\ post.tracks = <<>> => \A i \in 1 .. TrackCount : Wanted[i].key \in Keys
<1>1. 1 \in 1 .. TrackCount
  BY CompilerAssumption
<1>2. CASE post.tracks = <<>>
  <2>1. Wanted = Expanded
    BY <1>2 DEF Wanted
  <2>2. (CHOOSE k \in Keys : TRUE) \in Keys
    BY CompilerAssumption
  <2> QED BY <1>2, <2>1, <2>2 DEF Expanded
<1>3. CASE post.tracks # <<>>
  <2>1. Wanted = post.tracks
    BY <1>3 DEF Wanted
  <2> QED BY <1>3, <2>1 DEF LimitsInv
<1> QED BY <1>2, <1>3

\* A tempo moves to the nearest playable one.
LEMMA ClampedNearest ==
  ASSUME LimitsInv, NEW bpm \in Nat, ~ (Low > High)
  PROVE  /\ Clamped(bpm) \in Playable
         /\ \A b \in Playable : Distance(bpm, Clamped(bpm)) <= Distance(bpm, b)
<1>1. Low \in Nat /\ High \in Nat /\ Playable = Low .. High
  BY LimitsArePlayable
<1>2. Clamped(bpm) = IF bpm < Low THEN Low ELSE IF bpm > High THEN High ELSE bpm
  BY DEF Clamped
<1> QED BY <1>1, <1>2 DEF Distance

\* A track has the nearest tempo, and says so when it is not the one proposed.
LEMMA LockedTrack ==
  ASSUME NEW p
  PROVE  /\ Locked(p).bpm = Clamped(p.bpm)
         /\ (Locked(p).adjusted = <<>>) <=> (Locked(p).bpm = p.bpm)
         /\ Locked(p).prompt[1] = p.sub
<1> DEFINE bpm == Clamped(p.bpm)
<1>1. Locked(p) = [bpm |-> bpm,
                   prompt |-> <<p.sub, p.extra, bpm, p.key>>,
                   adjusted |-> IF bpm = p.bpm THEN <<>> ELSE <<p.bpm, bpm, Low, High>>]
  BY DEF Locked
<1> HIDE DEF bpm
<1>2. <<p.bpm, bpm, Low, High>> # <<>>
  OBVIOUS
<1>3. <<p.sub, p.extra, bpm, p.key>>[1] = p.sub
  OBVIOUS
<1> QED BY <1>1, <1>2, <1>3 DEF bpm

\* Each way the compiler may end is one that the property names.
LEMMA CompileStep ==
  ASSUME LimitsInv, Compile
  PROVE  CompiledBatchFits'
<1> DEFINE Tracks == 1 .. TrackCount
           invalid == \E i \in Tracks : Wanted[i].bpm \notin WorkerMin .. WorkerMax
           refused == \/ Low > High
                      \/ \E i \in Tracks : Wanted[i].key \notin Keys
                      \/ ~ Different({Wanted[i].sub : i \in Tracks})
                      \/ ~ Different({Locked(Wanted[i]).prompt : i \in Tracks})
           Sub == [i \in Tracks |-> Wanted[i].sub]
           Prompt == [i \in Tracks |-> Locked(Wanted[i]).prompt]
<1>1. batch' = CASE invalid -> NotCompiled("invalid")
                 [] ~ invalid /\ refused -> NotCompiled("refused")
                 [] OTHER -> [is |-> "compiled", tracks |-> [i \in Tracks |-> Locked(Wanted[i])]]
  BY DEF Compile
<1>2. UNCHANGED <<post, genreMin, genreMax>>
  BY DEF Compile
<1>3. Wanted' = Wanted /\ Playable' = Playable
  BY <1>2 DEF Wanted, Expanded, LegacyBpm, Playable
<1>4. Different({Wanted[i].sub : i \in Tracks}) <=>
        \A i \in Tracks : \A j \in Tracks : Wanted[i].sub = Wanted[j].sub => i = j
  <2>1. {Sub[i] : i \in Tracks} = {Wanted[i].sub : i \in Tracks}
    OBVIOUS
  <2>2. Different({Sub[i] : i \in Tracks}) <=>
          \A i \in Tracks : \A j \in Tracks : Sub[i] = Sub[j] => i = j
    <3>1. Sub = [i \in 1 .. TrackCount |-> Sub[i]]
      OBVIOUS
    <3> HIDE DEF Sub
    <3> QED BY <3>1, AllDifferent
  <2> QED BY <2>1, <2>2
<1>5. Different({Locked(Wanted[i]).prompt : i \in Tracks}) <=>
        \A i \in Tracks : \A j \in Tracks :
          Locked(Wanted[i]).prompt = Locked(Wanted[j]).prompt => i = j
  <2>1. {Prompt[i] : i \in Tracks} = {Locked(Wanted[i]).prompt : i \in Tracks}
    OBVIOUS
  <2>2. Different({Prompt[i] : i \in Tracks}) <=>
          \A i \in Tracks : \A j \in Tracks : Prompt[i] = Prompt[j] => i = j
    <3>1. Prompt = [i \in 1 .. TrackCount |-> Prompt[i]]
      OBVIOUS
    <3> HIDE DEF Prompt
    <3> QED BY <3>1, AllDifferent
  <2> QED BY <2>1, <2>2
<1> HIDE DEF Tracks
<1>6. CASE invalid
  <2>1. batch' = NotCompiled("invalid")
    BY <1>1, <1>6
  <2>2. post.tracks = <<>>
    <3> SUFFICES ASSUME post.tracks # <<>> PROVE FALSE
      OBVIOUS
    <3>1. Wanted \in [Tracks -> Proposals]
      BY WantedTracks DEF Tracks
    <3>2. \A i \in Tracks : Wanted[i].bpm \in WorkerMin .. WorkerMax
      BY <3>1 DEF Proposals
    <3> QED BY <1>6, <3>2
  <2> QED BY <1>2, <2>1, <2>2 DEF CompiledBatchFits, NotCompiled
<1>7. CASE ~ invalid /\ refused
  <2>1. batch' = NotCompiled("refused")
    BY <1>1, <1>7
  <2>2. \/ Playable = {}
        \/ \E i \in Tracks : Wanted[i].key = BadKey
        \/ \E i \in Tracks : \E j \in Tracks : i # j /\ Wanted[i].sub = Wanted[j].sub
    <3>1. CASE Low > High
      BY <3>1, LimitsArePlayable
    <3>2. ASSUME NEW i \in Tracks, Wanted[i].key \notin Keys
          PROVE  Wanted[i].key = BadKey
      <4>1. Wanted \in [Tracks -> Proposals]
        BY <3>2, WantedTracks DEF Tracks
      <4>2. Wanted[i] \in Proposals
        BY <4>1
      <4> QED BY <3>2, <4>2 DEF Proposals
    <3>3. CASE ~ Different({Wanted[i].sub : i \in Tracks})
      BY <1>4, <3>3
    <3>4. CASE ~ Different({Locked(Wanted[i]).prompt : i \in Tracks})
      <4>1. PICK i \in Tracks, j \in Tracks :
              Locked(Wanted[i]).prompt = Locked(Wanted[j]).prompt /\ i # j
        BY <1>5, <3>4
      <4>2. Wanted[i].sub = Wanted[j].sub
        BY <4>1, LockedTrack
      <4> QED BY <4>1, <4>2
    <3> QED BY <1>7, <3>1, <3>2, <3>3, <3>4
  <2> QED BY <1>3, <2>1, <2>2 DEF CompiledBatchFits, NotCompiled, Tracks
<1>8. CASE ~ invalid /\ ~ refused
  <2>1. batch' = [is |-> "compiled", tracks |-> [i \in Tracks |-> Locked(Wanted[i])]]
    BY <1>1, <1>8
  <2>2. ASSUME NEW i \in Tracks
        PROVE  /\ Locked(Wanted[i]).bpm \in Playable
               /\ \A b \in Playable :
                    Distance(Wanted[i].bpm, Locked(Wanted[i]).bpm) <= Distance(Wanted[i].bpm, b)
               /\ (Locked(Wanted[i]).adjusted = <<>>) <=> (Locked(Wanted[i]).bpm = Wanted[i].bpm)
               /\ \A j \in Tracks \ {i} : Locked(Wanted[i]).prompt # Locked(Wanted[j]).prompt
    <3>1. Wanted[i].bpm \in Nat
      BY <1>8, CompilerAssumption
    <3>2. ~ (Low > High)
      BY <1>8
    <3>3. \A j \in Tracks \ {i} : Locked(Wanted[i]).prompt # Locked(Wanted[j]).prompt
      BY <1>5, <1>8
    <3> QED BY <3>1, <3>2, <3>3, ClampedNearest, LockedTrack
  <2>3. batch'.is = "compiled" /\ \A i \in Tracks : batch'.tracks[i] = Locked(Wanted[i])
    BY <2>1
  <2> QED BY <1>3, <2>2, <2>3 DEF CompiledBatchFits, Distance, Tracks
<1> QED BY <1>6, <1>7, <1>8

\* A post is turned into tracks the worker plays, at the nearest tempo that the genre
\* allows and all different, or refused for a reason that can be named, for any
\* number of tracks and any limits (domain/music/compiler.py).
THEOREM BatchFits == CompilerSpec => []CompiledBatchFits
<1>1. CompilerInit => LimitsInv /\ CompiledBatchFits
  BY DEF CompilerInit, LimitsInv, CompiledBatchFits
<1>2. LimitsInv /\ CompiledBatchFits /\ [Compile]_compilerVars =>
        LimitsInv' /\ CompiledBatchFits'
  <2>1. LimitsInv /\ Compile => LimitsInv'
    BY DEF LimitsInv, Compile, Limits
  <2>2. LimitsInv /\ CompiledBatchFits /\ UNCHANGED compilerVars =>
          LimitsInv' /\ CompiledBatchFits'
    BY DEF compilerVars, LimitsInv, Limits, CompiledBatchFits, Playable, Wanted, Expanded,
           LegacyBpm, Distance
  <2> QED BY <2>1, <2>2, CompileStep
<1> QED BY <1>1, <1>2, PTL DEF CompilerSpec

-----------------------------------------------------------------------------
(* Rendering: chapters, mix and duration. *)

\* The tracks 1 .. k + 1 of length n, each faded into the ones before it.
Heard(k, n, fade) ==
  [parts |-> [i \in 1 .. k + 1 |-> [track |-> i, from |-> (i - 1) * (n - fade)]],
   length |-> (k + 1) * n - k * fade]

\* A mix, as far as its types go.
Mixes == [parts : Seq([track : Int, from : Int]), length : Int]

\* One more track.
LEMMA HeardNext ==
  ASSUME seconds \in Nat, NEW fade \in Nat, NEW k \in Nat
  PROVE  Crossfaded(Heard(k, seconds, fade), k + 2, fade) = Heard(k + 1, seconds, fade)
<1> DEFINE old == Heard(k, seconds, fade)
           new == Heard(k + 1, seconds, fade)
           from == (k + 1) * (seconds - fade)
<1>1. old.length - fade = from
  <2>1. ((k + 1) * seconds - k * fade) - fade = (k + 1) * (seconds - fade)
    OBVIOUS
  <2> QED
    BY <2>1 DEF Heard
<1>2. old.length + seconds - fade = new.length
  <2>1. ((k + 1) * seconds - k * fade) + seconds - fade = ((k + 1) + 1) * seconds - (k + 1) * fade
    OBVIOUS
  <2> QED
    BY <2>1 DEF Heard
<1>3. Append(old.parts, [track |-> k + 2, from |-> from]) = new.parts
  <2>1. old.parts = [i \in 1 .. k + 1 |-> [track |-> i, from |-> (i - 1) * (seconds - fade)]]
    BY DEF Heard
  <2>2. new.parts = [i \in 1 .. k + 2 |-> [track |-> i, from |-> (i - 1) * (seconds - fade)]]
    <3>1. (k + 1) + 1 = k + 2
      OBVIOUS
    <3> QED
      BY <3>1 DEF Heard
  <2>3. \A i \in 1 .. k + 1 : (i - 1) * (seconds - fade) \in Int
    OBVIOUS
  <2>4. old.parts \in Seq([track : Int, from : Int]) /\ Len(old.parts) = k + 1
    <3>1. old.parts \in [1 .. k + 1 -> [track : Int, from : Int]]
      BY <2>1, <2>3
    <3>2. k + 1 \in Nat
      OBVIOUS
    <3> QED
      BY <3>1, <3>2, FunctionIsSeq
  <2>5. (k + 2) - 1 = k + 1
    OBVIOUS
  <2> HIDE DEF old, new
  <2>6. new.parts[k + 2] = [track |-> k + 2, from |-> from]
    BY <2>2, <2>5
  <2>7. \A i \in 1 .. k + 1 : new.parts[i] = old.parts[i]
    BY <2>1, <2>2
  <2>8. new.parts \in Seq([track : Int, from : Int]) /\ Len(new.parts) = k + 2
    <3>1. \A i \in 1 .. k + 2 : (i - 1) * (seconds - fade) \in Int
      OBVIOUS
    <3>2. new.parts \in [1 .. k + 2 -> [track : Int, from : Int]]
      BY <2>2, <3>1
    <3>3. k + 2 \in Nat
      OBVIOUS
    <3> QED
      BY <3>2, <3>3, FunctionIsSeq
  <2> DEFINE part == [track |-> k + 2, from |-> from]
             longer == Append(old.parts, part)
  <2>9. part \in [track : Int, from : Int]
    OBVIOUS
  <2> HIDE DEF part
  <2>10. Len(longer) = k + 2 /\ longer \in Seq([track : Int, from : Int])
    BY <2>4, <2>9
  <2>11. ASSUME NEW i \in 1 .. k + 2
         PROVE  longer[i] = new.parts[i]
    <3>1. CASE i = k + 2
      BY <2>4, <2>6, <2>9, <3>1 DEF part
    <3>2. CASE i # k + 2
      BY <2>4, <2>7, <2>9, <3>2
    <3> QED
      BY <3>1, <3>2
  <2> HIDE DEF longer
  <2>12. longer = new.parts
    BY <2>8, <2>10, <2>11
  <2> QED
    BY <2>12 DEF longer, part
<1>4. new = [parts |-> new.parts, length |-> new.length]
  BY DEF Heard
<1> HIDE DEF old, new
<1>5. Crossfaded(old, k + 2, fade) = new
  BY <1>1, <1>2, <1>3, <1>4 DEF Crossfaded
<1> QED
  BY <1>5 DEF old, new

\* The filter that compose_video builds puts track i at (i - 1) lengths less as
\* many crossfades.
LEMMA MixHeard ==
  ASSUME seconds \in Nat, NEW fade \in Nat
  PROVE  Mix(fade) = Heard(Chapters - 1, seconds, fade)
<1> DEFINE n == Chapters - 1
           seq == [i \in 1 .. Chapters - 1 |-> i + 1]
           base == [parts |-> <<[track |-> 1, from |-> 0]>>, length |-> seconds]
           step == [v \in Mixes \X (1 .. n) |-> Crossfaded(v[1], v[2] + 1, fade)]
           h == CHOOSE k : k = [s \in SUBSET DOMAIN seq |-> IF s = {} THEN base
                  ELSE Crossfaded(k[s \ {Max(s)}], seq[Max(s)], fade)]
<1>1. Mix(fade) = h[DOMAIN seq]
  BY Zenon DEF Mix, FoldLeft, MapThenFoldSet
<1>2. n \in Nat /\ DOMAIN seq = 1 .. n /\ \A i \in 1 .. n : seq[i] = i + 1
  BY RenderingAssumption
<1>3. base = Heard(0, seconds, fade)
  <2>1. (0 + 1) * seconds - 0 * fade = seconds /\ (1 - 1) * (seconds - fade) = 0
    OBVIOUS
  <2>2. [i \in 1 .. 0 + 1 |-> [track |-> i, from |-> (i - 1) * (seconds - fade)]]
          = <<[track |-> 1, from |-> 0]>>
    BY <2>1
  <2> QED
    BY <2>1, <2>2 DEF Heard
<1>4. base \in Mixes
  BY DEF Mixes
<1>5. step \in [Mixes \X (1 .. n) -> Mixes]
  <2>1. ASSUME NEW mix \in Mixes, NEW i \in 1 .. n
        PROVE  Crossfaded(mix, i + 1, fade) \in Mixes
    <3>1. i + 1 \in Int /\ mix.parts \in Seq([track : Int, from : Int]) /\ mix.length \in Int
      BY DEF Mixes
    <3>2. [track |-> i + 1, from |-> mix.length - fade] \in [track : Int, from : Int]
      BY <3>1
    <3>3. Append(mix.parts, [track |-> i + 1, from |-> mix.length - fade])
            \in Seq([track : Int, from : Int])
      BY <3>1, <3>2
    <3>4. mix.length + seconds - fade \in Int
      BY <3>1
    <3> QED
      BY <3>3, <3>4 DEF Crossfaded, Mixes
  <2> QED
    BY <2>1
<1> HIDE DEF n, seq, base
<1>6. PICK g \in [SUBSET (1 .. n) -> Mixes] : LeftFold(g, base, step, n)
  <2> HIDE DEF step
  <2> QED
    BY <1>2, <1>4, <1>5, FoldExists
<1>7. g = [s \in SUBSET DOMAIN seq |-> IF s = {} THEN base
             ELSE Crossfaded(g[s \ {Max(s)}], seq[Max(s)], fade)]
  <2>1. ASSUME NEW s \in SUBSET (1 .. n), s # {}
        PROVE  step[<<g[s \ {Max(s)}], Max(s)>>] = Crossfaded(g[s \ {Max(s)}], seq[Max(s)], fade)
    <3>1. Max(s) \in 1 .. n /\ seq[Max(s)] = Max(s) + 1
      BY <1>2, <2>1, MaxIsIn
    <3>2. g[s \ {Max(s)}] \in Mixes
      BY <1>6
    <3> QED
      BY <3>1, <3>2
  <2>2. g = [s \in SUBSET (1 .. n) |-> IF s = {} THEN base
               ELSE step[<<g[s \ {Max(s)}], Max(s)>>]]
    BY <1>6 DEF LeftFold
  <2> HIDE DEF step
  <2> QED
    BY <1>2, <2>1, <2>2
<1>8. h = [s \in SUBSET DOMAIN seq |-> IF s = {} THEN base
             ELSE Crossfaded(h[s \ {Max(s)}], seq[Max(s)], fade)]
  BY <1>7, Zenon
<1> HIDE DEF h, step
<1>9. h[{}] = base
  BY <1>8
<1>10. ASSUME NEW k \in Nat, k + 1 <= n
       PROVE  h[1 .. k + 1] = Crossfaded(h[1 .. k], k + 2, fade)
  <2>1. 1 .. k + 1 \in SUBSET (1 .. n) /\ 1 .. k + 1 # {} /\ k + 1 \in 1 .. k + 1
    BY <1>2, <1>10, FirstPlaces
  <2>2. Max(1 .. k + 1) = k + 1
    BY <2>1, LastIsMax
  <2>3. (1 .. k + 1) \ {k + 1} = 1 .. k
    OBVIOUS
  <2>4. seq[k + 1] = k + 2
    <3>1. k + 1 \in 1 .. n
      BY <2>1
    <3>2. (k + 1) + 1 = k + 2
      OBVIOUS
    <3> QED
      BY <1>2, <3>1, <3>2
  <2>5. h[1 .. k + 1] = Crossfaded(h[(1 .. k + 1) \ {Max(1 .. k + 1)}], seq[Max(1 .. k + 1)], fade)
    BY <1>2, <1>8, <2>1
  <2> QED
    BY <2>2, <2>3, <2>4, <2>5
<1> DEFINE T == {k \in Nat : k <= n => h[1 .. k] = Heard(k, seconds, fade)}
<1>11. 0 \in T
  <2>1. 1 .. 0 = {}
    OBVIOUS
  <2> QED
    BY <1>3, <1>9, <2>1
<1>12. ASSUME NEW k \in T
       PROVE  k + 1 \in T
  <2>1. ASSUME k + 1 <= n
        PROVE  h[1 .. k + 1] = Heard(k + 1, seconds, fade)
    <3>1. h[1 .. k] = Heard(k, seconds, fade)
      BY <1>2, <2>1
    <3> QED
      BY <1>10, <2>1, <3>1, HeardNext
  <2> QED
    BY <2>1
<1> HIDE DEF T
<1>13. T = Nat
  <2>1. T \in SUBSET Nat
    BY DEF T
  <2> QED
    BY <1>11, <1>12, <2>1, AllNumbers
<1>14. h[1 .. n] = Heard(n, seconds, fade)
  BY <1>2, <1>13 DEF T
<1> QED
  BY <1>1, <1>2, <1>14 DEF n

\* The places of a timestamp are those of its parts, the first the greatest.
LEMMA StampFold ==
  ASSUME NEW n \in {2, 3}, NEW stamp \in [1 .. n -> Nat]
  PROVE  AsSeconds(stamp) = IF n = 2 THEN 60 * stamp[1] + stamp[2]
                            ELSE 60 * (60 * stamp[1] + stamp[2]) + stamp[3]
<1> DEFINE step == [v \in Nat \X (1 .. n) |-> 60 * v[1] + stamp[v[2]]]
           h == CHOOSE k : k = [s \in SUBSET DOMAIN stamp |-> IF s = {} THEN 0
                  ELSE 60 * k[s \ {Max(s)}] + stamp[Max(s)]]
<1>1. AsSeconds(stamp) = h[DOMAIN stamp]
  BY Zenon DEF AsSeconds, FoldLeft, MapThenFoldSet
<1>2. n \in Nat /\ DOMAIN stamp = 1 .. n
  OBVIOUS
<1>3. step \in [Nat \X (1 .. n) -> Nat]
  OBVIOUS
<1>4. PICK g \in [SUBSET (1 .. n) -> Nat] : LeftFold(g, 0, step, n)
  <2> HIDE DEF step
  <2> QED
    BY <1>2, <1>3, FoldExists
<1>5. g = [s \in SUBSET DOMAIN stamp |-> IF s = {} THEN 0
             ELSE 60 * g[s \ {Max(s)}] + stamp[Max(s)]]
  <2>1. ASSUME NEW s \in SUBSET (1 .. n), s # {}
        PROVE  step[<<g[s \ {Max(s)}], Max(s)>>] = 60 * g[s \ {Max(s)}] + stamp[Max(s)]
    <3>1. Max(s) \in 1 .. n
      BY <1>2, <2>1, MaxIsIn
    <3>2. g[s \ {Max(s)}] \in Nat
      BY <1>4
    <3> QED
      BY <3>1, <3>2
  <2>2. g = [s \in SUBSET (1 .. n) |-> IF s = {} THEN 0
               ELSE step[<<g[s \ {Max(s)}], Max(s)>>]]
    BY <1>4 DEF LeftFold
  <2> HIDE DEF step
  <2> QED
    BY <1>2, <2>1, <2>2
<1>6. h = [s \in SUBSET DOMAIN stamp |-> IF s = {} THEN 0
             ELSE 60 * h[s \ {Max(s)}] + stamp[Max(s)]]
  BY <1>5, Zenon
<1> HIDE DEF h, step
<1>7. ASSUME NEW k \in Nat, NEW m \in Nat, m = k + 1, m <= n
      PROVE  h[1 .. m] = 60 * h[1 .. k] + stamp[m]
  <2>1. 1 .. m \in SUBSET (1 .. n) /\ 1 .. m # {} /\ m \in 1 .. m
    BY <1>2, <1>7, FirstPlaces
  <2>2. Max(1 .. m) = m
    BY <1>7, <2>1, LastIsMax
  <2>3. (1 .. m) \ {m} = 1 .. k
    BY <1>7
  <2>4. h[1 .. m] = 60 * h[(1 .. m) \ {Max(1 .. m)}] + stamp[Max(1 .. m)]
    BY <1>2, <1>6, <2>1
  <2> QED
    BY <2>2, <2>3, <2>4
<1>8. h[1 .. 0] = 0
  BY <1>6
<1>9. h[1 .. 1] = 60 * h[1 .. 0] + stamp[1]
  <2>1. 0 \in Nat /\ 1 \in Nat /\ 1 = 0 + 1 /\ 1 <= n
    OBVIOUS
  <2> QED
    BY <1>7, <2>1, Zenon
<1>10. h[1 .. 2] = 60 * h[1 .. 1] + stamp[2]
  <2>1. 1 \in Nat /\ 2 \in Nat /\ 2 = 1 + 1 /\ 2 <= n
    OBVIOUS
  <2> QED
    BY <1>7, <2>1, Zenon
<1>11. stamp[1] \in Nat /\ 60 * 0 + stamp[1] = stamp[1]
  OBVIOUS
<1>12. CASE n = 2
  BY <1>1, <1>8, <1>9, <1>10, <1>11, <1>12
<1>13. CASE n = 3
  <2>1. h[1 .. 3] = 60 * h[1 .. 2] + stamp[3]
    <3>1. 2 \in Nat /\ 3 \in Nat /\ 3 = 2 + 1 /\ 3 <= n
      BY <1>13
    <3> QED
      BY <1>7, <3>1, Zenon
  <2> QED
    BY <1>1, <1>8, <1>9, <1>10, <1>11, <1>13, <2>1
<1> QED
  BY <1>12, <1>13

\* _format_timestamp writes a time of day, and the one it was given.
LEMMA StampIsTime ==
  ASSUME NEW t \in Nat
  PROVE  /\ AsSeconds(Timestamp(t)) = t
         /\ \A k \in DOMAIN Timestamp(t) : k > 1 => Timestamp(t)[k] < 60
         /\ Len(Timestamp(t)) = 3 => Timestamp(t)[1] > 0
<1> DEFINE hours == t \div 3600
           minutes == (t % 3600) \div 60
           rest == t % 60
<1>1. /\ hours \in Nat /\ minutes \in Nat /\ rest \in Nat
      /\ minutes < 60 /\ rest < 60
      /\ 60 * (60 * hours + minutes) + rest = t
  OBVIOUS
<1> HIDE DEF hours, minutes, rest
<1>2. CASE hours > 0
  <2>1. Timestamp(t) = <<hours, minutes, rest>>
    BY <1>2 DEF Timestamp, hours, minutes, rest
  <2>2. <<hours, minutes, rest>> \in [1 .. 3 -> Nat]
    BY <1>1
  <2>3. AsSeconds(<<hours, minutes, rest>>) = 60 * (60 * hours + minutes) + rest
    BY <2>2, StampFold
  <2>4. \A k \in 1 .. 3 : k > 1 => k = 2 \/ k = 3
    OBVIOUS
  <2> QED
    BY <1>1, <1>2, <2>1, <2>3, <2>4
<1>3. CASE ~(hours > 0)
  <2>1. Timestamp(t) = <<minutes, rest>>
    BY <1>3 DEF Timestamp, hours, minutes, rest
  <2>2. <<minutes, rest>> \in [1 .. 2 -> Nat]
    BY <1>1
  <2>3. AsSeconds(<<minutes, rest>>) = 60 * minutes + rest
    BY <2>2, StampFold
  <2>4. hours = 0
    BY <1>1, <1>3
  <2>5. \A k \in 1 .. 2 : k > 1 => k = 2
    OBVIOUS
  <2> QED
    BY <1>1, <2>1, <2>3, <2>4, <2>5
<1> QED
  BY <1>2, <1>3

\* A chapter ignores the crossfades, at most FadeMax for every track before it;
\* together they are shorter than one track.
LEMMA ChapterDrift ==
  ASSUME NEW n \in Lengths, NEW fade \in FadeMin .. FadeMax, NEW i \in 1 .. Chapters
  PROVE  /\ n \in Nat /\ fade \in Nat /\ i \in Nat /\ Chapters \in Nat
         /\ n * (i - 1) \in Nat
         /\ (i - 1) * (n - fade) <= n * (i - 1)
         /\ n * (i - 1) < i * (n - fade)
         /\ n * (i - 1) < i * n - (i - 1) * fade
<1>1. n \in Nat /\ fade \in Nat /\ i \in Nat /\ i - 1 \in Nat /\ Chapters \in Nat
      /\ FadeMax \in Nat /\ fade <= FadeMax /\ i <= Chapters /\ Chapters * FadeMax < n
  <2>1. \A x \in Lengths : x \in Nat /\ Chapters * FadeMax < x
    BY RenderingAssumption
  <2>2. FadeMin \in Nat /\ FadeMax \in Nat /\ Chapters \in Nat
    BY RenderingAssumption
  <2> QED
    BY <2>1, <2>2
<1>2. i * fade <= Chapters * fade /\ Chapters * fade <= Chapters * FadeMax
  BY <1>1, ProductGrows
<1>3. i * fade \in Nat /\ Chapters * fade \in Nat /\ Chapters * FadeMax \in Nat
      /\ (i - 1) * fade \in Nat /\ n * i \in Nat /\ n * (i - 1) \in Nat
  BY <1>1
<1>4. i * fade < n
  BY <1>1, <1>2, <1>3
<1>5. /\ (i - 1) * (n - fade) = n * (i - 1) - (i - 1) * fade
      /\ i * (n - fade) = n * i - i * fade
      /\ n * (i - 1) = n * i - n
      /\ (i - 1) * fade = i * fade - fade
      /\ i * n = n * i
  BY <1>1
<1> QED
  BY <1>1, <1>3, <1>4, <1>5

\* There is a first chapter.
LEMMA FirstChapter == 1 \in 1 .. Chapters
  BY RenderingAssumption

\* The description is made of the chapters, the video of the mix.
ChaptersInv ==
  /\ seconds \in Lengths
  /\ making \in {"thumbnail", "video", "done"} => chapters = ChaptersBlock
  /\ making = "done" => \E fade \in FadeMin .. FadeMax :
       video = [is |-> "file", mix |-> Heard(Chapters - 1, seconds, fade),
                duration |-> Estimate(fade)]

\* What the two are is what the property asks.
LEMMA ChaptersFit == ChaptersInv => ChapterIsInItsTrack
<1> SUFFICES ASSUME ChaptersInv, making = "done"
             PROVE  ChapterIsInItsTrack
  BY DEF ChapterIsInItsTrack
<1> DEFINE C == Chapters
<1>1. PICK fade \in FadeMin .. FadeMax :
        video = [is |-> "file", mix |-> Heard(Chapters - 1, seconds, fade),
                 duration |-> Estimate(fade)]
  BY DEF ChaptersInv
<1>2. seconds \in Lengths /\ chapters = ChaptersBlock
  BY DEF ChaptersInv
<1>3. C \in Nat /\ C >= 2 /\ C \in 1 .. C
  BY RenderingAssumption
<1>4. seconds \in Nat /\ fade \in Nat
  BY <1>2, <1>3, ChapterDrift
<1>5. video.mix = Heard(C - 1, seconds, fade)
  BY <1>1
<1>6. /\ video.mix.parts =
           [i \in 1 .. C |-> [track |-> i, from |-> (i - 1) * (seconds - fade)]]
      /\ video.mix.length = C * seconds - (C - 1) * fade
  <2>1. (C - 1) + 1 = C
    BY <1>3
  <2> QED
    BY <1>5, <2>1 DEF Heard
<1>7. Len(chapters) = C /\ DOMAIN chapters = 1 .. C /\ Len(video.mix.parts) = C
  BY <1>2, <1>3, <1>6 DEF ChaptersBlock
<1>8. ASSUME NEW i \in 1 .. C
      PROVE  LET at == AsSeconds(chapters[i])
                 heard == video.mix.parts
             IN /\ heard[i].track = i
                /\ heard[i].from <= at
                /\ at < IF i = Len(heard) THEN video.mix.length ELSE heard[i + 1].from
                /\ \A k \in DOMAIN chapters[i] : k > 1 => chapters[i][k] < 60
                /\ Len(chapters[i]) = 3 => chapters[i][1] > 0
  <2> DEFINE t == seconds * (i - 1)
             heard == video.mix.parts
  <2>1. /\ t \in Nat /\ (i - 1) * (seconds - fade) <= t
        /\ t < i * (seconds - fade)
        /\ t < i * seconds - (i - 1) * fade
        /\ i \in Nat
    BY <1>2, ChapterDrift
  <2>2. chapters[i] = Timestamp(t)
    BY <1>2 DEF ChaptersBlock
  <2>3. /\ AsSeconds(chapters[i]) = t
        /\ \A k \in DOMAIN chapters[i] : k > 1 => chapters[i][k] < 60
        /\ Len(chapters[i]) = 3 => chapters[i][1] > 0
    BY <2>1, <2>2, StampIsTime
  <2>4. heard[i].track = i /\ heard[i].from = (i - 1) * (seconds - fade)
    BY <1>6
  <2>5. CASE i = C
    BY <1>6, <1>7, <2>1, <2>3, <2>4, <2>5
  <2>6. CASE i # C
    <3>1. i + 1 \in 1 .. C /\ (i + 1) - 1 = i
      BY <1>3, <2>1, <2>6
    <3>2. heard[i + 1].from = i * (seconds - fade)
      BY <1>6, <3>1
    <3> HIDE DEF t
    <3> QED
      BY <1>7, <2>1, <2>3, <2>4, <2>6, <3>2
  <2> QED
    BY <2>5, <2>6
<1>9. video.duration = video.mix.length
  <2> DEFINE x == C * seconds - fade * (C - 1)
  <2>1. seconds * (C - 1) \in Nat /\ seconds * (C - 1) < C * seconds - (C - 1) * fade
    BY <1>2, <1>3, ChapterDrift
  <2>2. x = C * seconds - (C - 1) * fade /\ x \in Nat /\ x > 0
    BY <1>3, <1>4, <2>1
  <2>3. Max({0, x}) = x
    <3> HIDE DEF x
    <3> QED
      BY <2>2, MaxOfTwo
  <2>4. video.duration = Max({0, x})
    BY <1>1 DEF Estimate
  <2> QED
    BY <1>6, <2>2, <2>3, <2>4
<1> QED
  BY <1>7, <1>8, <1>9 DEF ChapterIsInItsTrack

\* Nothing is finished at first.
LEMMA ChaptersInit == RenderingInit => ChaptersInv
  BY DEF RenderingInit, ChaptersInv

\* Each artifact is written once and then left alone.
LEMMA ChaptersNext == ChaptersInv /\ [RenderingNext]_renderVars => ChaptersInv'
<1> SUFFICES ASSUME ChaptersInv, [RenderingNext]_renderVars
             PROVE  ChaptersInv'
  OBVIOUS
<1>0. ASSUME UNCHANGED seconds
      PROVE  ChaptersBlock' = ChaptersBlock
             /\ \A fade : Estimate(fade)' = Estimate(fade)
  BY <1>0 DEF ChaptersBlock, Estimate
<1>1. CASE Describe
  BY <1>0, <1>1 DEF Describe, ChaptersInv
<1>2. ASSUME NEW text, NEW small, ComposeThumbnail(text, small)
      PROVE  ChaptersInv'
  BY <1>0, <1>2 DEF ComposeThumbnail, ChaptersInv
<1>3. ASSUME NEW fade, ComposeVideo(fade)
      PROVE  ChaptersInv'
  <2>1. CASE fade \in FadeMin .. FadeMax
    <3>1. video' = [is |-> "file", mix |-> Mix(fade), duration |-> Estimate(fade)]
          /\ making' = "done" /\ making = "video" /\ UNCHANGED <<seconds, chapters>>
      BY <1>3, <2>1 DEF ComposeVideo
    <3>2. Mix(fade) = Heard(Chapters - 1, seconds, fade)
      <4>1. seconds \in Nat /\ fade \in Nat
        BY <2>1, ChapterDrift, FirstChapter DEF ChaptersInv
      <4> QED
        BY <4>1, MixHeard
    <3>3. chapters' = ChaptersBlock' /\ seconds' \in Lengths
      BY <1>0, <3>1 DEF ChaptersInv
    <3> QED
      BY <1>0, <2>1, <3>1, <3>2, <3>3 DEF ChaptersInv
  <2>2. CASE fade \notin FadeMin .. FadeMax
    BY <1>3, <2>2 DEF ComposeVideo, ChaptersInv
  <2> QED
    BY <2>1, <2>2
<1>4. CASE RenderingFails
  BY <1>4 DEF RenderingFails, ChaptersInv
<1>5. CASE UNCHANGED renderVars
  <2>1. UNCHANGED <<making, seconds, chapters, video>>
    BY <1>5 DEF renderVars
  <2>2. making' = "done" => \E fade \in FadeMin .. FadeMax :
          video' = [is |-> "file", mix |-> Heard(Chapters - 1, seconds', fade),
                    duration |-> Estimate(fade)']
    BY <1>0, <2>1 DEF ChaptersInv
  <2> QED
    BY <1>0, <2>1, <2>2 DEF ChaptersInv
<1> QED
  BY <1>1, <1>2, <1>3, <1>4, <1>5 DEF RenderingNext

\* However long the tracks are and however often they are faded into each other,
\* the chapters of a finished post point into their own tracks and read as times
\* of day, and its video is as long as it is said to be.
THEOREM ChaptersPoint == RenderingSpec => []ChapterIsInItsTrack
  BY ChaptersInit, ChaptersNext, ChaptersFit, PTL DEF RenderingSpec

-----------------------------------------------------------------------------
(* Rendering: the headline. *)

\* What is drawn.
Marks == Glyphs \cup {"dots"}

\* The beginning of a text.
LEMMA FirstOf ==
  ASSUME NEW text \in Seq(Marks), NEW n \in 0 .. Len(text)
  PROVE  /\ First(text, n) \in Seq(Marks)
         /\ Len(First(text, n)) = n
         /\ \A i \in 1 .. n : First(text, n)[i] = text[i]
         /\ text \in Seq(Glyphs) => First(text, n) \in Seq(Glyphs)
<1>1. n \in Int /\ 1 \in Int /\ Len(text) \in Nat /\ \A i \in 1 .. n : i \in 1 .. Len(text)
  OBVIOUS
<1>2. \A i \in 1 .. n : text[i] \in Marks
  BY <1>1
<1>3. text \in Seq(Glyphs) => \A i \in 1 .. n : text[i] \in Glyphs
  BY <1>1
<1>4. n - 1 + 1 = n /\ (n < 1 => n = 0) /\ \A i \in 1 .. n : 1 + i - 1 = i
  BY <1>1
<1> QED
  BY <1>1, <1>2, <1>3, <1>4, SubSeqProperties DEF First

\* The places that count twice.
WideIn(text) == {i \in DOMAIN text : text[i] = "wide"}

\* They are no more than there are glyphs.
LEMMA WideCount ==
  ASSUME NEW text \in Seq(Marks)
  PROVE  /\ WideIn(text) \in SUBSET (1 .. Len(text))
         /\ IsFiniteSet(WideIn(text))
         /\ Cardinality(WideIn(text)) \in 0 .. Len(text)
         /\ TextWidth(text) = Len(text) + Cardinality(WideIn(text))
<1>1. Len(text) \in Nat /\ DOMAIN text = 1 .. Len(text)
  OBVIOUS
<1>2. IsFiniteSet(1 .. Len(text)) /\ Cardinality(1 .. Len(text)) = Len(text)
  <2>1. 1 \in Int /\ Len(text) \in Int
    BY <1>1
  <2>2. IsFiniteSet(1 .. Len(text))
    BY <2>1, FS_Interval
  <2>3. Cardinality(1 .. Len(text)) = IF 1 > Len(text) THEN 0 ELSE Len(text) - 1 + 1
    BY <2>1, FS_Interval
  <2> QED
    BY <1>1, <2>2, <2>3
<1>3. WideIn(text) \in SUBSET (1 .. Len(text))
  BY <1>1 DEF WideIn
<1>4. IsFiniteSet(WideIn(text)) /\ Cardinality(WideIn(text)) <= Len(text)
  BY <1>2, <1>3, FS_Subset
<1>5. Cardinality(WideIn(text)) \in Nat
  BY <1>4, FS_CardinalityType
<1>6. TextWidth(text) = Len(text) + Cardinality(WideIn(text))
  BY DEF TextWidth, WideIn
<1> QED
  BY <1>1, <1>3, <1>4, <1>5, <1>6

\* A text that starts another is as wide as it or narrower.
LEMMA WidthGrows ==
  ASSUME NEW text \in Seq(Marks), NEW n \in 0 .. Len(text)
  PROVE  /\ TextWidth(text) \in Nat
         /\ TextWidth(First(text, n)) \in Nat
         /\ TextWidth(First(text, n)) <= TextWidth(text)
         /\ Len(text) <= TextWidth(text) /\ TextWidth(text) <= 2 * Len(text)
<1> DEFINE t == First(text, n)
<1>1. t \in Seq(Marks) /\ Len(t) = n /\ \A i \in 1 .. n : t[i] = text[i]
  BY FirstOf
<1> HIDE DEF t
<1>2. WideIn(t) \in SUBSET WideIn(text)
  <2>1. DOMAIN t = 1 .. n /\ DOMAIN text = 1 .. Len(text) /\ Len(text) \in Nat
    BY <1>1
  <2>2. \A i \in 1 .. n : i \in 1 .. Len(text)
    BY <2>1
  <2> QED
    BY <1>1, <2>1, <2>2 DEF WideIn
<1>3. Cardinality(WideIn(t)) <= Cardinality(WideIn(text))
  BY <1>2, WideCount, FS_Subset
<1>4. TextWidth(t) = n + Cardinality(WideIn(t)) /\ Cardinality(WideIn(t)) \in 0 .. n
  BY <1>1, WideCount
<1>5. TextWidth(text) = Len(text) + Cardinality(WideIn(text))
      /\ Cardinality(WideIn(text)) \in 0 .. Len(text)
  BY WideCount
<1>6. Len(text) \in Nat
  OBVIOUS
<1> QED
  BY <1>3, <1>4, <1>5, <1>6 DEF t

\* The ellipsis is one wide.
LEMMA WidthOfDots ==
  ASSUME NEW text \in Seq(Marks)
  PROVE  TextWidth(Append(text, "dots")) = TextWidth(text) + 1
<1> DEFINE t == Append(text, "dots")
<1>1. /\ t \in Seq(Marks) /\ Len(t) = Len(text) + 1 /\ Len(text) \in Nat
      /\ \A i \in 1 .. Len(text) : t[i] = text[i]
      /\ t[Len(text) + 1] = "dots"
  BY AppendProperties DEF Marks
<1> HIDE DEF t
<1>2. WideIn(t) = WideIn(text)
  <2>1. DOMAIN t = 1 .. Len(text) + 1 /\ DOMAIN text = 1 .. Len(text)
    BY <1>1
  <2>2. \A i : i \in 1 .. Len(text) + 1 <=> i \in 1 .. Len(text) \/ i = Len(text) + 1
    BY <1>1
  <2> QED
    BY <1>1, <2>1, <2>2 DEF WideIn
<1>3. TextWidth(t) = Len(t) + Cardinality(WideIn(t))
      /\ TextWidth(text) = Len(text) + Cardinality(WideIn(text))
      /\ Cardinality(WideIn(text)) \in 0 .. Len(text)
  BY <1>1, WideCount
<1> QED
  BY <1>1, <1>2, <1>3 DEF t

-----------------------------------------------------------------------------
(* What is shown of lines, and how it grows. *)

\* Without its ellipsis a line is a line, and all of it when it has none.
LEMMA BareMarks ==
  ASSUME NEW line \in Seq(Marks)
  PROVE  /\ Bare(line) \in Seq(Marks)
         /\ line \in Seq(Glyphs) => Bare(line) = line
<1>1. Len(line) \in Nat /\ (line # <<>> => Len(line) \in 1 .. Len(line) /\ Len(line) - 1 \in 0 .. Len(line))
  OBVIOUS
<1>2. line # <<>> => Front(line) \in Seq(Marks)
  BY <1>1, FirstOf DEF Front, First
<1>3. line \in Seq(Glyphs) /\ line # <<>> => Last(line) # "dots"
  BY <1>1 DEF Last, Glyphs
<1> QED
  BY <1>2, <1>3 DEF Bare

\* The ellipsis is told from the text before it.
LEMMA BareOfDots ==
  ASSUME NEW text \in Seq(Glyphs)
  PROVE  /\ Append(text, "dots") \in Seq(Marks)
         /\ Bare(Append(text, "dots")) = text
         /\ Append(text, "dots") # text
<1> DEFINE t == Append(text, "dots")
<1>0. text \in Seq(Marks)
  BY SeqMonotonic DEF Marks
<1>1. /\ t \in Seq(Marks) /\ Len(t) = Len(text) + 1 /\ Len(text) \in Nat /\ t # <<>>
      /\ \A i \in 1 .. Len(text) : t[i] = text[i]
      /\ t[Len(text) + 1] = "dots"
  BY <1>0, AppendProperties DEF Marks
<1> HIDE DEF t
<1>2. Last(t) = "dots"
  BY <1>1 DEF Last
<1>3. Front(t) = text
  <2>1. Front(t) = First(t, Len(text)) /\ Len(text) \in 0 .. Len(t)
    <3>1. (Len(text) + 1) - 1 = Len(text) /\ Len(text) \in 0 .. Len(text) + 1
      BY <1>1
    <3> QED
      BY <1>1, <3>1 DEF Front, First
  <2>2. /\ First(t, Len(text)) \in Seq(Marks) /\ Len(First(t, Len(text))) = Len(text)
        /\ \A i \in 1 .. Len(text) : First(t, Len(text))[i] = t[i]
    BY <1>1, <2>1, FirstOf
  <2>3. First(t, Len(text)) = text
    <3> DEFINE u == First(t, Len(text))
    <3>1. u \in Seq(Marks) /\ Len(u) = Len(text) /\ \A i \in 1 .. Len(u) : u[i] = text[i]
      BY <1>1, <2>2
    <3> HIDE DEF u
    <3>2. u = text
      BY <1>0, <3>1, SeqEqual
    <3> QED
      BY <3>2 DEF u
  <2> QED
    BY <2>1, <2>3
<1>4. t # text
  BY <1>1
<1> QED
  BY <1>1, <1>2, <1>3, <1>4 DEF t, Bare

\* What is shown of the lines comes line by line.
LEMMA ShownTurns ==
  ASSUME NEW lines \in Seq(Seq(Marks))
  PROVE  \E F : /\ F[0] = <<>>
                /\ \A k \in Nat : k + 1 <= Len(lines) => F[k + 1] = F[k] \o Bare(lines[k + 1])
                /\ F[Len(lines)] = Shown(lines)
                /\ \A k \in 0 .. Len(lines) : F[k] \in Seq(Marks)
<1> DEFINE n == Len(lines)
           V == Seq(Marks)
           step == [v \in V \X (1 .. n) |-> v[1] \o Bare(lines[v[2]])]
           h == CHOOSE k : k = [s \in SUBSET DOMAIN lines |-> IF s = {} THEN <<>>
                  ELSE k[s \ {Max(s)}] \o Bare(lines[Max(s)])]
           F == [k \in Nat |-> h[1 .. k]]
<1>1. Shown(lines) = h[DOMAIN lines]
  BY Zenon DEF Shown, FoldLeft, MapThenFoldSet
<1>2. n \in Nat /\ DOMAIN lines = 1 .. n /\ \A i \in 1 .. n : Bare(lines[i]) \in V
  BY BareMarks
<1>3. <<>> \in V
  OBVIOUS
<1>4. \A v \in V, i \in 1 .. n : v \o Bare(lines[i]) \in V
  BY <1>2
<1> HIDE DEF V, n
<1>5. PICK g \in [SUBSET (1 .. n) -> V] : LeftFold(g, <<>>, step, n)
  <2>1. step \in [V \X (1 .. n) -> V]
    BY <1>4
  <2> HIDE DEF step
  <2> QED
    BY <1>2, <1>3, <2>1, FoldExists
<1>6. g = [s \in SUBSET DOMAIN lines |-> IF s = {} THEN <<>>
             ELSE g[s \ {Max(s)}] \o Bare(lines[Max(s)])]
  <2>1. ASSUME NEW s \in SUBSET (1 .. n), s # {}
        PROVE  step[<<g[s \ {Max(s)}], Max(s)>>] = g[s \ {Max(s)}] \o Bare(lines[Max(s)])
    <3>1. Max(s) \in 1 .. n
      BY <1>2, <2>1, MaxIsIn
    <3>2. g[s \ {Max(s)}] \in V
      BY <1>5
    <3> QED
      BY <3>1, <3>2
  <2>2. g = [s \in SUBSET (1 .. n) |-> IF s = {} THEN <<>>
               ELSE step[<<g[s \ {Max(s)}], Max(s)>>]]
    BY <1>5 DEF LeftFold
  <2> HIDE DEF step
  <2> QED
    BY <1>2, <2>1, <2>2
<1>7. h = [s \in SUBSET DOMAIN lines |-> IF s = {} THEN <<>>
             ELSE h[s \ {Max(s)}] \o Bare(lines[Max(s)])]
  BY <1>6, Zenon
<1> HIDE DEF h, step
<1>8. F[0] = <<>>
  BY <1>7
<1>9. ASSUME NEW k \in Nat, k + 1 <= n
      PROVE  F[k + 1] = F[k] \o Bare(lines[k + 1])
  <2>1. 1 .. k + 1 \in SUBSET (1 .. n) /\ 1 .. k + 1 # {} /\ k + 1 \in 1 .. k + 1
    BY <1>2, <1>9, FirstPlaces
  <2>2. Max(1 .. k + 1) = k + 1
    BY <2>1, LastIsMax
  <2>3. (1 .. k + 1) \ {k + 1} = 1 .. k
    OBVIOUS
  <2>4. h[1 .. k + 1] = h[(1 .. k + 1) \ {Max(1 .. k + 1)}] \o Bare(lines[Max(1 .. k + 1)])
    BY <1>2, <1>7, <2>1
  <2>5. F[k] = h[1 .. k] /\ F[k + 1] = h[1 .. k + 1]
    OBVIOUS
  <2> QED
    BY <2>2, <2>3, <2>4, <2>5
<1>10. F[n] = Shown(lines)
  BY <1>1, <1>2
<1> HIDE DEF F
<1>11. \A k \in 0 .. n : F[k] \in V
  <2> DEFINE T == {k \in Nat : k <= n => F[k] \in V}
  <2>1. 0 \in T
    BY <1>3, <1>8
  <2>2. ASSUME NEW k \in T
        PROVE  k + 1 \in T
    <3>1. ASSUME k + 1 <= n
          PROVE  F[k + 1] \in V
      <4>1. F[k] \in V /\ k + 1 \in 1 .. n
        BY <1>2, <3>1
      <4> QED
        BY <1>4, <1>9, <3>1, <4>1
    <3> QED
      BY <3>1
  <2> HIDE DEF T
  <2>3. T = Nat
    <3>1. T \in SUBSET Nat
      BY DEF T
    <3> QED
      BY <2>1, <2>2, <3>1, AllNumbers
  <2> QED
    BY <1>2, <2>3 DEF T
<1> QED
  BY <1>8, <1>9, <1>10, <1>11, Zenon DEF n, V

\* No lines show nothing.
LEMMA ShownNothing == Shown(<<>>) = <<>>
<1>1. <<>> \in Seq(Seq(Marks)) /\ Len(<<>>) = 0
  OBVIOUS
<1> QED
  BY <1>1, ShownTurns

\* A line more is shown after the others.
LEMMA ShownAppend ==
  ASSUME NEW lines \in Seq(Seq(Marks)), NEW line \in Seq(Marks)
  PROVE  /\ Shown(lines) \in Seq(Marks)
         /\ Shown(Append(lines, line)) = Shown(lines) \o Bare(line)
<1> DEFINE n == Len(lines)
           more == Append(lines, line)
<1>1. /\ more \in Seq(Seq(Marks)) /\ Len(more) = n + 1 /\ n \in Nat
      /\ \A i \in 1 .. n : more[i] = lines[i]
      /\ more[n + 1] = line
  BY AppendProperties
<1> HIDE DEF more
<1>2. PICK F : /\ F[0] = <<>>
               /\ \A k \in Nat : k + 1 <= n => F[k + 1] = F[k] \o Bare(lines[k + 1])
               /\ F[n] = Shown(lines)
               /\ \A k \in 0 .. n : F[k] \in Seq(Marks)
  BY ShownTurns
<1>3. PICK G : /\ G[0] = <<>>
               /\ \A k \in Nat : k + 1 <= n + 1 => G[k + 1] = G[k] \o Bare(more[k + 1])
               /\ G[n + 1] = Shown(more)
  BY <1>1, ShownTurns
<1> DEFINE T == {k \in Nat : k <= n => F[k] = G[k]}
<1>4. 0 \in T
  BY <1>2, <1>3
<1>5. ASSUME NEW k \in T
      PROVE  k + 1 \in T
  <2>1. ASSUME k + 1 <= n
        PROVE  F[k + 1] = G[k + 1]
    <3>1. F[k] = G[k] /\ k \in Nat /\ k + 1 <= n + 1 /\ k + 1 \in 1 .. n
      BY <1>1, <2>1
    <3>2. F[k + 1] = F[k] \o Bare(lines[k + 1]) /\ G[k + 1] = G[k] \o Bare(more[k + 1])
      BY <1>2, <1>3, <2>1, <3>1
    <3> QED
      BY <1>1, <3>1, <3>2
  <2> QED
    BY <2>1
<1> HIDE DEF T
<1>6. T = Nat
  <2>1. T \in SUBSET Nat
    BY DEF T
  <2> QED
    BY <1>4, <1>5, <2>1, AllNumbers
<1>7. G[n] = Shown(lines)
  <2>1. n \in T /\ n <= n
    BY <1>1, <1>6
  <2> QED
    BY <1>2, <2>1 DEF T
<1>8. Shown(more) = G[n] \o Bare(more[n + 1])
  <2>1. n \in Nat /\ n + 1 <= n + 1
    BY <1>1
  <2> QED
    BY <1>3, <2>1
<1>9. Shown(lines) \in Seq(Marks)
  BY <1>1, <1>2
<1> QED
  BY <1>1, <1>7, <1>8, <1>9 DEF more

-----------------------------------------------------------------------------
(* One cut of a text that is too wide. *)

\* A text may be drawn.
LEMMA GlyphsAreMarks ==
  /\ \A text \in Seq(Glyphs) : text \in Seq(Marks)
  /\ \A lines \in Seq(Seq(Glyphs)) : lines \in Seq(Seq(Marks))
<1>1. Glyphs \subseteq Marks
  BY DEF Marks
<1>2. Seq(Glyphs) \subseteq Seq(Marks)
  BY <1>1, SeqMonotonic
<1> QED
  BY <1>2, SeqMonotonic

\* A line that fits, but for one glyph.
FitsButOne(line) == line # <<>> /\ ~ TooWide(First(line, Len(line) - 1))
\* And all of them.
AllFit(lines) == \A i \in DOMAIN lines : FitsButOne(lines[i])

\* A line that is not too wide is one of them.
LEMMA NarrowFits ==
  ASSUME NEW text \in Seq(Glyphs), text # <<>>, ~ TooWide(text)
  PROVE  FitsButOne(text)
<1>1. text \in Seq(Marks) /\ Len(text) - 1 \in 0 .. Len(text)
  BY GlyphsAreMarks
<1>2. /\ TextWidth(text) \in Nat
      /\ TextWidth(First(text, Len(text) - 1)) \in Nat
      /\ TextWidth(First(text, Len(text) - 1)) <= TextWidth(text)
  BY <1>1, WidthGrows
<1>3. MaxWidth \in Nat
  BY RenderingAssumption
<1> QED
  BY <1>2, <1>3 DEF FitsButOne, TooWide

\* They stay so when one is added.
LEMMA AllFitAppend ==
  ASSUME NEW lines \in Seq(Seq(Glyphs)), NEW line \in Seq(Glyphs),
         AllFit(lines), FitsButOne(line)
  PROVE  AllFit(Append(lines, line))
<1> DEFINE n == Len(lines)
           more == Append(lines, line)
<1>1. /\ more \in Seq(Seq(Glyphs)) /\ Len(more) = n + 1 /\ n \in Nat
      /\ \A i \in 1 .. n : more[i] = lines[i]
      /\ more[n + 1] = line
  BY AppendProperties
<1> HIDE DEF more
<1>2. DOMAIN more = 1 .. n + 1 /\ DOMAIN lines = 1 .. n
  BY <1>1
<1>3. \A i \in 1 .. n + 1 : i \in 1 .. n \/ i = n + 1
  BY <1>1
<1>4. AllFit(more)
  BY <1>1, <1>2, <1>3 DEF AllFit
<1> QED
  BY <1>4 DEF more

\* The part that is cut off is not empty, and fits but for one glyph.
LEMMA MaxPrefixFits ==
  ASSUME NEW text \in Seq(Glyphs), TooWide(text)
  PROVE  /\ Len(text) > 1
         /\ MaxPrefix(text) \in 1 .. Len(text)
         /\ ~ TooWide(First(text, MaxPrefix(text) - 1))
<1> DEFINE over == {i \in 1 .. Len(text) - 1 : TooWide(First(text, i))}
<1>0. text \in Seq(Marks) /\ Len(text) \in Nat /\ MaxWidth \in Nat /\ MaxWidth >= 2
  BY GlyphsAreMarks, RenderingAssumption
<1>1. \A i \in 0 .. Len(text) : ~ TooWide(First(text, i)) <=> TextWidth(First(text, i)) <= MaxWidth
  BY <1>0, WidthGrows DEF TooWide
<1>2. Len(text) > 1
  <2>1. 0 \in 0 .. Len(text)
    BY <1>0
  <2>2. TextWidth(text) \in Nat /\ TextWidth(text) <= 2 * Len(text)
    BY <1>0, <2>1, WidthGrows
  <2> QED
    BY <1>0, <2>2 DEF TooWide
<1>3. CASE over = {}
  <2>1. MaxPrefix(text) = Len(text)
    BY <1>3 DEF MaxPrefix
  <2>2. Len(text) - 1 \in 1 .. Len(text) - 1
    BY <1>0, <1>2
  <2>3. ~ TooWide(First(text, Len(text) - 1))
    BY <1>3, <2>2
  <2> QED
    BY <1>0, <1>2, <2>1, <2>3
<1>4. CASE over # {}
  <2> DEFINE m == Min(over) - 1
  <2>0. over \in SUBSET Nat
    BY <1>0
  <2>1. Min(over) \in over /\ \A x \in over : Min(over) <= x
    BY <1>4, <2>0, MinIsLeast
  <2>2. m \in Nat /\ m + 1 <= Len(text) - 1 /\ \A x \in over : m + 1 <= x
    <3> DEFINE least == Min(over)
    <3>1. least \in 1 .. Len(text) - 1 /\ \A x \in over : least <= x
      BY <2>1
    <3> HIDE DEF least, over
    <3>2. least - 1 \in Nat /\ (least - 1) + 1 = least
      BY <1>0, <3>1
    <3> QED
      BY <1>0, <3>1, <3>2 DEF least
  <2>3. MaxPrefix(text) = Max({1, m})
    BY <1>4 DEF MaxPrefix
  <2> HIDE DEF m
  <2>4. MaxPrefix(text) = IF 1 < m THEN m ELSE 1
    BY <2>2, <2>3, MaxOfTwo
  <2>5. CASE 1 < m
    <3>1. m - 1 \in 1 .. Len(text) - 1 /\ ~ (m + 1 <= m - 1)
      BY <1>0, <2>2, <2>5
    <3>2. m - 1 \notin over
      BY <2>2, <3>1
    <3> QED
      BY <1>0, <1>2, <2>2, <2>4, <2>5, <3>1, <3>2
  <2>6. CASE ~ (1 < m)
    <3>1. MaxPrefix(text) = 1 /\ 1 - 1 = 0 /\ 0 \in 0 .. Len(text)
      BY <1>0, <2>4, <2>6
    <3>2. First(text, 0) \in Seq(Marks) /\ Len(First(text, 0)) = 0
      BY <1>0, <3>1, FirstOf
    <3>3. TextWidth(First(text, 0)) \in Nat /\ TextWidth(First(text, 0)) <= 2 * 0
      <4>1. 0 \in 0 .. Len(First(text, 0))
        BY <3>2
      <4> QED
        BY <3>2, <4>1, WidthGrows
    <3>4. ~ TooWide(First(text, 0))
      BY <1>0, <3>3 DEF TooWide
    <3> QED
      BY <1>0, <1>2, <3>1, <3>4
  <2> QED
    BY <2>5, <2>6
<1> QED
  BY <1>2, <1>3, <1>4

\* What the wrapping has so far, and the text it has taken in.
Wraps == [lines : Seq(Seq(Glyphs)), rest : Seq(Glyphs)]
AllOf(wrap) == Shown(wrap.lines) \o wrap.rest

\* A cut loses nothing, the line it makes fits, and the rest gets shorter.
LEMMA CutOnceKeeps ==
  ASSUME NEW wrap \in Wraps
  PROVE  /\ CutOnce(wrap) \in Wraps
         /\ AllOf(CutOnce(wrap)) = AllOf(wrap)
         /\ AllFit(wrap.lines) => AllFit(CutOnce(wrap).lines)
         /\ ~ TooWide(wrap.rest) => CutOnce(wrap) = wrap
         /\ TooWide(wrap.rest) => Len(CutOnce(wrap).rest) + 1 <= Len(wrap.rest)
<1>0. wrap.lines \in Seq(Seq(Glyphs)) /\ wrap.rest \in Seq(Glyphs)
  BY DEF Wraps
<1>1. CASE ~ TooWide(wrap.rest)
  <2>1. CutOnce(wrap) = wrap
    BY <1>1 DEF CutOnce
  <2> QED
    BY <1>1, <2>1
<1>2. CASE TooWide(wrap.rest)
  <2> DEFINE rest == wrap.rest
             n == MaxPrefix(rest)
             a == First(rest, n)
             b == SubSeq(rest, n + 1, Len(rest))
             more == Append(wrap.lines, a)
  <2>0. Len(rest) > 1 /\ n \in 1 .. Len(rest) /\ ~ TooWide(First(rest, n - 1)) /\ Len(rest) \in Nat
        /\ rest \in Seq(Glyphs) /\ rest \in Seq(Marks)
    BY <1>0, <1>2, MaxPrefixFits, GlyphsAreMarks
  <2>1. CutOnce(wrap) = [lines |-> more, rest |-> b]
    BY <1>2, <2>0 DEF CutOnce
  <2> HIDE DEF n, rest
  <2>2. a \in Seq(Glyphs) /\ Len(a) = n
    BY <2>0, FirstOf
  <2>3. b \in Seq(Glyphs) /\ Len(b) + 1 <= Len(rest)
    <3>1. n + 1 \in Int /\ Len(rest) \in Int /\ \A i \in n + 1 .. Len(rest) : i \in 1 .. Len(rest)
      BY <2>0
    <3>2. \A i \in n + 1 .. Len(rest) : rest[i] \in Glyphs
      BY <2>0, <3>1
    <3>3. b \in Seq(Glyphs) /\ Len(b) = IF n + 1 <= Len(rest) THEN Len(rest) - (n + 1) + 1 ELSE 0
      BY <3>1, <3>2, SubSeqProperties
    <3> QED
      BY <2>0, <3>3
  <2>4. a \o b = rest
    <3>1. 1 \in 1 .. Len(rest) + 1 /\ n \in 1 - 1 .. Len(rest) /\ Len(rest) \in n .. Len(rest)
      BY <2>0
    <3>2. SubSeq(rest, 1, n) \o SubSeq(rest, n + 1, Len(rest)) = SubSeq(rest, 1, Len(rest))
      BY <2>0, <3>1, ConcatAdjacentSubSeq
    <3>3. SubSeq(rest, 1, Len(rest)) = rest
      BY <2>0, SubSeqFull
    <3> QED
      BY <3>2, <3>3 DEF First
  <2>5. FitsButOne(a)
    <3>1. a # <<>>
      BY <2>0, <2>2
    <3>2. First(a, n - 1) = First(rest, n - 1)
      <4>1. n - 1 \in 0 .. n /\ n - 1 \in 0 .. Len(rest) /\ n \in 0 .. Len(rest)
        BY <2>0
      <4> DEFINE u == First(a, n - 1)
                 v == First(rest, n - 1)
      <4>2. u \in Seq(Marks) /\ Len(u) = n - 1 /\ \A i \in 1 .. n - 1 : u[i] = a[i]
        BY <2>2, <4>1, FirstOf, GlyphsAreMarks
      <4>3. v \in Seq(Marks) /\ Len(v) = n - 1 /\ \A i \in 1 .. n - 1 : v[i] = rest[i]
        BY <2>0, <4>1, FirstOf
      <4>4. \A i \in 1 .. n : a[i] = rest[i]
        BY <2>0, <4>1, FirstOf
      <4>5. \A i \in 1 .. n - 1 : i \in 1 .. n
        BY <2>0
      <4> HIDE DEF u, v, a
      <4>6. u = v
        BY <4>2, <4>3, <4>4, <4>5, SeqEqual
      <4> QED
        BY <4>6 DEF u, v
    <3> HIDE DEF a
    <3> QED
      BY <2>0, <2>2, <3>1, <3>2 DEF FitsButOne
  <2> HIDE DEF a, b
  <2>6. more \in Seq(Seq(Glyphs)) /\ (AllFit(wrap.lines) => AllFit(more))
    BY <1>0, <2>2, <2>5, AllFitAppend
  <2>7. Shown(more) \o b = Shown(wrap.lines) \o rest
    <3>1. a \in Seq(Marks) /\ b \in Seq(Marks) /\ wrap.lines \in Seq(Seq(Marks))
      BY <1>0, <2>2, <2>3, GlyphsAreMarks
    <3>2. Shown(wrap.lines) \in Seq(Marks) /\ Shown(more) = Shown(wrap.lines) \o Bare(a)
      BY <3>1, ShownAppend
    <3>3. Bare(a) = a
      BY <2>2, <3>1, BareMarks
    <3>4. (Shown(wrap.lines) \o a) \o b = Shown(wrap.lines) \o (a \o b)
      BY <3>1, <3>2, ConcatAssociative
    <3> QED
      BY <2>4, <3>2, <3>3, <3>4
  <2> HIDE DEF more
  <2>8. CutOnce(wrap).lines = more /\ CutOnce(wrap).rest = b
    BY <2>1
  <2>9. CutOnce(wrap) \in Wraps
    BY <2>1, <2>3, <2>6 DEF Wraps
  <2> QED
    BY <1>2, <2>3, <2>6, <2>7, <2>8, <2>9 DEF AllOf, rest
<1> QED
  BY <1>1, <1>2

-----------------------------------------------------------------------------
(* Words, and the cuts of a word. *)

\* What _tokenize_for_wrap has so far.
Cuts == [tokens : Seq(Seq(Glyphs)), buffer : Seq(Glyphs)]

\* And after one glyph more.
LEMMA TakeGlyphType ==
  ASSUME NEW cut \in Cuts, NEW glyph \in Glyphs
  PROVE  TakeGlyph(cut, glyph) \in Cuts
<1> DEFINE buffer == Append(cut.buffer, glyph)
<1>1. buffer \in Seq(Glyphs) /\ Append(cut.tokens, buffer) \in Seq(Seq(Glyphs)) /\ <<>> \in Seq(Glyphs)
  BY DEF Cuts
<1> HIDE DEF buffer
<1>2. TakeGlyph(cut, glyph) = IF glyph = "space"
        THEN [tokens |-> Append(cut.tokens, buffer), buffer |-> <<>>]
        ELSE [cut EXCEPT !.buffer = buffer]
  BY DEF TakeGlyph, buffer
<1> QED
  BY <1>1, <1>2 DEF Cuts

\* _tokenize_for_wrap takes one glyph after the other.
LEMMA TokenTurns ==
  ASSUME NEW text \in Seq(Glyphs)
  PROVE  \E F : /\ F[0] = [tokens |-> <<>>, buffer |-> <<>>]
                /\ \A k \in Nat : k + 1 <= Len(text) => F[k + 1] = TakeGlyph(F[k], text[k + 1])
                /\ F[Len(text)] = FoldLeft(TakeGlyph, [tokens |-> <<>>, buffer |-> <<>>], text)
                /\ \A k \in 0 .. Len(text) : F[k] \in Cuts
<1> DEFINE n == Len(text)
           first == [tokens |-> <<>>, buffer |-> <<>>]
           step == [v \in Cuts \X (1 .. n) |-> TakeGlyph(v[1], text[v[2]])]
           h == CHOOSE k : k = [s \in SUBSET DOMAIN text |-> IF s = {} THEN first
                  ELSE TakeGlyph(k[s \ {Max(s)}], text[Max(s)])]
           F == [k \in Nat |-> h[1 .. k]]
<1>1. FoldLeft(TakeGlyph, [tokens |-> <<>>, buffer |-> <<>>], text) = h[DOMAIN text]
  BY Zenon DEF FoldLeft, MapThenFoldSet
<1>2. n \in Nat /\ DOMAIN text = 1 .. n
  OBVIOUS
<1>3. first \in Cuts
  BY DEF Cuts
<1>4. \A v \in Cuts, i \in 1 .. n : TakeGlyph(v, text[i]) \in Cuts
  BY TakeGlyphType
<1> HIDE DEF n, first
<1>5. PICK g \in [SUBSET (1 .. n) -> Cuts] : LeftFold(g, first, step, n)
  <2>1. step \in [Cuts \X (1 .. n) -> Cuts]
    BY <1>4
  <2> HIDE DEF step
  <2> QED
    BY <1>2, <1>3, <2>1, FoldExists
<1>6. g = [s \in SUBSET DOMAIN text |-> IF s = {} THEN first
             ELSE TakeGlyph(g[s \ {Max(s)}], text[Max(s)])]
  <2>1. ASSUME NEW s \in SUBSET (1 .. n), s # {}
        PROVE  step[<<g[s \ {Max(s)}], Max(s)>>] = TakeGlyph(g[s \ {Max(s)}], text[Max(s)])
    <3>1. Max(s) \in 1 .. n
      BY <1>2, <2>1, MaxIsIn
    <3>2. g[s \ {Max(s)}] \in Cuts
      BY <1>5
    <3> QED
      BY <3>1, <3>2
  <2>2. g = [s \in SUBSET (1 .. n) |-> IF s = {} THEN first
               ELSE step[<<g[s \ {Max(s)}], Max(s)>>]]
    BY <1>5 DEF LeftFold
  <2> HIDE DEF step
  <2> QED
    BY <1>2, <2>1, <2>2
<1>7. h = [s \in SUBSET DOMAIN text |-> IF s = {} THEN first
             ELSE TakeGlyph(h[s \ {Max(s)}], text[Max(s)])]
  BY <1>6, Zenon
<1> HIDE DEF h, step
<1>8. F[0] = first
  BY <1>7
<1>9. ASSUME NEW k \in Nat, k + 1 <= n
      PROVE  F[k + 1] = TakeGlyph(F[k], text[k + 1])
  <2>1. 1 .. k + 1 \in SUBSET (1 .. n) /\ 1 .. k + 1 # {} /\ k + 1 \in 1 .. k + 1
    BY <1>2, <1>9, FirstPlaces
  <2>2. Max(1 .. k + 1) = k + 1
    BY <2>1, LastIsMax
  <2>3. (1 .. k + 1) \ {k + 1} = 1 .. k
    OBVIOUS
  <2>4. h[1 .. k + 1] = TakeGlyph(h[(1 .. k + 1) \ {Max(1 .. k + 1)}], text[Max(1 .. k + 1)])
    BY <1>2, <1>7, <2>1
  <2>5. F[k] = h[1 .. k] /\ F[k + 1] = h[1 .. k + 1]
    OBVIOUS
  <2> QED
    BY <2>2, <2>3, <2>4, <2>5
<1>10. F[n] = FoldLeft(TakeGlyph, [tokens |-> <<>>, buffer |-> <<>>], text)
  BY <1>1, <1>2
<1> HIDE DEF F
<1>11. \A k \in 0 .. n : F[k] \in Cuts
  <2> DEFINE T == {k \in Nat : k <= n => F[k] \in Cuts}
  <2>1. 0 \in T
    BY <1>3, <1>8
  <2>2. ASSUME NEW k \in T
        PROVE  k + 1 \in T
    <3>1. ASSUME k + 1 <= n
          PROVE  F[k + 1] \in Cuts
      <4>1. F[k] \in Cuts /\ k + 1 \in 1 .. n
        BY <1>2, <3>1
      <4> QED
        BY <1>4, <1>9, <3>1, <4>1
    <3> QED
      BY <3>1
  <2> HIDE DEF T
  <2>3. T = Nat
    <3>1. T \in SUBSET Nat
      BY DEF T
    <3> QED
      BY <2>1, <2>2, <3>1, AllNumbers
  <2> QED
    BY <1>2, <2>3 DEF T
<1> QED
  BY <1>8, <1>9, <1>10, <1>11, Zenon DEF n, first

\* What AddWord starts to cut.
Added(wrap, word) ==
  LET both == wrap.rest \o word
  IN IF ~ TooWide(both) \/ wrap.rest = <<>>
       THEN [wrap EXCEPT !.rest = both]
       ELSE [lines |-> Append(wrap.lines, wrap.rest), rest |-> word]

\* It is one of them.
LEMMA AddedType ==
  ASSUME NEW wrap \in Wraps, NEW word \in Seq(Glyphs)
  PROVE  Added(wrap, word) \in Wraps
<1> DEFINE both == wrap.rest \o word
           more == Append(wrap.lines, wrap.rest)
<1>1. wrap.lines \in Seq(Seq(Glyphs)) /\ wrap.rest \in Seq(Glyphs)
  BY DEF Wraps
<1>2. both \in Seq(Glyphs) /\ more \in Seq(Seq(Glyphs))
  BY <1>1, ConcatProperties, AppendProperties
<1> HIDE DEF both, more
<1>3. Added(wrap, word) = IF ~ TooWide(both) \/ wrap.rest = <<>>
        THEN [wrap EXCEPT !.rest = both] ELSE [lines |-> more, rest |-> word]
  BY DEF Added, both, more
<1>4. [wrap EXCEPT !.rest = both] \in Wraps /\ [lines |-> more, rest |-> word] \in Wraps
  BY <1>2 DEF Wraps
<1> QED
  BY <1>3, <1>4

\* A word is cut as often as it may have to be.
LEMMA CutTurns ==
  ASSUME NEW wrap \in Wraps, NEW word \in Seq(Glyphs)
  PROVE  \E F : /\ F[0] = Added(wrap, word)
                /\ \A k \in Nat : k + 1 <= Len(word) => F[k + 1] = CutOnce(F[k])
                /\ F[Len(word)] = AddWord(wrap, word)
                /\ \A k \in 0 .. Len(word) : F[k] \in Wraps
<1> DEFINE n == Len(word)
           first == Added(wrap, word)
           step == [v \in Wraps \X (1 .. n) |-> CutOnce(v[1])]
           h == CHOOSE k : k = [s \in SUBSET DOMAIN word |-> IF s = {} THEN first
                  ELSE CutOnce(k[s \ {Max(s)}])]
           F == [k \in Nat |-> h[1 .. k]]
<1>1. AddWord(wrap, word) = h[DOMAIN word]
  BY Zenon DEF AddWord, Added, FoldLeft, MapThenFoldSet
<1>2. n \in Nat /\ DOMAIN word = 1 .. n
  OBVIOUS
<1>3. first \in Wraps
  BY AddedType
<1>4. \A v \in Wraps, i \in 1 .. n : CutOnce(v) \in Wraps
  BY CutOnceKeeps
<1> HIDE DEF n, first
<1>5. PICK g \in [SUBSET (1 .. n) -> Wraps] : LeftFold(g, first, step, n)
  <2>1. step \in [Wraps \X (1 .. n) -> Wraps]
    BY <1>4
  <2> HIDE DEF step
  <2> QED
    BY <1>2, <1>3, <2>1, FoldExists
<1>6. g = [s \in SUBSET DOMAIN word |-> IF s = {} THEN first
             ELSE CutOnce(g[s \ {Max(s)}])]
  <2>1. ASSUME NEW s \in SUBSET (1 .. n), s # {}
        PROVE  step[<<g[s \ {Max(s)}], Max(s)>>] = CutOnce(g[s \ {Max(s)}])
    <3>1. Max(s) \in 1 .. n
      BY <1>2, <2>1, MaxIsIn
    <3>2. g[s \ {Max(s)}] \in Wraps
      BY <1>5
    <3> QED
      BY <3>1, <3>2
  <2>2. g = [s \in SUBSET (1 .. n) |-> IF s = {} THEN first
               ELSE step[<<g[s \ {Max(s)}], Max(s)>>]]
    BY <1>5 DEF LeftFold
  <2> HIDE DEF step
  <2> QED
    BY <1>2, <2>1, <2>2
<1>7. h = [s \in SUBSET DOMAIN word |-> IF s = {} THEN first
             ELSE CutOnce(h[s \ {Max(s)}])]
  BY <1>6, Zenon
<1> HIDE DEF h, step
<1>8. F[0] = first
  BY <1>7
<1>9. ASSUME NEW k \in Nat, k + 1 <= n
      PROVE  F[k + 1] = CutOnce(F[k])
  <2>1. 1 .. k + 1 \in SUBSET (1 .. n) /\ 1 .. k + 1 # {} /\ k + 1 \in 1 .. k + 1
    BY <1>2, <1>9, FirstPlaces
  <2>2. Max(1 .. k + 1) = k + 1
    BY <2>1, LastIsMax
  <2>3. (1 .. k + 1) \ {k + 1} = 1 .. k
    OBVIOUS
  <2>4. h[1 .. k + 1] = CutOnce(h[(1 .. k + 1) \ {Max(1 .. k + 1)}])
    BY <1>2, <1>7, <2>1
  <2>5. F[k] = h[1 .. k] /\ F[k + 1] = h[1 .. k + 1]
    OBVIOUS
  <2> QED
    BY <2>2, <2>3, <2>4, <2>5
<1>10. F[n] = AddWord(wrap, word)
  BY <1>1, <1>2
<1> HIDE DEF F
<1>11. \A k \in 0 .. n : F[k] \in Wraps
  <2> DEFINE T == {k \in Nat : k <= n => F[k] \in Wraps}
  <2>1. 0 \in T
    BY <1>3, <1>8
  <2>2. ASSUME NEW k \in T
        PROVE  k + 1 \in T
    <3>1. ASSUME k + 1 <= n
          PROVE  F[k + 1] \in Wraps
      <4>1. F[k] \in Wraps /\ k + 1 \in 1 .. n
        BY <1>2, <3>1
      <4> QED
        BY <1>4, <1>9, <3>1, <4>1
    <3> QED
      BY <3>1
  <2> HIDE DEF T
  <2>3. T = Nat
    <3>1. T \in SUBSET Nat
      BY DEF T
    <3> QED
      BY <2>1, <2>2, <3>1, AllNumbers
  <2> QED
    BY <1>2, <2>3 DEF T
<1> QED
  BY <1>8, <1>9, <1>10, <1>11, Zenon DEF n, first

\* And so is a wrapping with one word more.
LEMMA AddWordType ==
  ASSUME NEW wrap \in Wraps, NEW word \in Seq(Glyphs)
  PROVE  AddWord(wrap, word) \in Wraps
<1>1. Len(word) \in 0 .. Len(word)
  OBVIOUS
<1> QED
  BY <1>1, CutTurns

\* _wrap_text takes one word after the other.
LEMMA WordTurns ==
  ASSUME NEW words \in Seq(Seq(Glyphs))
  PROVE  \E F : /\ F[0] = [lines |-> <<>>, rest |-> <<>>]
                /\ \A k \in Nat : k + 1 <= Len(words) => F[k + 1] = AddWord(F[k], words[k + 1])
                /\ F[Len(words)] = FoldLeft(AddWord, [lines |-> <<>>, rest |-> <<>>], words)
                /\ \A k \in 0 .. Len(words) : F[k] \in Wraps
<1> DEFINE n == Len(words)
           first == [lines |-> <<>>, rest |-> <<>>]
           step == [v \in Wraps \X (1 .. n) |-> AddWord(v[1], words[v[2]])]
           h == CHOOSE k : k = [s \in SUBSET DOMAIN words |-> IF s = {} THEN first
                  ELSE AddWord(k[s \ {Max(s)}], words[Max(s)])]
           F == [k \in Nat |-> h[1 .. k]]
<1>1. FoldLeft(AddWord, [lines |-> <<>>, rest |-> <<>>], words) = h[DOMAIN words]
  BY Zenon DEF FoldLeft, MapThenFoldSet
<1>2. n \in Nat /\ DOMAIN words = 1 .. n
  OBVIOUS
<1>3. first \in Wraps
  BY DEF Wraps
<1>4. \A v \in Wraps, i \in 1 .. n : AddWord(v, words[i]) \in Wraps
  BY AddWordType
<1> HIDE DEF n, first
<1>5. PICK g \in [SUBSET (1 .. n) -> Wraps] : LeftFold(g, first, step, n)
  <2>1. step \in [Wraps \X (1 .. n) -> Wraps]
    BY <1>4
  <2> HIDE DEF step
  <2> QED
    BY <1>2, <1>3, <2>1, FoldExists
<1>6. g = [s \in SUBSET DOMAIN words |-> IF s = {} THEN first
             ELSE AddWord(g[s \ {Max(s)}], words[Max(s)])]
  <2>1. ASSUME NEW s \in SUBSET (1 .. n), s # {}
        PROVE  step[<<g[s \ {Max(s)}], Max(s)>>] = AddWord(g[s \ {Max(s)}], words[Max(s)])
    <3>1. Max(s) \in 1 .. n
      BY <1>2, <2>1, MaxIsIn
    <3>2. g[s \ {Max(s)}] \in Wraps
      BY <1>5
    <3> QED
      BY <3>1, <3>2
  <2>2. g = [s \in SUBSET (1 .. n) |-> IF s = {} THEN first
               ELSE step[<<g[s \ {Max(s)}], Max(s)>>]]
    BY <1>5 DEF LeftFold
  <2> HIDE DEF step
  <2> QED
    BY <1>2, <2>1, <2>2
<1>7. h = [s \in SUBSET DOMAIN words |-> IF s = {} THEN first
             ELSE AddWord(h[s \ {Max(s)}], words[Max(s)])]
  BY <1>6, Zenon
<1> HIDE DEF h, step
<1>8. F[0] = first
  BY <1>7
<1>9. ASSUME NEW k \in Nat, k + 1 <= n
      PROVE  F[k + 1] = AddWord(F[k], words[k + 1])
  <2>1. 1 .. k + 1 \in SUBSET (1 .. n) /\ 1 .. k + 1 # {} /\ k + 1 \in 1 .. k + 1
    BY <1>2, <1>9, FirstPlaces
  <2>2. Max(1 .. k + 1) = k + 1
    BY <2>1, LastIsMax
  <2>3. (1 .. k + 1) \ {k + 1} = 1 .. k
    OBVIOUS
  <2>4. h[1 .. k + 1] = AddWord(h[(1 .. k + 1) \ {Max(1 .. k + 1)}], words[Max(1 .. k + 1)])
    BY <1>2, <1>7, <2>1
  <2>5. F[k] = h[1 .. k] /\ F[k + 1] = h[1 .. k + 1]
    OBVIOUS
  <2> QED
    BY <2>2, <2>3, <2>4, <2>5
<1>10. F[n] = FoldLeft(AddWord, [lines |-> <<>>, rest |-> <<>>], words)
  BY <1>1, <1>2
<1> HIDE DEF F
<1>11. \A k \in 0 .. n : F[k] \in Wraps
  <2> DEFINE T == {k \in Nat : k <= n => F[k] \in Wraps}
  <2>1. 0 \in T
    BY <1>3, <1>8
  <2>2. ASSUME NEW k \in T
        PROVE  k + 1 \in T
    <3>1. ASSUME k + 1 <= n
          PROVE  F[k + 1] \in Wraps
      <4>1. F[k] \in Wraps /\ k + 1 \in 1 .. n
        BY <1>2, <3>1
      <4> QED
        BY <1>4, <1>9, <3>1, <4>1
    <3> QED
      BY <3>1
  <2> HIDE DEF T
  <2>3. T = Nat
    <3>1. T \in SUBSET Nat
      BY DEF T
    <3> QED
      BY <2>1, <2>2, <3>1, AllNumbers
  <2> QED
    BY <1>2, <2>3 DEF T
<1> QED
  BY <1>8, <1>9, <1>10, <1>11, Zenon DEF n, first

-----------------------------------------------------------------------------
(* The text stays whole. *)

\* Texts may be joined in any order.
LEMMA Regrouped ==
  \A a, b, c \in Seq(Marks) : (a \o b) \o c = a \o (b \o c)
BY ConcatAssociative

\* A glyph is added to what the words and the open word are together.
LEMMA TakeGlyphKeeps ==
  ASSUME NEW cut \in Cuts, NEW glyph \in Glyphs
  PROVE  /\ Shown(cut.tokens) \o cut.buffer \in Seq(Marks)
         /\ LET next == TakeGlyph(cut, glyph)
            IN Shown(next.tokens) \o next.buffer = (Shown(cut.tokens) \o cut.buffer) \o <<glyph>>
<1> DEFINE buffer == Append(cut.buffer, glyph)
           more == Append(cut.tokens, buffer)
           next == TakeGlyph(cut, glyph)
<1>1. cut.buffer \in Seq(Glyphs) /\ cut.tokens \in Seq(Seq(Glyphs)) /\ glyph \in Marks
  BY DEF Cuts, Marks
<1>2. buffer \in Seq(Glyphs) /\ buffer = cut.buffer \o <<glyph>> /\ <<glyph>> \in Seq(Glyphs)
  BY <1>1, AppendProperties, AppendIsConcat
<1>3. Shown(cut.tokens) \in Seq(Marks) /\ cut.buffer \in Seq(Marks) /\ <<glyph>> \in Seq(Marks)
      /\ buffer \in Seq(Marks) /\ cut.tokens \in Seq(Seq(Marks))
  BY <1>1, <1>2, GlyphsAreMarks, ShownAppend
<1> HIDE DEF buffer
<1>4. Shown(more) = Shown(cut.tokens) \o buffer
  BY <1>2, <1>3, ShownAppend, BareMarks
<1>5. (Shown(cut.tokens) \o cut.buffer) \o <<glyph>> = Shown(cut.tokens) \o buffer
  <2>1. (Shown(cut.tokens) \o cut.buffer) \o <<glyph>> = Shown(cut.tokens) \o (cut.buffer \o <<glyph>>)
    <3>1. Shown(cut.tokens) \in Seq(Marks) /\ cut.buffer \in Seq(Marks) /\ <<glyph>> \in Seq(Marks)
      BY <1>3
    <3> QED
      BY <3>1, Regrouped, ZenonT(60)
  <2> QED
    BY <1>2, <2>1
<1>6. Shown(cut.tokens) \o buffer \in Seq(Marks) /\ Shown(cut.tokens) \o cut.buffer \in Seq(Marks)
  BY <1>3, ConcatProperties
<1>7. (Shown(cut.tokens) \o buffer) \o <<>> = Shown(cut.tokens) \o buffer
  BY <1>6, ConcatEmptySeq
<1>8. next = IF glyph = "space" THEN [tokens |-> more, buffer |-> <<>>]
             ELSE [cut EXCEPT !.buffer = buffer]
  BY DEF TakeGlyph, buffer
<1> HIDE DEF more, next
<1>9. CASE glyph = "space"
  <2>1. next.tokens = more /\ next.buffer = <<>>
    BY <1>8, <1>9
  <2>2. Shown(next.tokens) \o next.buffer = (Shown(cut.tokens) \o cut.buffer) \o <<glyph>>
    BY <1>4, <1>5, <1>7, <2>1
  <2> QED
    BY <1>6, <2>2 DEF next
<1>10. CASE glyph # "space"
  <2>1. next.tokens = cut.tokens /\ next.buffer = buffer
    BY <1>8, <1>10 DEF Cuts
  <2>2. Shown(next.tokens) \o next.buffer = (Shown(cut.tokens) \o cut.buffer) \o <<glyph>>
    BY <1>5, <2>1
  <2> QED
    BY <1>6, <2>2 DEF next
<1> QED
  BY <1>9, <1>10

\* _tokenize_for_wrap: the words, one after the other, are the text.
LEMMA WordsAreText ==
  ASSUME NEW text \in Seq(Glyphs)
  PROVE  WordsOf(text) \in Seq(Seq(Glyphs)) /\ Shown(WordsOf(text)) = text
<1> DEFINE n == Len(text)
           cut == FoldLeft(TakeGlyph, [tokens |-> <<>>, buffer |-> <<>>], text)
           Whole(c) == Shown(c.tokens) \o c.buffer
<1>0. n \in Nat /\ text \in Seq(Marks)
  BY GlyphsAreMarks
<1>1. PICK F : /\ F[0] = [tokens |-> <<>>, buffer |-> <<>>]
               /\ \A k \in Nat : k + 1 <= n => F[k + 1] = TakeGlyph(F[k], text[k + 1])
               /\ F[n] = cut
               /\ \A k \in 0 .. n : F[k] \in Cuts
  BY TokenTurns
<1> DEFINE T == {k \in Nat : k <= n => Whole(F[k]) = First(text, k)}
<1>2. 0 \in T
  <2>1. Whole(F[0]) = Shown(<<>>) \o <<>>
    BY <1>1
  <2>2. Shown(<<>>) \o <<>> = <<>>
    BY ShownNothing
  <2>3. First(text, 0) = <<>>
    BY SubSeqEmpty DEF First
  <2> QED
    BY <2>1, <2>2, <2>3
<1>3. ASSUME NEW k \in T
      PROVE  k + 1 \in T
  <2> HIDE DEF Whole
  <2>0. k \in Nat /\ k + 1 \in Nat /\ (k <= n => Whole(F[k]) = First(text, k))
    OBVIOUS
  <2> USE DEF Whole
  <2> HIDE DEF T
  <2>1. ASSUME k + 1 <= n
        PROVE  Whole(F[k + 1]) = First(text, k + 1)
    <3>1. k \in Nat /\ k \in 0 .. n /\ k + 1 \in 1 .. n /\ k <= n
      BY <1>0, <2>0, <2>1
    <3>2. Whole(F[k]) = First(text, k) /\ F[k] \in Cuts /\ text[k + 1] \in Glyphs
      <4>1. text[k + 1] \in Glyphs
        BY <3>1
      <4> HIDE DEF Whole, n
      <4> QED
        BY <1>1, <2>0, <3>1, <4>1
    <3>3. Whole(F[k + 1]) = Whole(F[k]) \o <<text[k + 1]>>
      BY <1>1, <2>1, <3>1, <3>2, TakeGlyphKeeps
    <3>4. First(text, k + 1) = First(text, k) \o <<text[k + 1]>>
      <4>1. 1 \in 1 .. n /\ k + 1 \in 1 .. n /\ (k + 1) - 1 = k
        BY <3>1
      <4> QED
        BY <4>1, SubSeqRecursiveSecond DEF First
    <3> QED
      BY <3>2, <3>3, <3>4
  <2> HIDE DEF Whole
  <2> QED
    BY <2>0, <2>1 DEF T
<1> HIDE DEF T
<1>4. T = Nat
  <2>1. T \in SUBSET Nat
    BY DEF T
  <2> QED
    BY <1>2, <1>3, <2>1, AllNumbers
<1> HIDE DEF cut
<1>5. Whole(cut) = text /\ cut \in Cuts
  <2>1. n \in T /\ n <= n /\ n \in 0 .. n
    BY <1>0, <1>4
  <2>2. Whole(F[n]) = First(text, n)
    BY <2>1 DEF T
  <2>3. First(text, n) = text
    BY SubSeqFull DEF First
  <2> QED
    BY <1>1, <2>1, <2>2, <2>3
<1>6. cut.buffer \in Seq(Glyphs) /\ cut.tokens \in Seq(Seq(Glyphs))
      /\ cut.buffer \in Seq(Marks) /\ cut.tokens \in Seq(Seq(Marks))
  BY <1>5, GlyphsAreMarks DEF Cuts
<1>7. WordsOf(text) = IF cut.buffer = <<>> THEN cut.tokens ELSE Append(cut.tokens, cut.buffer)
  BY DEF WordsOf, cut
<1>8. CASE cut.buffer = <<>>
  BY <1>5, <1>6, <1>7, <1>8, ShownAppend, ConcatEmptySeq
<1>9. CASE cut.buffer # <<>>
  <2>1. Shown(Append(cut.tokens, cut.buffer)) = Shown(cut.tokens) \o cut.buffer
    BY <1>6, ShownAppend, BareMarks
  <2> QED
    BY <1>5, <1>6, <1>7, <1>9, <2>1
<1> QED
  BY <1>8, <1>9

\* Before it is cut, a word is added whole, and only a word of its own may be too wide.
LEMMA AddedKeeps ==
  ASSUME NEW wrap \in Wraps, NEW word \in Seq(Glyphs),
         ~ TooWide(wrap.rest), AllFit(wrap.lines)
  PROVE  /\ AllOf(Added(wrap, word)) = AllOf(wrap) \o word
         /\ AllFit(Added(wrap, word).lines)
         /\ ~ TooWide(Added(wrap, word).rest) \/ Added(wrap, word).rest = word
<1> DEFINE both == wrap.rest \o word
           more == Append(wrap.lines, wrap.rest)
           new == Added(wrap, word)
<1>1. wrap.lines \in Seq(Seq(Glyphs)) /\ wrap.rest \in Seq(Glyphs)
  BY DEF Wraps
<1>2. Shown(wrap.lines) \in Seq(Marks) /\ wrap.rest \in Seq(Marks) /\ word \in Seq(Marks)
      /\ wrap.lines \in Seq(Seq(Marks))
  BY <1>1, GlyphsAreMarks, ShownAppend
<1>3. AllOf(wrap) \o word = Shown(wrap.lines) \o both
  <2>1. (Shown(wrap.lines) \o wrap.rest) \o word = Shown(wrap.lines) \o (wrap.rest \o word)
    <3>1. Shown(wrap.lines) \in Seq(Marks) /\ wrap.rest \in Seq(Marks) /\ word \in Seq(Marks)
      BY <1>2
    <3> QED
      BY <3>1, Regrouped, ZenonT(60)
  <2> QED
    BY <2>1 DEF AllOf
<1>4. Shown(more) = Shown(wrap.lines) \o wrap.rest
  BY <1>1, <1>2, ShownAppend, BareMarks
<1>5. new = IF ~ TooWide(both) \/ wrap.rest = <<>>
        THEN [wrap EXCEPT !.rest = both] ELSE [lines |-> more, rest |-> word]
  BY DEF Added
<1> HIDE DEF both, more, new
<1>6. CASE ~ TooWide(both) \/ wrap.rest = <<>>
  <2>1. new.lines = wrap.lines /\ new.rest = both
    BY <1>5, <1>6 DEF Wraps
  <2>2. wrap.rest = <<>> => both = word
    BY <1>2, ConcatEmptySeq DEF both
  <2> QED
    BY <1>3, <1>6, <2>1, <2>2 DEF AllOf, new
<1>7. CASE ~ (~ TooWide(both) \/ wrap.rest = <<>>)
  <2>1. new.lines = more /\ new.rest = word
    BY <1>5, <1>7
  <2>2. AllFit(more)
    BY <1>1, <1>7, NarrowFits, AllFitAppend DEF more
  <2>3. AllOf(new) = AllOf(wrap) \o word
    BY <1>4, <2>1 DEF AllOf
  <2> QED
    BY <2>1, <2>2, <2>3 DEF new
<1> QED
  BY <1>6, <1>7

\* A word is added whole, and what is left over fits a line.
LEMMA AddWordKeeps ==
  ASSUME NEW wrap \in Wraps, NEW word \in Seq(Glyphs),
         ~ TooWide(wrap.rest), AllFit(wrap.lines)
  PROVE  /\ AddWord(wrap, word) \in Wraps
         /\ AllOf(AddWord(wrap, word)) = AllOf(wrap) \o word
         /\ AllFit(AddWord(wrap, word).lines)
         /\ ~ TooWide(AddWord(wrap, word).rest)
<1> DEFINE n == Len(word)
           all == AllOf(wrap) \o word
<1>0. n \in Nat
  OBVIOUS
<1>1. PICK F : /\ F[0] = Added(wrap, word)
               /\ \A k \in Nat : k + 1 <= n => F[k + 1] = CutOnce(F[k])
               /\ F[n] = AddWord(wrap, word)
               /\ \A k \in 0 .. n : F[k] \in Wraps
  BY CutTurns
<1> HIDE DEF all
<1> DEFINE Good(w, k) == /\ AllOf(w) = all
                         /\ AllFit(w.lines)
                         /\ ~ TooWide(w.rest) \/ Len(w.rest) + k <= n
           T == {k \in Nat : k <= n => Good(F[k], k)}
<1>2. 0 \in T
  <2>1. n + 0 <= n
    BY <1>0
  <2> QED
    BY <1>1, <2>1, AddedKeeps DEF all
<1>3. ASSUME NEW k \in T
      PROVE  k + 1 \in T
  <2> HIDE DEF Good
  <2>0. k \in Nat /\ k + 1 \in Nat /\ (k <= n => Good(F[k], k))
    OBVIOUS
  <2> USE DEF Good
  <2> HIDE DEF T
  <2>1. ASSUME k + 1 <= n
        PROVE  Good(F[k + 1], k + 1)
    <3>1. k \in Nat /\ k \in 0 .. n /\ k + 1 \in 0 .. n /\ k <= n
      BY <1>0, <2>0, <2>1
    <3>2. Good(F[k], k) /\ F[k] \in Wraps /\ F[k + 1] \in Wraps /\ F[k + 1] = CutOnce(F[k])
      BY <1>1, <2>0, <2>1, <3>1
    <3>3. Len(F[k].rest) \in Nat /\ Len(F[k + 1].rest) \in Nat
      BY <3>2 DEF Wraps
    <3>4. AllOf(F[k + 1]) = all /\ AllFit(F[k + 1].lines)
      BY <3>2, CutOnceKeeps
    <3>5. CASE ~ TooWide(F[k].rest)
      BY <3>2, <3>4, <3>5, CutOnceKeeps
    <3>6. CASE TooWide(F[k].rest)
      <4>1. Len(F[k + 1].rest) + 1 <= Len(F[k].rest) /\ Len(F[k].rest) + k <= n
        BY <3>2, <3>6, CutOnceKeeps
      <4>2. Len(F[k + 1].rest) + (k + 1) <= n
        <5> DEFINE x == Len(F[k + 1].rest)
                   y == Len(F[k].rest)
        <5>1. x \in Nat /\ y \in Nat /\ x + 1 <= y /\ y + k <= n
          BY <3>3, <4>1
        <5> HIDE DEF x, y, n
        <5>2. x + (k + 1) <= n
          BY <1>0, <3>1, <5>1
        <5> QED
          BY <5>2 DEF x, n
      <4> QED
        BY <3>4, <4>2
    <3> QED
      BY <3>5, <3>6
  <2> HIDE DEF Good
  <2> QED
    BY <2>0, <2>1 DEF T
<1> HIDE DEF T
<1>4. T = Nat
  <2>1. T \in SUBSET Nat
    BY DEF T
  <2> QED
    BY <1>2, <1>3, <2>1, AllNumbers
<1>5. Good(F[n], n) /\ F[n] \in Wraps
  <2>1. n \in T /\ n <= n /\ n \in 0 .. n
    BY <1>0, <1>4
  <2> QED
    BY <1>1, <2>1 DEF T
<1>6. ~ TooWide(F[n].rest)
  <2> SUFFICES ASSUME Len(F[n].rest) + n <= n
               PROVE  ~ TooWide(F[n].rest)
    BY <1>5
  <2>1. F[n].rest \in Seq(Marks) /\ Len(F[n].rest) \in Nat
    BY <1>5, GlyphsAreMarks DEF Wraps
  <2>2. Len(F[n].rest) = 0 /\ 0 \in 0 .. Len(F[n].rest)
    BY <1>0, <2>1
  <2>3. TextWidth(F[n].rest) \in Nat /\ TextWidth(F[n].rest) <= 2 * Len(F[n].rest)
    BY <2>1, <2>2, WidthGrows
  <2>4. MaxWidth \in Nat
    BY RenderingAssumption
  <2> QED
    BY <2>2, <2>3, <2>4 DEF TooWide
<1> QED
  BY <1>1, <1>5, <1>6 DEF all

\* All lines of the text, before the last one gets an ellipsis.
LinesOf(text) ==
  LET wrap == FoldLeft(AddWord, [lines |-> <<>>, rest |-> <<>>], WordsOf(text))
  IN IF wrap.rest = <<>> THEN wrap.lines ELSE Append(wrap.lines, wrap.rest)

\* _wrap_text: the lines, one after the other, are the text, and each fits.
LEMMA LinesAreText ==
  ASSUME NEW text \in Seq(Glyphs)
  PROVE  /\ LinesOf(text) \in Seq(Seq(Glyphs))
         /\ Shown(LinesOf(text)) = text
         /\ AllFit(LinesOf(text))
<1> DEFINE words == WordsOf(text)
           n == Len(words)
           wrap == FoldLeft(AddWord, [lines |-> <<>>, rest |-> <<>>], words)
<1>0. words \in Seq(Seq(Glyphs)) /\ words \in Seq(Seq(Marks)) /\ Shown(words) = text
  BY WordsAreText, GlyphsAreMarks
<1> HIDE DEF words
<1>1. n \in Nat
  BY <1>0
<1>2. PICK F : /\ F[0] = [lines |-> <<>>, rest |-> <<>>]
               /\ \A k \in Nat : k + 1 <= n => F[k + 1] = AddWord(F[k], words[k + 1])
               /\ F[n] = wrap
               /\ \A k \in 0 .. n : F[k] \in Wraps
  BY <1>0, WordTurns
<1>3. PICK G : /\ G[0] = <<>>
               /\ \A k \in Nat : k + 1 <= n => G[k + 1] = G[k] \o Bare(words[k + 1])
               /\ G[n] = Shown(words)
  BY <1>0, ShownTurns
<1> HIDE DEF wrap, n
<1> DEFINE Good(w, all) == AllOf(w) = all /\ AllFit(w.lines) /\ ~ TooWide(w.rest)
           T == {k \in Nat : k <= n => Good(F[k], G[k])}
<1>4. 0 \in T
  <2>1. AllOf(F[0]) = Shown(<<>>) \o <<>> /\ F[0].lines = <<>> /\ F[0].rest = <<>>
    BY <1>2 DEF AllOf
  <2>2. Shown(<<>>) \o <<>> = <<>>
    BY ShownNothing
  <2>3. AllFit(<<>>)
    BY DEF AllFit
  <2>4. ~ TooWide(<<>>)
    <3>1. <<>> \in Seq(Marks) /\ Len(<<>>) = 0 /\ 0 \in 0 .. 0
      OBVIOUS
    <3>2. TextWidth(<<>>) \in Nat /\ TextWidth(<<>>) <= 2 * 0
      BY <3>1, WidthGrows
    <3>3. MaxWidth \in Nat
      BY RenderingAssumption
    <3> QED
      BY <3>2, <3>3 DEF TooWide
  <2> QED
    BY <1>2, <1>3, <2>1, <2>2, <2>3, <2>4
<1>5. ASSUME NEW k \in T
      PROVE  k + 1 \in T
  <2> HIDE DEF Good
  <2>0. k \in Nat /\ k + 1 \in Nat /\ (k <= n => Good(F[k], G[k]))
    OBVIOUS
  <2> HIDE DEF T
  <2>1. ASSUME k + 1 <= n
        PROVE  Good(F[k + 1], G[k + 1])
    <3>1. k \in 0 .. n /\ k + 1 \in 1 .. n /\ k <= n
      BY <1>1, <2>0, <2>1
    <3>2. words[k + 1] \in Seq(Glyphs)
      BY <1>0, <3>1 DEF n
    <3>3. Bare(words[k + 1]) = words[k + 1]
      BY <3>2, BareMarks, GlyphsAreMarks
    <3>4. Good(F[k], G[k]) /\ F[k] \in Wraps
      BY <1>2, <2>0, <3>1
    <3>5. F[k + 1] = AddWord(F[k], words[k + 1]) /\ G[k + 1] = G[k] \o words[k + 1]
      BY <1>2, <1>3, <2>0, <2>1, <3>3
    <3> QED
      BY <3>2, <3>4, <3>5, AddWordKeeps DEF Good
  <2> QED
    BY <2>0, <2>1 DEF T
<1> HIDE DEF T
<1>6. T = Nat
  <2>1. T \in SUBSET Nat
    BY DEF T
  <2> QED
    BY <1>4, <1>5, <2>1, AllNumbers
<1>7. AllOf(wrap) = text /\ AllFit(wrap.lines) /\ ~ TooWide(wrap.rest) /\ wrap \in Wraps
  <2>1. n \in T /\ n <= n /\ n \in 0 .. n
    BY <1>1, <1>6
  <2>2. Good(F[n], G[n])
    BY <2>1 DEF T
  <2> QED
    BY <1>0, <1>2, <1>3, <2>1, <2>2
<1>8. wrap.lines \in Seq(Seq(Glyphs)) /\ wrap.rest \in Seq(Glyphs)
      /\ wrap.lines \in Seq(Seq(Marks)) /\ wrap.rest \in Seq(Marks)
  BY <1>7, GlyphsAreMarks DEF Wraps
<1>9. LinesOf(text) = IF wrap.rest = <<>> THEN wrap.lines ELSE Append(wrap.lines, wrap.rest)
  BY DEF LinesOf, wrap, words
<1>10. CASE wrap.rest = <<>>
  <2>1. Shown(wrap.lines) \in Seq(Marks)
    BY <1>8, ShownAppend
  <2>2. Shown(wrap.lines) \o <<>> = Shown(wrap.lines)
    BY <2>1, ConcatEmptySeq
  <2> QED
    BY <1>7, <1>8, <1>9, <1>10, <2>2 DEF AllOf
<1>11. CASE wrap.rest # <<>>
  <2>1. Shown(Append(wrap.lines, wrap.rest)) = Shown(wrap.lines) \o wrap.rest
    BY <1>8, ShownAppend, BareMarks
  <2>2. AllFit(Append(wrap.lines, wrap.rest))
    BY <1>7, <1>8, <1>11, NarrowFits, AllFitAppend
  <2> QED
    BY <1>7, <1>8, <1>9, <1>11, <2>1, <2>2 DEF AllOf
<1> QED
  BY <1>10, <1>11

-----------------------------------------------------------------------------
(* Fewer lines show the beginning of the text. *)

\* A text that another goes on from.
Starts(s, t) == \E u \in Seq(Marks) : t = s \o u

\* Going on twice is going on.
LEMMA StartsOn ==
  ASSUME NEW a \in Seq(Marks), NEW b \in Seq(Marks), NEW c \in Seq(Marks),
         Starts(a, b), Starts(b, c)
  PROVE  Starts(a, c)
<1>1. PICK u \in Seq(Marks) : b = a \o u
  BY DEF Starts
<1>2. PICK v \in Seq(Marks) : c = b \o v
  BY DEF Starts
<1>3. (a \o u) \o v = a \o (u \o v)
  BY Regrouped, ZenonT(60)
<1>4. u \o v \in Seq(Marks)
  BY ConcatProperties
<1> QED
  BY <1>1, <1>2, <1>3, <1>4 DEF Starts

\* It is a prefix.
LEMMA StartsIsPrefix ==
  ASSUME NEW s \in Seq(Marks), NEW t \in Seq(Marks), Starts(s, t)
  PROVE  IsPrefix(s, t) /\ Len(s) <= Len(t)
<1>1. PICK u \in Seq(Marks) : t = s \o u
  BY DEF Starts
<1>2. /\ Len(t) = Len(s) + Len(u) /\ Len(s) \in Nat /\ Len(u) \in Nat
      /\ \A i \in 1 .. Len(s) + Len(u) : t[i] = IF i <= Len(s) THEN s[i] ELSE u[i - Len(s)]
  BY <1>1, ConcatProperties
<1>3. Len(s) \in 0 .. Len(s) /\ Len(s) \in 0 .. Len(t)
  BY <1>2
<1> DEFINE a == First(s, Len(s))
           b == First(t, Len(s))
<1>4. a \in Seq(Marks) /\ Len(a) = Len(s) /\ \A i \in 1 .. Len(s) : a[i] = s[i]
  BY <1>3, FirstOf
<1>5. b \in Seq(Marks) /\ Len(b) = Len(s) /\ \A i \in 1 .. Len(s) : b[i] = t[i]
  BY <1>3, FirstOf
<1>6. \A i \in 1 .. Len(s) : t[i] = s[i]
  BY <1>2
<1> HIDE DEF a, b
<1>7. a = b
  BY <1>4, <1>5, <1>6, SeqEqual
<1> QED
  BY <1>2, <1>7 DEF IsPrefix, a, b, First

\* The first n + 1 lines are the first n and one more.
LEMMA OneMoreLine ==
  ASSUME NEW lines \in Seq(Seq(Glyphs)), NEW n \in Nat, n + 1 <= Len(lines)
  PROVE  /\ First(lines, n) \in Seq(Seq(Glyphs)) /\ Len(First(lines, n)) = n
         /\ \A i \in 1 .. n : First(lines, n)[i] = lines[i]
         /\ lines[n + 1] \in Seq(Glyphs)
         /\ First(lines, n + 1) = Append(First(lines, n), lines[n + 1])
         /\ First(lines, n + 1) \in Seq(Seq(Glyphs))
         /\ Shown(First(lines, n)) \in Seq(Marks)
         /\ Shown(First(lines, n + 1)) \in Seq(Marks)
         /\ Shown(First(lines, n + 1)) = Shown(First(lines, n)) \o lines[n + 1]
<1>0. Len(lines) \in Nat /\ n \in 0 .. Len(lines) /\ n + 1 \in 1 .. Len(lines) /\ 1 \in 1 .. Len(lines)
      /\ n \in Int /\ 1 \in Int /\ (n + 1) - 1 = n
      /\ \A i \in 1 .. n : i \in 1 .. Len(lines)
  OBVIOUS
<1> DEFINE a == First(lines, n)
           line == lines[n + 1]
<1>1. line \in Seq(Glyphs) /\ line \in Seq(Marks)
  BY <1>0, GlyphsAreMarks
<1>2. a \in Seq(Seq(Glyphs)) /\ Len(a) = n /\ \A i \in 1 .. n : a[i] = lines[i]
  <2>1. \A i \in 1 .. n : lines[i] \in Seq(Glyphs)
    BY <1>0
  <2>2. n - 1 + 1 = n /\ (~ (1 <= n) => n = 0) /\ \A i \in 1 .. n : 1 + i - 1 = i
    BY <1>0
  <2> QED
    BY <1>0, <2>1, <2>2, SubSeqProperties DEF First
<1>3. First(lines, n + 1) = a \o <<line>>
  BY <1>0, SubSeqRecursiveSecond DEF First
<1> HIDE DEF a, line
<1>4. Append(a, line) = a \o <<line>> /\ Append(a, line) \in Seq(Seq(Glyphs))
  BY <1>1, <1>2, AppendIsConcat, AppendProperties
<1>5. a \in Seq(Seq(Marks))
  BY <1>2, GlyphsAreMarks
<1>6. Shown(a) \in Seq(Marks) /\ Shown(Append(a, line)) = Shown(a) \o line
  BY <1>1, <1>5, ShownAppend, BareMarks
<1>7. Shown(a) \o line \in Seq(Marks)
  BY <1>1, <1>6, ConcatProperties
<1> QED
  BY <1>1, <1>2, <1>3, <1>4, <1>6, <1>7 DEF a, line

\* The text goes on from its first lines.
LEMMA FirstLinesStart ==
  ASSUME NEW lines \in Seq(Seq(Glyphs)), NEW m \in Nat, m + 1 <= Len(lines)
  PROVE  Starts(Shown(First(lines, m + 1)), Shown(lines))
<1> DEFINE all == Shown(First(lines, m + 1))
           T == {d \in Nat : m + 1 + d <= Len(lines) => Starts(all, Shown(First(lines, m + 1 + d)))}
<1>0. Len(lines) \in Nat /\ all \in Seq(Marks)
  <2>1. Shown(First(lines, m + 1)) \in Seq(Marks)
    BY OneMoreLine
  <2> QED
    BY <2>1
<1>1. 0 \in T
  <2>1. all = all \o <<>> /\ <<>> \in Seq(Marks)
    BY <1>0, ConcatEmptySeq
  <2>2. m + 1 + 0 = m + 1
    OBVIOUS
  <2> QED
    BY <2>1, <2>2 DEF Starts
<1>2. ASSUME NEW d \in T
      PROVE  d + 1 \in T
  <2> HIDE DEF all
  <2>0. d \in Nat /\ d + 1 \in Nat
        /\ (m + 1 + d <= Len(lines) => Starts(all, Shown(First(lines, m + 1 + d))))
    OBVIOUS
  <2> HIDE DEF T
  <2>1. ASSUME m + 1 + (d + 1) <= Len(lines)
        PROVE  Starts(all, Shown(First(lines, m + 1 + (d + 1))))
    <3> DEFINE k == m + 1 + d
    <3>1. k \in Nat /\ k + 1 <= Len(lines) /\ k <= Len(lines) /\ m + 1 + (d + 1) = k + 1
      BY <1>0, <2>0, <2>1
    <3>2. Starts(all, Shown(First(lines, k)))
      BY <2>0, <3>1
    <3> HIDE DEF k
    <3>3. /\ Shown(First(lines, k)) \in Seq(Marks) /\ Shown(First(lines, k + 1)) \in Seq(Marks)
          /\ lines[k + 1] \in Seq(Marks)
          /\ Shown(First(lines, k + 1)) = Shown(First(lines, k)) \o lines[k + 1]
      BY <3>1, OneMoreLine, GlyphsAreMarks
    <3>4. Starts(Shown(First(lines, k)), Shown(First(lines, k + 1)))
      BY <3>3 DEF Starts
    <3>5. Starts(all, Shown(First(lines, k + 1)))
      BY <1>0, <3>2, <3>3, <3>4, StartsOn
    <3> QED
      BY <3>1, <3>5
  <2> QED
    BY <2>0, <2>1 DEF T
<1> HIDE DEF T
<1>3. T = Nat
  <2>1. T \in SUBSET Nat
    BY DEF T
  <2> QED
    BY <1>1, <1>2, <2>1, AllNumbers
<1>4. Len(lines) - (m + 1) \in T /\ m + 1 + (Len(lines) - (m + 1)) = Len(lines)
  BY <1>0, <1>3
<1>5. First(lines, Len(lines)) = lines
  BY SubSeqFull DEF First
<1> QED
  BY <1>0, <1>4, <1>5 DEF T

-----------------------------------------------------------------------------
(* The headline fits. *)

\* What is left of a line before the ellipsis is narrower than the layout.
LEMMA EllipsisFits ==
  ASSUME NEW line \in Seq(Glyphs)
  PROVE  \E k \in 0 .. Len(line) : /\ Ellipsis(line) = Append(First(line, k), "dots")
                                   /\ TextWidth(First(line, k)) < MaxWidth
<1> DEFINE short == {n \in DOMAIN line : TextWidth(First(line, n)) < MaxWidth}
           k == Max({0} \cup short)
<1>0. line \in Seq(Marks) /\ Len(line) \in Nat /\ DOMAIN line = 1 .. Len(line)
      /\ MaxWidth \in Nat /\ MaxWidth >= 2 /\ 0 \in 0 .. Len(line)
  BY GlyphsAreMarks, RenderingAssumption
<1>1. {0} \cup short \in SUBSET (0 .. Len(line)) /\ {0} \cup short # {}
  <2>1. \A n \in 1 .. Len(line) : n \in 0 .. Len(line)
    BY <1>0
  <2> QED
    BY <1>0, <2>1
<1>2. k \in {0} \cup short
  <2> HIDE DEF short
  <2> QED
    BY <1>0, <1>1, MaxIsGreatest
<1>3. TextWidth(First(line, 0)) < MaxWidth
  <2>1. First(line, 0) \in Seq(Marks) /\ Len(First(line, 0)) = 0
    BY <1>0, FirstOf
  <2>2. 0 \in 0 .. Len(First(line, 0))
    BY <2>1
  <2>3. TextWidth(First(line, 0)) \in Nat /\ TextWidth(First(line, 0)) <= 2 * Len(First(line, 0))
    BY <2>1, <2>2, WidthGrows
  <2> QED
    BY <1>0, <2>1, <2>3
<1>4. Ellipsis(line) = Append(First(line, k), "dots")
  BY DEF Ellipsis
<1>5. k \in 0 .. Len(line) /\ (k = 0 \/ TextWidth(First(line, k)) < MaxWidth)
  BY <1>1, <1>2
<1> HIDE DEF k
<1> QED
  BY <1>3, <1>4, <1>5

\* The text fits the lines there are.
LEMMA ShortTextFits ==
  ASSUME NEW text \in Seq(Glyphs), Len(LinesOf(text)) <= MaxLines
  PROVE  LinesFit(LinesOf(text), text)
<1> DEFINE lines == LinesOf(text)
<1>1. lines \in Seq(Seq(Glyphs)) /\ Shown(lines) = text /\ AllFit(lines) /\ Len(lines) <= MaxLines
  BY LinesAreText
<1> HIDE DEF lines
<1>2. \A i \in DOMAIN lines : Bare(lines[i]) = lines[i]
  <2>1. \A i \in DOMAIN lines : lines[i] \in Seq(Glyphs)
    BY <1>1
  <2> QED
    BY <2>1, BareMarks, GlyphsAreMarks
<1>3. IsPrefix(text, text) /\ ~ (Len(text) < Len(text))
  <2>1. Len(text) \in Nat
    OBVIOUS
  <2> QED
    BY <2>1 DEF IsPrefix
<1>4. LinesFit(lines, text)
  BY <1>1, <1>2, <1>3 DEF LinesFit, AllFit, FitsButOne
<1> QED
  BY <1>4 DEF lines

LongerBy(n, s, t) == \E r \in Seq(Marks) : t = s \o r /\ Len(r) = n

LEMMA JoinedAgain ==
  ASSUME NEW s \in Seq(Marks), NEW p \in Seq(Marks), NEW q \in Seq(Marks),
         NEW next \in Seq(Marks), NEW u \in Seq(Marks)
  PROVE  LongerBy(Len(q) + (Len(next) + Len(u)), s \o p, ((s \o (p \o q)) \o next) \o u)
<1> DEFINE v == next \o u
           b == s \o p
           r == q \o v
<1>1. v \in Seq(Marks) /\ Len(v) = Len(next) + Len(u)
  BY ConcatProperties
<1>2. b \in Seq(Marks) /\ b \o q \in Seq(Marks)
  <2>1. b \in Seq(Marks)
    BY ConcatProperties
  <2> HIDE DEF b
  <2> QED
    BY <2>1, ConcatProperties
<1>3. s \o (p \o q) = b \o q
  <2>1. \A c, d \in Seq(Marks) : (s \o c) \o d = s \o (c \o d)
    BY Regrouped, ZenonT(60)
  <2>2. (s \o p) \o q = s \o (p \o q)
    BY <2>1, Zenon
  <2> QED
    BY <2>2, Zenon DEF b
<1> HIDE DEF b
<1>4. ((b \o q) \o next) \o u = (b \o q) \o v
  <2>1. \A c \in Seq(Marks) : (c \o next) \o u = c \o (next \o u)
    BY Regrouped, ZenonT(60)
  <2> QED
    BY <1>2, <2>1, Zenon
<1> HIDE DEF v
<1>5. r \in Seq(Marks) /\ Len(r) = Len(q) + Len(v)
  BY <1>1, ConcatProperties
<1>6. (b \o q) \o v = b \o r
  <2>1. \A c \in Seq(Marks) : (b \o q) \o c = b \o (q \o c)
    BY <1>2, Regrouped, ZenonT(60)
  <2> QED
    BY <1>1, <2>1, Zenon
<1> HIDE DEF r
<1>7. ((s \o (p \o q)) \o next) \o u = b \o r
  BY <1>3, <1>4, <1>6, Zenon
<1> QED
  BY <1>1, <1>5, <1>7 DEF b, LongerBy

\* A line of its own is added to the first ones: the text goes on after it.
LEMMA CutTextFits ==
  ASSUME NEW text \in Seq(Glyphs), ~ (Len(LinesOf(text)) <= MaxLines)
  PROVE  LinesFit([First(LinesOf(text), MaxLines) EXCEPT ![MaxLines] = Ellipsis(@)], text)
<1> DEFINE all == LinesOf(text)
           M == MaxLines
           m == MaxLines - 1
           a == First(all, m)
           line == all[M]
           next == all[M + 1]
           e == Ellipsis(line)
           lines == Append(a, e)
<1>0. all \in Seq(Seq(Glyphs)) /\ Shown(all) = text /\ AllFit(all) /\ ~ (Len(all) <= M)
  BY LinesAreText
<1> HIDE DEF all
<1>1. M \in Nat /\ m \in Nat /\ m + 1 = M /\ M >= 1 /\ Len(all) \in Nat /\ M + 1 <= Len(all) /\ M <= Len(all)
      /\ M \in 1 .. M
  BY <1>0, RenderingAssumption
<1> HIDE DEF M, m
<1>2. /\ a \in Seq(Seq(Glyphs)) /\ Len(a) = m
      /\ \A i \in 1 .. m : a[i] = all[i]
      /\ line \in Seq(Glyphs)
      /\ First(all, M) = Append(a, line)
      /\ First(all, M) \in Seq(Seq(Glyphs))
      /\ Shown(a) \in Seq(Marks)
      /\ Shown(First(all, M)) \in Seq(Marks)
      /\ Shown(First(all, M)) = Shown(a) \o line
  BY <1>0, <1>1, OneMoreLine
<1>3. /\ next \in Seq(Glyphs)
      /\ Shown(First(all, M + 1)) \in Seq(Marks)
      /\ Shown(First(all, M + 1)) = Shown(First(all, M)) \o next
      /\ Starts(Shown(First(all, M + 1)), text)
  BY <1>0, <1>1, OneMoreLine, FirstLinesStart
<1>4. next # <<>>
  <2>1. M + 1 \in DOMAIN all
    BY <1>0, <1>1
  <2> QED
    BY <1>0, <2>1 DEF AllFit, FitsButOne
<1> HIDE DEF a, line, next
<1>5. PICK k \in 0 .. Len(line) : e = Append(First(line, k), "dots") /\ TextWidth(First(line, k)) < MaxWidth
  BY <1>2, EllipsisFits
<1> DEFINE p == First(line, k)
           q == SubSeq(line, k + 1, Len(line))
<1>6. p \in Seq(Glyphs) /\ p \in Seq(Marks) /\ q \in Seq(Glyphs) /\ q \in Seq(Marks) /\ p \o q = line
  <2>0. line \in Seq(Marks) /\ Len(line) \in Nat
    BY <1>2, GlyphsAreMarks
  <2>1. p \in Seq(Glyphs) /\ p \in Seq(Marks)
    BY <1>2, <2>0, FirstOf
  <2>2. q \in Seq(Glyphs)
    <3>1. k + 1 \in Int /\ Len(line) \in Int /\ \A i \in k + 1 .. Len(line) : i \in 1 .. Len(line)
      BY <2>0
    <3>2. \A i \in k + 1 .. Len(line) : line[i] \in Glyphs
      BY <1>2, <3>1
    <3> QED
      BY <3>1, <3>2, SubSeqProperties
  <2>3. p \o q = line
    <3>1. 1 \in 1 .. Len(line) + 1 /\ k \in 1 - 1 .. Len(line) /\ Len(line) \in k .. Len(line)
      BY <2>0
    <3>2. SubSeq(line, 1, k) \o SubSeq(line, k + 1, Len(line)) = SubSeq(line, 1, Len(line))
      BY <1>2, <3>1, ConcatAdjacentSubSeq
    <3>3. SubSeq(line, 1, Len(line)) = line
      BY <1>2, SubSeqFull
    <3> QED
      BY <3>2, <3>3 DEF First
  <2> QED
    BY <2>1, <2>2, <2>3, GlyphsAreMarks
<1> HIDE DEF p, q, e
<1>7. e \in Seq(Marks) /\ Bare(e) = p /\ e # p /\ ~ TooWide(e)
  <2>1. e = Append(p, "dots") /\ TextWidth(p) < MaxWidth
    BY <1>5 DEF p
  <2>2. TextWidth(e) = TextWidth(p) + 1
    BY <1>6, <2>1, WidthOfDots
  <2>3. TextWidth(p) \in Nat /\ MaxWidth \in Nat
    <3>1. 0 \in 0 .. Len(p)
      BY <1>6
    <3> QED
      BY <1>6, <3>1, WidthGrows, RenderingAssumption
  <2> QED
    BY <1>6, <2>1, <2>2, <2>3, BareOfDots DEF TooWide
<1>8. /\ lines \in Seq(Seq(Marks)) /\ Len(lines) = M
      /\ \A i \in 1 .. m : lines[i] = a[i]
      /\ lines[M] = e
      /\ Shown(lines) = Shown(a) \o p
      /\ Shown(a) \o p \in Seq(Marks)
  <2>1. a \in Seq(Seq(Marks))
    BY <1>2, GlyphsAreMarks
  <2>2. /\ lines \in Seq(Seq(Marks)) /\ Len(lines) = m + 1
        /\ \A i \in 1 .. m : lines[i] = a[i]
        /\ lines[m + 1] = e
    BY <1>2, <1>7, <2>1, AppendProperties
  <2>3. Shown(lines) = Shown(a) \o p
    BY <1>7, <2>1, ShownAppend
  <2> QED
    BY <1>1, <1>2, <1>6, <2>2, <2>3, ConcatProperties
<1> HIDE DEF lines
<1>9. [First(all, M) EXCEPT ![M] = Ellipsis(@)] = lines
  <2> DEFINE whole == First(all, M)
             new == [whole EXCEPT ![M] = Ellipsis(whole[M])]
  <2>1. /\ whole \in Seq(Seq(Marks)) /\ Len(whole) = M /\ whole[M] = line
        /\ \A i \in 1 .. m : whole[i] = a[i]
    <3>1. /\ Len(Append(a, line)) = m + 1 /\ Append(a, line)[m + 1] = line
          /\ \A i \in 1 .. m : Append(a, line)[i] = a[i]
      BY <1>2, AppendProperties
    <3> QED
      BY <1>1, <1>2, <3>1, GlyphsAreMarks
  <2> HIDE DEF whole
  <2>2. Ellipsis(whole[M]) = e
    BY <2>1 DEF e
  <2>3. /\ new \in Seq(Seq(Marks)) /\ Len(new) = M
        /\ \A j \in 1 .. M : new[j] = IF j = M THEN e ELSE whole[j]
    BY <1>1, <1>7, <2>1, <2>2, ExceptSeq
  <2> HIDE DEF new
  <2>4. \A j \in 1 .. M : j = M \/ j \in 1 .. m
    BY <1>1
  <2>5. \A j \in 1 .. M : new[j] = lines[j]
    BY <1>8, <2>1, <2>3, <2>4
  <2>6. new = lines
    BY <1>8, <2>3, <2>5, SeqEqual
  <2> QED
    BY <2>6 DEF new, whole
<1>10. Starts(Shown(lines), text) /\ Len(Shown(lines)) < Len(text)
  <2>1. PICK u \in Seq(Marks) : text = Shown(First(all, M + 1)) \o u
    BY <1>3 DEF Starts
  <2>2. text = ((Shown(a) \o (p \o q)) \o next) \o u
    BY <1>2, <1>3, <1>6, <2>1
  <2>3. next \in Seq(Marks)
    BY <1>3, GlyphsAreMarks
  <2>4. LongerBy(Len(q) + (Len(next) + Len(u)), Shown(a) \o p, text)
    <3> DEFINE s == Shown(a)
    <3> HIDE DEF s
    <3>1. s \in Seq(Marks) /\ p \in Seq(Marks) /\ q \in Seq(Marks)
      BY <1>2, <1>6 DEF s
    <3>2. LongerBy(Len(q) + (Len(next) + Len(u)), s \o p, ((s \o (p \o q)) \o next) \o u)
      BY <2>3, <3>1, JoinedAgain, Zenon
    <3> QED
      BY <2>2, <3>2, Zenon DEF s
  <2>5. Len(next) \in Nat /\ Len(next) # 0 /\ Len(q) \in Nat /\ Len(u) \in Nat
    BY <1>4, <1>6, <2>3
  <2> DEFINE b == Shown(lines)
  <2>6. b \in Seq(Marks) /\ LongerBy(Len(q) + (Len(next) + Len(u)), b, text)
    BY <1>8, <2>4
  <2> HIDE DEF b
  <2>7. PICK r \in Seq(Marks) : text = b \o r /\ Len(r) = Len(q) + (Len(next) + Len(u))
    BY <2>6 DEF LongerBy
  <2>8. Len(text) = Len(b) + Len(r) /\ Len(b) \in Nat
    <3>1. Len(b \o r) = Len(b) + Len(r) /\ Len(b) \in Nat
      BY <2>6, ConcatProperties
    <3> QED
      BY <2>7, <3>1, Zenon
  <2>9. Len(b) < Len(text)
    BY <2>5, <2>7, <2>8
  <2> QED
    BY <2>7, <2>9 DEF Starts, b
<1>11. IsPrefix(Shown(lines), text)
  BY <1>8, <1>10, StartsIsPrefix, GlyphsAreMarks
<1>12. \A i \in DOMAIN lines : i = M \/ i \in 1 .. m
  BY <1>1, <1>8
<1>13. ASSUME NEW i \in 1 .. m
       PROVE  Bare(lines[i]) = lines[i] /\ ~ TooWide(First(lines[i], Len(lines[i]) - 1))
  <2>1. lines[i] = all[i] /\ all[i] \in Seq(Glyphs) /\ i \in DOMAIN all
    <3>1. i \in 1 .. Len(all) /\ DOMAIN all = 1 .. Len(all)
      BY <1>0, <1>1
    <3> QED
      BY <1>0, <1>2, <1>8, <3>1
  <2> QED
    BY <1>0, <2>1, BareMarks, GlyphsAreMarks DEF AllFit, FitsButOne
<1>14. M \in DOMAIN lines /\ Bare(lines[M]) # lines[M] /\ ~ TooWide(lines[M])
  BY <1>1, <1>7, <1>8
<1>15. LinesFit(lines, text)
  <2>1. Len(lines) = MaxLines /\ Len(lines) <= MaxLines
    BY <1>1, <1>8 DEF M
  <2>2. (\E i \in DOMAIN lines : Bare(lines[i]) # lines[i]) <=> Len(Shown(lines)) < Len(text)
    BY <1>10, <1>14
  <2>3. ASSUME NEW i \in DOMAIN lines
        PROVE  /\ Bare(lines[i]) # lines[i] => i = Len(lines) /\ ~ TooWide(lines[i])
               /\ Bare(lines[i]) = lines[i] => ~ TooWide(First(lines[i], Len(lines[i]) - 1))
    BY <1>8, <1>12, <1>13, <1>14
  <2> QED
    BY <1>11, <2>1, <2>2, <2>3, Zenon DEF LinesFit
<1> QED
  BY <1>9, <1>15 DEF all, M

\* _encode_jpeg_within_limit: the best quality that is small enough.
LEMMA EncodedIsBest ==
  ASSUME NEW small
  PROVE  /\ Encoded(small) \in small \/ Tried \cap small = {}
         /\ \A q \in Tried \cap small : q <= Encoded(small)
<1>1. CASE Tried \cap small = {}
  BY <1>1
<1>2. CASE Tried \cap small # {}
  <2>1. QualityStart \in Nat /\ QualityMin \in Nat
    BY RenderingAssumption
  <2>2. Tried \cap small \in SUBSET (0 .. QualityStart)
    <3>1. \A q \in QualityMin .. QualityStart : q \in 0 .. QualityStart
      BY <2>1
    <3> QED
      BY <3>1 DEF Tried
  <2>3. Encoded(small) = Max(Tried \cap small)
    BY <1>2 DEF Encoded
  <2> QED
    BY <1>2, <2>1, <2>2, <2>3, MaxIsGreatest
<1> QED
  BY <1>1, <1>2

\* A thumbnail that is made fits.
LEMMA ComposedFits ==
  ASSUME NEW text \in Headlines, NEW small, ComposeThumbnail(text, small)
  PROVE  ThumbnailFits'
<1>1. thumbnail' = [is |-> "file", text |-> text, lines |-> Wrapped(text),
                    small |-> small, quality |-> Encoded(small)]
  BY DEF ComposeThumbnail
<1>2. text \in Seq(Glyphs)
  BY DEF Headlines
<1>3. Wrapped(text) = IF Len(LinesOf(text)) <= MaxLines THEN LinesOf(text)
                      ELSE [First(LinesOf(text), MaxLines) EXCEPT ![MaxLines] = Ellipsis(@)]
  BY Zenon DEF Wrapped, LinesOf
<1>4. LinesFit(Wrapped(text), text)
  BY <1>2, <1>3, ShortTextFits, CutTextFits
<1>5. /\ Encoded(small) \in small \/ Tried \cap small = {}
      /\ \A q \in Tried \cap small : q <= Encoded(small)
  BY EncodedIsBest
<1>6. /\ thumbnail'.lines = Wrapped(text) /\ thumbnail'.text = text
      /\ thumbnail'.small = small /\ thumbnail'.quality = Encoded(small)
  BY <1>1
<1> QED
  BY <1>4, <1>5, <1>6 DEF ThumbnailFits

\* Whatever the headline is and however wide and many the lines are, what is
\* drawn is the beginning of the text, in lines that fit but for one glyph, and
\* all of it unless there is an ellipsis, which fits; the file is the best of
\* those tried that is small enough (domain/render/thumbnail_overlay.py).
THEOREM HeadlinesFit == RenderingSpec => []ThumbnailFits
<1>1. RenderingInit => ThumbnailFits
  BY DEF RenderingInit, ThumbnailFits, NoFile
<1>2. ThumbnailFits /\ [RenderingNext]_renderVars => ThumbnailFits'
  <2> SUFFICES ASSUME ThumbnailFits, [RenderingNext]_renderVars
               PROVE  ThumbnailFits'
    OBVIOUS
  <2>1. ASSUME UNCHANGED thumbnail
        PROVE  ThumbnailFits'
    BY <2>1 DEF ThumbnailFits
  <2>2. CASE Describe
    BY <2>1, <2>2 DEF Describe
  <2>3. ASSUME NEW text \in Headlines, NEW small \in SUBSET Tried, ComposeThumbnail(text, small)
        PROVE  ThumbnailFits'
    BY <2>3, ComposedFits
  <2>4. ASSUME NEW fade \in Fades, ComposeVideo(fade)
        PROVE  ThumbnailFits'
    BY <2>1, <2>4 DEF ComposeVideo
  <2>5. CASE RenderingFails
    BY <2>1, <2>5 DEF RenderingFails
  <2>6. CASE UNCHANGED renderVars
    BY <2>1, <2>6 DEF renderVars
  <2> QED
    BY <2>2, <2>3, <2>4, <2>5, <2>6 DEF RenderingNext
<1> QED
  BY <1>1, <1>2, PTL DEF RenderingSpec

=============================================================================
