--------------------------- MODULE IntervalLemmas ---------------------------
(***************************************************************************)
(* Induction along 0 .. n, stated on sets of numbers: the induction         *)
(* theorems of the library take an operator as a parameter.  And what the   *)
(* sums of RunningSums compute.                                             *)
(***************************************************************************)
EXTENDS RunningSums, WellFoundedInduction, TLAPS

\* A nonempty set of natural numbers has a least element.
LEMMA Least ==
  ASSUME NEW T, T \subseteq Nat, T # {}
  PROVE  \E m \in T : \A k \in T : m <= k
<1> DEFINE R == {ss \in Nat \X Nat : ss[1] < ss[2]}
<1>1. IsWellFoundedOn(R, Nat)
  BY NatLessThanWellFounded DEF OpToRel
<1>2. \A x, y \in Nat : x < y => <<x, y>> \in R
  OBVIOUS
<1> HIDE DEF R
<1>3. PICK x \in T : \A y \in T : ~ (<<y, x>> \in R)
  BY <1>1, WFMin
<1>4. ASSUME NEW y \in T PROVE x <= y
  <2>1. x \in Nat /\ y \in Nat
    OBVIOUS
  <2>2. ~ (y < x)
    BY <1>2, <1>3, <2>1
  <2> QED BY <2>1, <2>2
<1> QED BY <1>4

\* A set that holds 0 and, up to n, the successor of each of its members holds 0 .. n.
LEMMA IntervalInduction ==
  ASSUME NEW n \in Nat, NEW S, 0 \in S,
         \A i \in 1 .. n : i - 1 \in S => i \in S
  PROVE  0 .. n \subseteq S
<1> DEFINE Bad == (0 .. n) \ S
<1>1. SUFFICES ASSUME Bad # {} PROVE FALSE
  OBVIOUS
<1>2. Bad \subseteq Nat
  OBVIOUS
<1>3. PICK m \in Bad : \A k \in Bad : m <= k
  <2> HIDE DEF Bad
  <2> QED BY <1>1, <1>2, Least
<1>4. m \in 1 .. n
  OBVIOUS
<1>5. m - 1 \in 0 .. n /\ m - 1 < m
  BY <1>4
<1>6. m - 1 \in S
  BY <1>3, <1>5
<1> QED BY <1>4, <1>6

\* Of numbers bounded above one is the greatest.
LEMMA Greatest ==
  ASSUME NEW A, A # {}, NEW x, NEW T \in Int, \A i \in A : x[i] \in Int /\ x[i] <= T
  PROVE  \E a \in A : \A i \in A : x[i] <= x[a]
<1> DEFINE D == {T - x[i] : i \in A}
<1>1. D \subseteq Nat /\ D # {}
  OBVIOUS
<1>2. PICK m \in D : \A k \in D : m <= k
  <2> HIDE DEF D
  <2> QED BY <1>1, Least
<1>3. PICK a \in A : m = T - x[a]
  BY <1>2
<1>4. ASSUME NEW i \in A PROVE x[i] <= x[a]
  <2>1. T - x[i] \in D
    OBVIOUS
  <2>2. m <= T - x[i]
    BY <1>2, <2>1
  <2> QED BY <1>3, <2>2
<1> QED BY <1>4

\* Finitely many numbers have a bound.
LEMMA Bounded ==
  ASSUME NEW n \in Nat, NEW p, \A i \in 1 .. n : p[i] \in Nat
  PROVE  \E M \in Nat : \A i \in 1 .. n : p[i] <= M
<1> DEFINE S == {k \in 0 .. n : \E M \in Nat : \A i \in 1 .. k : p[i] <= M}
<1>1. 0 \in S
  OBVIOUS
<1>2. ASSUME NEW k \in 1 .. n, k - 1 \in S PROVE k \in S
  <2>1. PICK M \in Nat : \A i \in 1 .. k - 1 : p[i] <= M
    BY <1>2
  <2>2. M + p[k] \in Nat /\ \A i \in 1 .. k : p[i] <= M + p[k]
    <3>1. p[k] \in Nat /\ M + p[k] \in Nat
      OBVIOUS
    <3>2. ASSUME NEW i \in 1 .. k PROVE p[i] <= M + p[k]
      <4>1. CASE i = k
        BY <3>1, <4>1
      <4>2. CASE i # k
        <5>1. i \in 1 .. k - 1 /\ i \in 1 .. n
          BY <4>2
        <5>2. p[i] <= M /\ p[i] \in Nat
          BY <2>1, <5>1
        <5> QED BY <3>1, <5>2
      <4> QED BY <4>1, <4>2
    <3> QED BY <3>1, <3>2
  <2> QED BY <2>2
<1>3. n \in S
  <2> HIDE DEF S
  <2>1. n \in 0 .. n
    OBVIOUS
  <2> QED BY <1>1, <1>2, <2>1, IntervalInduction
<1> QED BY <1>3

-----------------------------------------------------------------------------
(* What a running sum computes, for any number of values: it satisfies its   *)
(* recursion and is an integer, and it moves with a value that moves.        *)

\* Running sums exist.
LEMMA RunningSumExists ==
  ASSUME NEW m \in Nat, NEW f, \A k \in 1 .. m : f[k] \in Int
  PROVE  \E g \in [0 .. m -> Int] :
           g[0] = 0 /\ \A i \in 1 .. m : g[i] = g[i - 1] + f[i]
<1> DEFINE Sums(n, g) == /\ g \in [0 .. n -> Int]
                         /\ g[0] = 0
                         /\ \A i \in 1 .. n : g[i] = g[i - 1] + f[i]
           S == {n \in 0 .. m : \E g : Sums(n, g)}
<1>1. Sums(0, [i \in 0 .. 0 |-> 0])
  OBVIOUS
<1>2. ASSUME NEW n \in 1 .. m, NEW g, Sums(n - 1, g)
      PROVE  Sums(n, [i \in 0 .. n |-> IF i = n THEN g[n - 1] + f[n] ELSE g[i]])
  <2> DEFINE h == [i \in 0 .. n |-> IF i = n THEN g[n - 1] + f[n] ELSE g[i]]
  <2>1. n \in Nat /\ n >= 1 /\ f[n] \in Int
    OBVIOUS
  <2>2. h \in [0 .. n -> Int]
    <3>1. ASSUME NEW i \in 0 .. n, i # n PROVE i \in 0 .. n - 1
      BY <2>1, <3>1
    <3>2. n - 1 \in 0 .. n - 1
      BY <2>1
    <3> QED BY <1>2, <2>1, <3>1, <3>2
  <2>3. h[0] = 0
    BY <1>2, <2>1
  <2>4. ASSUME NEW i \in 1 .. n PROVE h[i] = h[i - 1] + f[i]
    <3>1. i \in 0 .. n /\ i - 1 \in 0 .. n /\ i - 1 # n
      BY <2>1
    <3>2. h[i - 1] = g[i - 1]
      BY <3>1
    <3>3. CASE i = n
      BY <3>1, <3>2, <3>3
    <3>4. CASE i # n
      <4>1. i \in 1 .. n - 1
        BY <2>1, <3>4
      <4> QED BY <1>2, <3>1, <3>2, <3>4, <4>1
    <3> QED BY <3>3, <3>4
  <2>5. Sums(n, h)
    <3> HIDE DEF h
    <3> QED BY <2>2, <2>3, <2>4
  <2> HIDE DEF Sums
  <2> QED BY <2>5
<1> HIDE DEF Sums
<1>3. 0 \in S
  BY <1>1
<1>4. ASSUME NEW i \in 1 .. m, i - 1 \in S PROVE i \in S
  <2>1. PICK g : Sums(i - 1, g)
    BY <1>4
  <2>2. \E h : Sums(i, h)
    BY <1>2, <2>1
  <2>3. i \in 0 .. m
    OBVIOUS
  <2> QED BY <2>2, <2>3
<1>5. m \in S
  <2>1. m \in 0 .. m
    OBVIOUS
  <2> HIDE DEF S
  <2> QED BY <1>3, <1>4, <2>1, IntervalInduction
<1> QED BY <1>5 DEF Sums

\* RunningSum satisfies its recursion.
LEMMA RunningSumDef ==
  ASSUME NEW m \in Nat, NEW f, \A k \in 1 .. m : f[k] \in Int
  PROVE  /\ RunningSum(f, m) \in [0 .. m -> Int]
         /\ RunningSum(f, m)[0] = 0
         /\ \A i \in 1 .. m : RunningSum(f, m)[i] = RunningSum(f, m)[i - 1] + f[i]
<1> DEFINE P(p) == p = [i \in 0 .. m |-> IF i = 0 THEN 0 ELSE p[i - 1] + f[i]]
<1>1. PICK g \in [0 .. m -> Int] :
         g[0] = 0 /\ \A i \in 1 .. m : g[i] = g[i - 1] + f[i]
  BY RunningSumExists
<1>2. P(g)
  <2>1. ASSUME NEW i \in 0 .. m
        PROVE  g[i] = IF i = 0 THEN 0 ELSE g[i - 1] + f[i]
    <3>1. i # 0 => i \in 1 .. m
      OBVIOUS
    <3> QED BY <1>1, <3>1
  <2> QED BY <2>1
<1>3. RunningSum(f, m) = CHOOSE p : P(p)
  BY DEF RunningSum
<1>4. P(RunningSum(f, m))
  <2> HIDE DEF P
  <2> QED BY <1>2, <1>3
<1> DEFINE p == RunningSum(f, m)
           S == {i \in 0 .. m : p[i] \in Int}
<1> HIDE DEF p
<1>5. /\ p = [i \in 0 .. m |-> IF i = 0 THEN 0 ELSE p[i - 1] + f[i]]
  BY <1>4 DEF p
<1>6. p[0] = 0
  BY <1>5
<1>7. ASSUME NEW i \in 1 .. m PROVE p[i] = p[i - 1] + f[i]
  <2>1. i \in 0 .. m /\ i # 0
    OBVIOUS
  <2> QED BY <1>5, <2>1
<1>8. 0 .. m \subseteq S
  <2>1. 0 \in S
    BY <1>6
  <2>2. ASSUME NEW i \in 1 .. m, i - 1 \in S PROVE i \in S
    <3>1. f[i] \in Int /\ i \in 1 .. m /\ i \in 0 .. m
      OBVIOUS
    <3> QED BY <1>7, <2>2, <3>1
  <2> HIDE DEF S
  <2> QED BY <2>1, <2>2, IntervalInduction
<1>9. p \in [0 .. m -> Int]
  <2>1. \A i \in 0 .. m : p[i] \in Int
    BY <1>8
  <2>2. p = [i \in 0 .. m |-> p[i]]
    BY <1>5
  <2> QED BY <2>1, <2>2
<1> QED BY <1>6, <1>7, <1>9 DEF p

\* Values past n do not count, nor does it matter how far a running sum goes.
LEMMA SumsAgree ==
  ASSUME NEW m \in Nat, NEW n \in 0 .. m, NEW f, NEW g,
         \A k \in 1 .. m : f[k] \in Int, \A k \in 1 .. n : g[k] = f[k]
  PROVE  RunningSum(g, n)[n] = RunningSum(f, m)[n]
<1> DEFINE p == RunningSum(f, m)
           q == RunningSum(g, n)
           S == {k \in 0 .. n : q[k] = p[k]}
<1>1. /\ n \in Nat /\ 1 .. n \subseteq 1 .. m
      /\ \A k \in 1 .. n : g[k] \in Int
  OBVIOUS
<1>2. p[0] = 0 /\ \A k \in 1 .. m : p[k] = p[k - 1] + f[k]
  BY RunningSumDef
<1>3. q[0] = 0 /\ \A k \in 1 .. n : q[k] = q[k - 1] + g[k]
  BY <1>1, RunningSumDef
<1> HIDE DEF p, q
<1>4. 0 \in S
  BY <1>1, <1>2, <1>3
<1>5. ASSUME NEW k \in 1 .. n, k - 1 \in S PROVE k \in S
  BY <1>1, <1>2, <1>3, <1>5
<1>6. n \in S
  <2> HIDE DEF S
  <2>1. n \in 0 .. n
    BY <1>1
  <2> QED BY <1>1, <1>4, <1>5, <2>1, IntervalInduction
<1> QED BY <1>6 DEF p, q

\* A sum goes up by the value that is added.
LEMMA SumStep ==
  ASSUME NEW n \in Nat, NEW f, \A k \in 1 .. n + 1 : f[k] \in Int
  PROVE  SumTo(f, n) \in Int /\ SumTo(f, n + 1) = SumTo(f, n) + f[n + 1]
<1>1. n + 1 \in Nat /\ n \in 0 .. n + 1 /\ n + 1 \in 1 .. n + 1 /\ (n + 1) - 1 = n
  OBVIOUS
<1>2. /\ RunningSum(f, n + 1) \in [0 .. n + 1 -> Int]
      /\ RunningSum(f, n + 1)[n + 1] = RunningSum(f, n + 1)[n] + f[n + 1]
  BY <1>1, RunningSumDef
<1>3. RunningSum(f, n)[n] = RunningSum(f, n + 1)[n]
  BY <1>1, SumsAgree
<1> QED BY <1>1, <1>2, <1>3 DEF SumTo

\* Sums of values that are at most b apart are at most n times b apart.
LEMMA SumsClose ==
  ASSUME NEW n \in Nat, NEW b \in Nat, NEW f, NEW g,
         \A k \in 1 .. n : f[k] \in Int /\ g[k] \in Int /\ -b <= f[k] - g[k] /\ f[k] - g[k] <= b
  PROVE  -(b * n) <= SumTo(f, n) - SumTo(g, n) /\ SumTo(f, n) - SumTo(g, n) <= b * n
<1> DEFINE p == RunningSum(f, n)
           q == RunningSum(g, n)
           S == {k \in 0 .. n : -(b * k) <= p[k] - q[k] /\ p[k] - q[k] <= b * k}
<1>1. /\ p \in [0 .. n -> Int] /\ p[0] = 0
      /\ \A k \in 1 .. n : p[k] = p[k - 1] + f[k]
  BY RunningSumDef
<1>2. /\ q \in [0 .. n -> Int] /\ q[0] = 0
      /\ \A k \in 1 .. n : q[k] = q[k - 1] + g[k]
  BY RunningSumDef
<1> HIDE DEF p, q
<1>3. 0 \in S
  <2>1. 0 \in 0 .. n /\ p[0] - q[0] = 0 /\ b * 0 = 0
    BY <1>1, <1>2
  <2> QED BY <2>1
<1>4. ASSUME NEW k \in 1 .. n, k - 1 \in S PROVE k \in S
  <2>1. /\ k \in 0 .. n /\ k - 1 \in 0 .. n /\ k \in Int
        /\ f[k] \in Int /\ g[k] \in Int /\ p[k - 1] \in Int /\ q[k - 1] \in Int
    BY <1>1, <1>2
  <2>2. -(b * (k - 1)) <= p[k - 1] - q[k - 1] /\ p[k - 1] - q[k - 1] <= b * (k - 1)
    BY <1>4
  <2>3. b * k = b * (k - 1) + b /\ b * (k - 1) \in Int
    BY <2>1
  <2>4. p[k] = p[k - 1] + f[k] /\ q[k] = q[k - 1] + g[k]
    BY <1>1, <1>2
  <2>5. -b <= f[k] - g[k] /\ f[k] - g[k] <= b
    OBVIOUS
  <2> DEFINE far == b * (k - 1)
             end == b * k
  <2>6. end = far + b /\ far \in Int /\ -far <= p[k - 1] - q[k - 1] /\ p[k - 1] - q[k - 1] <= far
    BY <2>2, <2>3
  <2> HIDE DEF far, end
  <2>7. -end <= p[k] - q[k] /\ p[k] - q[k] <= end
    BY <2>1, <2>4, <2>5, <2>6
  <2> QED BY <2>1, <2>7 DEF end
<1>5. n \in S
  <2> HIDE DEF S
  <2>1. n \in 0 .. n
    OBVIOUS
  <2> QED BY <1>3, <1>4, <2>1, IntervalInduction
<1> QED BY <1>5 DEF SumTo, p, q

\* Nothing sums to zero.
LEMMA SumOfNone ==
  ASSUME NEW f
  PROVE  SumTo(f, 0) = 0
<1>1. \A k \in 1 .. 0 : f[k] \in Int
  OBVIOUS
<1> QED BY <1>1, RunningSumDef DEF SumTo

\* A sum of integers is one.
LEMMA SumIsInt ==
  ASSUME NEW n \in Nat, NEW f, \A k \in 1 .. n : f[k] \in Int
  PROVE  SumTo(f, n) \in Int
<1>1. RunningSum(f, n) \in [0 .. n -> Int] /\ n \in 0 .. n
  BY RunningSumDef
<1> QED BY <1>1 DEF SumTo

\* Equal values sum up to the same.
LEMMA SumsEqual ==
  ASSUME NEW n \in Nat, NEW f, NEW g,
         \A k \in 1 .. n : f[k] \in Int, \A k \in 1 .. n : g[k] = f[k]
  PROVE  SumTo(g, n) = SumTo(f, n)
<1>1. n \in 0 .. n
  OBVIOUS
<1> QED BY <1>1, SumsAgree DEF SumTo

\* Zeros sum to zero.
LEMMA SumOfZeros ==
  ASSUME NEW n \in Nat, NEW f, \A k \in 1 .. n : f[k] = 0
  PROVE  SumTo(f, n) = 0
<1> DEFINE p == RunningSum(f, n)
           S == {k \in 0 .. n : p[k] = 0}
<1>1. p[0] = 0 /\ \A k \in 1 .. n : p[k] = p[k - 1] + f[k]
  BY RunningSumDef
<1> HIDE DEF p
<1>2. 0 \in S
  BY <1>1
<1>3. ASSUME NEW k \in 1 .. n, k - 1 \in S PROVE k \in S
  BY <1>1, <1>3
<1>4. n \in S
  <2> HIDE DEF S
  <2>1. n \in 0 .. n
    OBVIOUS
  <2> QED BY <1>2, <1>3, <2>1, IntervalInduction
<1> QED BY <1>4 DEF SumTo, p

\* One value that changes changes the sum by as much.
LEMMA SumChanged ==
  ASSUME NEW n \in Nat, NEW f, NEW g, NEW i \in 1 .. n,
         \A k \in 1 .. n : f[k] \in Int /\ g[k] \in Int,
         \A k \in 1 .. n : k # i => g[k] = f[k]
  PROVE  SumTo(g, n) = SumTo(f, n) + (g[i] - f[i])
<1> DEFINE p == RunningSum(f, n)
           q == RunningSum(g, n)
           d == g[i] - f[i]
           S == {k \in 0 .. n : q[k] = p[k] + (IF k < i THEN 0 ELSE d)}
<1>1. /\ p \in [0 .. n -> Int] /\ p[0] = 0
      /\ \A k \in 1 .. n : p[k] = p[k - 1] + f[k]
  BY RunningSumDef
<1>2. q[0] = 0 /\ \A k \in 1 .. n : q[k] = q[k - 1] + g[k]
  BY RunningSumDef
<1>3. i \in Nat /\ i >= 1 /\ i <= n /\ d \in Int
  OBVIOUS
<1> HIDE DEF p, q
<1>4. 0 \in S
  <2>1. 0 \in 0 .. n /\ 0 < i /\ q[0] = p[0] + 0
    BY <1>1, <1>2, <1>3
  <2> QED BY <2>1
<1>5. ASSUME NEW k \in 1 .. n, k - 1 \in S PROVE k \in S
  <2>1. /\ k \in 0 .. n /\ k - 1 \in 0 .. n
        /\ f[k] \in Int /\ g[k] \in Int /\ p[k - 1] \in Int
    BY <1>1
  <2>2. g[k] = IF k = i THEN f[k] + d ELSE f[k]
    BY <2>1
  <2> HIDE DEF d
  <2>3. q[k - 1] = p[k - 1] + (IF k - 1 < i THEN 0 ELSE d)
    BY <1>5
  <2>4. q[k] = q[k - 1] + g[k] /\ p[k] = p[k - 1] + f[k]
    BY <1>1, <1>2
  <2>5. q[k] = p[k] + (IF k < i THEN 0 ELSE d)
    BY <1>3, <2>1, <2>2, <2>3, <2>4
  <2> QED BY <2>1, <2>5
<1>6. n \in S
  <2> HIDE DEF S
  <2>1. n \in 0 .. n
    OBVIOUS
  <2> QED BY <1>4, <1>5, <2>1, IntervalInduction
<1> QED BY <1>3, <1>6 DEF SumTo, p, q

\* A sum is the sum of its first values and of the others.
LEMMA SumSplit ==
  ASSUME NEW n \in Nat, NEW m \in Nat, NEW f, NEW g,
         \A k \in 1 .. n + m : f[k] \in Int, \A k \in 1 .. m : g[k] = f[n + k]
  PROVE  SumTo(f, n + m) = SumTo(f, n) + SumTo(g, m)
<1> DEFINE p == RunningSum(f, n + m)
           q == RunningSum(g, m)
           S == {k \in 0 .. m : p[n + k] = p[n] + q[k]}
<1>1. /\ p \in [0 .. n + m -> Int]
      /\ \A k \in 1 .. n + m : p[k] = p[k - 1] + f[k]
  BY RunningSumDef
<1>2. \A k \in 1 .. m : n + k \in 1 .. n + m /\ g[k] \in Int
  OBVIOUS
<1>3. q \in [0 .. m -> Int] /\ q[0] = 0 /\ \A k \in 1 .. m : q[k] = q[k - 1] + g[k]
  BY <1>2, RunningSumDef
<1>4. SumTo(f, n) = p[n]
  <2>1. n \in 0 .. n + m
    OBVIOUS
  <2> QED BY <2>1, SumsAgree DEF SumTo
<1> HIDE DEF p, q
<1>5. p[n] \in Int
  BY <1>1
<1>6. 0 \in S
  BY <1>3, <1>5
<1>7. ASSUME NEW k \in 1 .. m, k - 1 \in S PROVE k \in S
  <2>1. /\ k \in 0 .. m /\ k - 1 \in 0 .. m /\ n + k \in 1 .. n + m
        /\ (n + k) - 1 = n + (k - 1)
    OBVIOUS
  <2>2. p[n + (k - 1)] = p[n] + q[k - 1]
    BY <1>7
  <2>3. p[n + k] = p[n + (k - 1)] + f[n + k]
    BY <1>1, <2>1
  <2>4. q[k] = q[k - 1] + f[n + k]
    BY <1>3
  <2>5. f[n + k] \in Int /\ q[k - 1] \in Int
    BY <1>3, <2>1
  <2>6. p[n + k] = p[n] + q[k]
    BY <1>5, <2>2, <2>3, <2>4, <2>5
  <2> QED BY <2>1, <2>6
<1>8. m \in S
  <2> HIDE DEF S
  <2>1. m \in 0 .. m
    OBVIOUS
  <2> QED BY <1>6, <1>7, <2>1, IntervalInduction
<1> QED BY <1>4, <1>8 DEF SumTo, p, q

\* Values that are added one by one add their sums.
LEMMA SumOfBoth ==
  ASSUME NEW n \in Nat, NEW f, NEW g, NEW h,
         \A k \in 1 .. n : f[k] \in Int /\ g[k] \in Int /\ h[k] = f[k] + g[k]
  PROVE  SumTo(h, n) = SumTo(f, n) + SumTo(g, n)
<1> DEFINE p == RunningSum(f, n)
           q == RunningSum(g, n)
           r == RunningSum(h, n)
           S == {k \in 0 .. n : r[k] = p[k] + q[k]}
<1>1. /\ p \in [0 .. n -> Int] /\ p[0] = 0
      /\ \A k \in 1 .. n : p[k] = p[k - 1] + f[k]
  BY RunningSumDef
<1>2. /\ q \in [0 .. n -> Int] /\ q[0] = 0
      /\ \A k \in 1 .. n : q[k] = q[k - 1] + g[k]
  BY RunningSumDef
<1>3. r[0] = 0 /\ \A k \in 1 .. n : r[k] = r[k - 1] + h[k]
  BY RunningSumDef
<1> HIDE DEF p, q, r
<1>4. 0 \in S
  <2>1. 0 \in 0 .. n /\ r[0] = 0 + 0
    BY <1>3
  <2>2. r[0] = p[0] + q[0]
    BY <1>1, <1>2, <2>1
  <2> QED BY <2>1, <2>2
<1>5. ASSUME NEW k \in 1 .. n, k - 1 \in S PROVE k \in S
  <2>1. /\ k \in 0 .. n /\ k - 1 \in 0 .. n /\ p[k - 1] \in Int /\ q[k - 1] \in Int
        /\ f[k] \in Int /\ g[k] \in Int /\ h[k] = f[k] + g[k]
    BY <1>1, <1>2
  <2>2. /\ r[k] = r[k - 1] + h[k] /\ p[k] = p[k - 1] + f[k] /\ q[k] = q[k - 1] + g[k]
        /\ r[k - 1] = p[k - 1] + q[k - 1]
    BY <1>1, <1>2, <1>3, <1>5
  <2> QED BY <2>1, <2>2
<1>6. n \in S
  <2> HIDE DEF S
  <2>1. n \in 0 .. n
    OBVIOUS
  <2> QED BY <1>4, <1>5, <2>1, IntervalInduction
<1> QED BY <1>6 DEF SumTo, p, q, r

\* Taking c from each of n values takes n times c from their sum.
LEMMA SumShifted ==
  ASSUME NEW n \in Nat, NEW c \in Int, NEW f, NEW g,
         \A k \in 1 .. n : f[k] \in Int /\ g[k] = f[k] - c
  PROVE  SumTo(g, n) = SumTo(f, n) - n * c
<1> DEFINE p == RunningSum(f, n)
           q == RunningSum(g, n)
           S == {k \in 0 .. n : q[k] = p[k] - k * c}
<1>1. /\ p \in [0 .. n -> Int] /\ p[0] = 0
      /\ \A k \in 1 .. n : p[k] = p[k - 1] + f[k]
  BY RunningSumDef
<1>2. q[0] = 0 /\ \A k \in 1 .. n : q[k] = q[k - 1] + g[k]
  BY RunningSumDef
<1> HIDE DEF p, q
<1>3. 0 \in S
  <2>1. 0 * c = 0
    OBVIOUS
  <2> QED BY <1>1, <1>2, <2>1
<1>4. ASSUME NEW k \in 1 .. n, k - 1 \in S PROVE k \in S
  <2>1. /\ k \in 0 .. n /\ k - 1 \in 0 .. n /\ p[k - 1] \in Int /\ k \in Int
        /\ f[k] \in Int /\ g[k] = f[k] - c
    BY <1>1
  <2>2. k * c = (k - 1) * c + c /\ (k - 1) * c \in Int
    BY <2>1
  <2> DEFINE far == (k - 1) * c
             end == k * c
  <2>3. /\ far \in Int /\ end = far + c /\ q[k - 1] = p[k - 1] - far
        /\ q[k] = q[k - 1] + g[k] /\ p[k] = p[k - 1] + f[k]
    BY <1>1, <1>2, <1>4, <2>2
  <2> HIDE DEF far, end
  <2>4. q[k] = p[k] - end
    BY <2>1, <2>3
  <2> QED BY <2>1, <2>4 DEF end
<1>5. n \in S
  <2> HIDE DEF S
  <2>1. n \in 0 .. n
    OBVIOUS
  <2> QED BY <1>3, <1>4, <2>1, IntervalInduction
<1> QED BY <1>5 DEF SumTo, p, q

=============================================================================
