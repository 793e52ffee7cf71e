---------------------------- MODULE Merkle_proofs ---------------------------
(***************************************************************************)
(* For trees of any size: a root commits to the list of its leaves, the     *)
(* verifiers of inclusion and consistency proofs accept the proof that the  *)
(* generator makes and no other, and a frontier recomputes the root of the  *)
(* tree over the entries it took in.                                       *)
(*                                                                         *)
(* The generators recurse from the root down, the verifiers walk from a     *)
(* leaf up.  The two meet in Halved: pairing the nodes of a tree gives a    *)
(* tree of half the size with the same root, and a proof for the tree is    *)
(* the sibling of the node at hand followed by the proof for the halved     *)
(* tree, which is what one step of the walk consumes.                       *)
(***************************************************************************)
EXTENDS Merkle, IntervalLemmas

-----------------------------------------------------------------------------
(* Bits and powers of two *)

\* Halves are smaller.
LEMMA HalfIsSmaller ==
  ASSUME NEW x \in Nat, x # 0
  PROVE  x \div 2 \in 0 .. x - 1
OBVIOUS

\* The recursion of TopBit, one number at a time.
BitStep(g, x) == IF x <= 1 THEN x ELSE 2 * g[x \div 2]

\* It has a solution up to any number.
LEMMA BitStepsExist ==
  ASSUME NEW N \in Nat
  PROVE  \E g : g = [x \in 0 .. N |-> BitStep(g, x)]
<1> DEFINE S == {M \in 0 .. N : \E g : g = [x \in 0 .. M |-> BitStep(g, x)]}
<1>1. 0 \in S
  <2> DEFINE e == [x \in 0 .. 0 |-> 0]
  <2>1. e = [x \in 0 .. 0 |-> BitStep(e, x)]
    BY DEF BitStep
  <2> HIDE DEF e
  <2>2. \E g : g = [x \in 0 .. 0 |-> BitStep(g, x)]
    BY <2>1
  <2> QED BY <2>2
<1>2. ASSUME NEW M \in 1 .. N, M - 1 \in S PROVE M \in S
  <2>1. PICK f : f = [x \in 0 .. M - 1 |-> BitStep(f, x)]
    BY <1>2
  <2> DEFINE g == [x \in 0 .. M |-> BitStep(f, x)]
  <2>2. \A x \in 0 .. M - 1 : g[x] = f[x]
    BY <2>1
  <2>3. ASSUME NEW x \in 0 .. M PROVE BitStep(f, x) = BitStep(g, x)
    <3>1. x # 0 => x \div 2 \in 0 .. M - 1
      BY HalfIsSmaller
    <3> HIDE DEF g
    <3>2. x # 0 => f[x \div 2] = g[x \div 2]
      BY <2>2, <3>1
    <3> QED BY <3>2 DEF BitStep
  <2>4. g = [x \in 0 .. M |-> BitStep(g, x)]
    <3> DEFINE h == [x \in 0 .. M |-> BitStep(g, x)]
    <3>1. g = h
      BY <2>3
    <3> QED BY <3>1
  <2> HIDE DEF g
  <2> QED BY <2>4
<1>3. N \in S
  <2> HIDE DEF S
  <2>1. 0 .. N \subseteq S
    BY <1>1, <1>2, IntervalInduction
  <2> QED BY <2>1
<1> QED BY <1>3

\* Two solutions agree where both are defined.
LEMMA BitStepsAgree ==
  ASSUME NEW N \in Nat, NEW M \in Nat,
         NEW f, f = [x \in 0 .. N |-> BitStep(f, x)],
         NEW g, g = [x \in 0 .. M |-> BitStep(g, x)],
         NEW y \in Nat, y <= N, y <= M
  PROVE  f[y] = g[y]
<1> DEFINE Bad == {x \in 0 .. N : x <= M /\ f[x] # g[x]}
<1>1. SUFFICES ASSUME Bad # {} PROVE FALSE
  OBVIOUS
<1>2. PICK x \in Bad : \A z \in Bad : x <= z
  <2>1. Bad \subseteq Nat
    OBVIOUS
  <2> HIDE DEF Bad
  <2> QED BY <1>1, <2>1, Least
<1>3. f[x] = BitStep(f, x) /\ g[x] = BitStep(g, x)
  <2>1. x \in 0 .. N /\ x \in 0 .. M
    OBVIOUS
  <2> QED BY <2>1
<1>4. x # 0 => f[x \div 2] = g[x \div 2]
  <2>1. x # 0 => x \div 2 \in 0 .. x - 1
    BY HalfIsSmaller
  <2> QED BY <1>2, <2>1
<1>5. f[x] = g[x]
  BY <1>3, <1>4 DEF BitStep
<1> QED BY <1>5

\* TopBit is what its recursion says.
LEMMA TopBitDef ==
  \A x \in Nat : TopBit[x] = IF x <= 1 THEN x ELSE 2 * TopBit[x \div 2]
<1> DEFINE G(N) == CHOOSE g : g = [x \in 0 .. N |-> BitStep(g, x)]
           F(f) == [x \in Nat |-> BitStep(f, x)]
           f == [x \in Nat |-> G(x)[x]]
<1>1. \A N \in Nat : G(N) = [x \in 0 .. N |-> BitStep(G(N), x)]
  BY BitStepsExist
<1> HIDE DEF G
<1>2. ASSUME NEW x \in Nat PROVE f[x] = BitStep(f, x)
  <2>1. f[x] = BitStep(G(x), x)
    <3>1. x \in 0 .. x
      OBVIOUS
    <3>2. G(x)[x] = BitStep(G(x), x)
      BY <1>1, <3>1
    <3> QED BY <3>2
  <2>2. ASSUME x # 0 PROVE G(x)[x \div 2] = f[x \div 2]
    <3>1. x \div 2 \in Nat /\ x \div 2 <= x
      BY <2>2, HalfIsSmaller
    <3>2. PICK h : h = x \div 2
      OBVIOUS
    <3>3. /\ G(x) = [z \in 0 .. x |-> BitStep(G(x), z)]
          /\ G(h) = [z \in 0 .. h |-> BitStep(G(h), z)]
      BY <1>1, <3>1, <3>2
    <3>4. G(x)[h] = G(h)[h]
      BY <3>1, <3>2, <3>3, BitStepsAgree
    <3> QED BY <3>1, <3>2, <3>4
  <2> HIDE DEF f
  <2> QED BY <2>1, <2>2 DEF BitStep
<1>3. f = F(f)
  BY <1>2
<1>4. TopBit = CHOOSE g : g = F(g)
  BY DEF TopBit, BitStep
<1> HIDE DEF F, f
<1>5. TopBit = F(TopBit)
  BY <1>3, <1>4
<1> QED BY <1>5 DEF F, BitStep

\* The highest bit of a number is a number up to it.
LEMMA TopBitBounds ==
  \A x \in Nat : x > 0 => TopBit[x] \in 1 .. x /\ x < 2 * TopBit[x]
<1> DEFINE Bad == {x \in Nat : x > 0 /\ ~ (TopBit[x] \in 1 .. x /\ x < 2 * TopBit[x])}
<1>1. SUFFICES ASSUME Bad # {} PROVE FALSE
  OBVIOUS
<1>2. PICK x \in Bad : \A z \in Bad : x <= z
  BY <1>1, Least
<1>3. x # 1
  BY TopBitDef
<1>4. PICK h \in Nat : h = x \div 2
  OBVIOUS
<1>5. h > 0 /\ h < x /\ 2 * h <= x /\ x <= 2 * h + 1
  BY <1>3, <1>4
<1>6. TopBit[h] \in 1 .. h /\ h < 2 * TopBit[h]
  BY <1>2, <1>5
<1>7. TopBit[x] = 2 * TopBit[h]
  BY <1>3, <1>4, TopBitDef
<1>8. TopBit[x] \in 1 .. x /\ x < 2 * TopBit[x]
  BY <1>5, <1>6, <1>7
<1> QED BY <1>8

\* The highest bits of 2h and 2h + 1.
LEMMA TopBitDouble ==
  ASSUME NEW h \in Nat, h > 0
  PROVE  TopBit[2 * h] = 2 * TopBit[h] /\ TopBit[2 * h + 1] = 2 * TopBit[h]
<1>1. (2 * h) \div 2 = h /\ (2 * h + 1) \div 2 = h
  OBVIOUS
<1>2. 2 * h \in Nat /\ 2 * h > 1 /\ 2 * h + 1 \in Nat /\ 2 * h + 1 > 1
  OBVIOUS
<1> QED BY <1>1, <1>2, TopBitDef

\* A number between a power of two and its double has that power as its highest bit.
LEMMA TopBitUnique ==
  \A s, x \in Nat : s >= 1 /\ TopBit[s] = s /\ s <= x /\ x < 2 * s => TopBit[x] = s
<1> DEFINE Bad == {s \in Nat : s >= 1 /\ TopBit[s] = s /\
                     \E x \in Nat : s <= x /\ x < 2 * s /\ TopBit[x] # s}
<1>1. SUFFICES ASSUME Bad # {} PROVE FALSE
  OBVIOUS
<1>2. PICK s \in Bad : \A z \in Bad : s <= z
  BY <1>1, Least
<1>3. PICK x \in Nat : s <= x /\ x < 2 * s /\ TopBit[x] # s
  OBVIOUS
<1>4. s # 1
  BY <1>3, TopBitDef
<1>5. PICK h \in Nat, b \in 0 .. 1 : s = 2 * h + b
  <2>1. s = 2 * (s \div 2) + (s % 2)
    OBVIOUS
  <2> QED BY <2>1
<1>6. PICK y \in Nat, c \in 0 .. 1 : x = 2 * y + c
  <2>1. x = 2 * (x \div 2) + (x % 2)
    OBVIOUS
  <2> QED BY <2>1
<1>7. h > 0 /\ y > 0
  BY <1>3, <1>4, <1>5, <1>6
<1>8. TopBit[s] = 2 * TopBit[h] /\ TopBit[x] = 2 * TopBit[y]
  <2>1. ASSUME NEW k \in Nat, NEW e \in 0 .. 1, k > 0 PROVE TopBit[2 * k + e] = 2 * TopBit[k]
    <3>1. CASE e = 0
      <4>1. 2 * k + e = 2 * k
        BY <3>1
      <4> QED BY <2>1, <4>1, TopBitDouble
    <3>2. CASE e = 1
      BY <2>1, <3>2, TopBitDouble
    <3> QED BY <3>1, <3>2
  <2> QED BY <1>5, <1>6, <1>7, <2>1
<1>9. TopBit[h] \in Nat /\ TopBit[h] <= h
  BY <1>7, TopBitBounds
<1>10. TopBit[h] = h /\ b = 0
  BY <1>5, <1>8, <1>9
<1>11. h <= y /\ y < 2 * h
  BY <1>3, <1>5, <1>6, <1>10
<1>12. h \notin Bad
  BY <1>2, <1>5, <1>7, <1>10
<1>13. TopBit[y] = h
  BY <1>7, <1>10, <1>11, <1>12
<1> QED BY <1>3, <1>5, <1>8, <1>10, <1>13

\* The double of a power of two is one, and two of them differ by a factor of two at least.
LEMMA PowersDouble ==
  ASSUME NEW s \in Nat, s >= 1, IsPowerOfTwo(s)
  PROVE  IsPowerOfTwo(2 * s) /\ LargestPowerOfTwoBelow(2 * s) = s
<1>1. TopBit[2 * s] = 2 * s
  BY TopBitDouble DEF IsPowerOfTwo
<1>2. 2 * s - 1 \in Nat /\ s <= 2 * s - 1 /\ 2 * s - 1 < 2 * s
  OBVIOUS
<1>3. TopBit[2 * s - 1] = s
  BY <1>2, TopBitUnique DEF IsPowerOfTwo
<1> QED BY <1>1, <1>3 DEF IsPowerOfTwo, LargestPowerOfTwoBelow

\* Two powers of two differ by a factor of two at least.
LEMMA PowersApart ==
  ASSUME NEW s \in Nat, NEW t \in Nat, s >= 1, s < t, IsPowerOfTwo(s), IsPowerOfTwo(t)
  PROVE  2 * s <= t
BY TopBitUnique DEF IsPowerOfTwo

\* The even number over an odd one is a power of two exactly when its half is; an odd one is
\* only when it is 1.
LEMMA PowersHalve ==
  ASSUME NEW h \in Nat, h > 0
  PROVE  /\ IsPowerOfTwo(2 * h) <=> IsPowerOfTwo(h)
         /\ ~ IsPowerOfTwo(2 * h + 1)
<1>1. PICK t \in Nat : t = TopBit[h]
  BY TopBitBounds
<1>2. TopBit[2 * h] = 2 * t /\ TopBit[2 * h + 1] = 2 * t
  BY <1>1, TopBitDouble
<1>3. (2 * t = 2 * h <=> t = h) /\ 2 * t # 2 * h + 1
  OBVIOUS
<1> QED BY <1>1, <1>2, <1>3 DEF IsPowerOfTwo

\* One is a power of two.
LEMMA OneIsPower == IsPowerOfTwo(1)
BY TopBitDef DEF IsPowerOfTwo

\* A run of two nodes or more splits into two shorter runs.
LEMMA SplitBounds ==
  ASSUME NEW n \in Nat, n > 1
  PROVE  LargestPowerOfTwoBelow(n) \in 1 .. n - 1
<1>1. n - 1 \in Nat /\ n - 1 > 0
  OBVIOUS
<1> QED BY <1>1, TopBitBounds DEF LargestPowerOfTwoBelow

\* A run of three nodes or more splits at the double of where half as many split.
LEMMA SplitHalves ==
  ASSUME NEW n \in Nat, n > 2
  PROVE  /\ (n + 1) \div 2 > 1
         /\ LargestPowerOfTwoBelow(n) = 2 * LargestPowerOfTwoBelow((n + 1) \div 2)
<1>1. PICK h \in Nat : h = (n + 1) \div 2
  OBVIOUS
<1>2. h > 1 /\ (n = 2 * h \/ n = 2 * h - 1)
  BY <1>1
<1>3. h - 1 \in Nat /\ h - 1 > 0
  BY <1>2
<1>4. n - 1 = 2 * (h - 1) + 1 \/ n - 1 = 2 * (h - 1)
  BY <1>2
<1>5. TopBit[n - 1] = 2 * TopBit[h - 1]
  BY <1>3, <1>4, TopBitDouble
<1> QED BY <1>1, <1>2, <1>5 DEF LargestPowerOfTwoBelow

\* A pair splits in the middle.
LEMMA SplitOfTwo == LargestPowerOfTwoBelow(2) = 1
<1>1. 2 - 1 = 1 /\ 1 \in Nat
  OBVIOUS
<1> QED BY <1>1, TopBitDef DEF LargestPowerOfTwoBelow

-----------------------------------------------------------------------------
(* The shifts of the walks *)

\* The recursion of Shifted, one number at a time.
ShiftStep(g, fn) ==
  [sn \in Nat |-> [bit \in 0 .. 1 |->
     IF fn # 0 /\ fn % 2 = bit THEN g[fn \div 2][sn \div 2][bit]
     ELSE [fn |-> fn, sn |-> sn]]]

\* It depends on the half of the number only.
LEMMA ShiftStepAgrees ==
  ASSUME NEW fn \in Nat, NEW f, NEW g, fn # 0 => f[fn \div 2] = g[fn \div 2]
  PROVE  ShiftStep(f, fn) = ShiftStep(g, fn)
BY DEF ShiftStep

\* It has a solution up to any number.
LEMMA ShiftStepsExist ==
  ASSUME NEW N \in Nat
  PROVE  \E g : g = [x \in 0 .. N |-> ShiftStep(g, x)]
<1> DEFINE S == {M \in 0 .. N : \E g : g = [x \in 0 .. M |-> ShiftStep(g, x)]}
<1>1. 0 \in S
  <2> DEFINE e == [x \in 0 .. 0 |-> ShiftStep(0, x)]
  <2>1. ASSUME NEW x \in 0 .. 0 PROVE ShiftStep(0, x) = ShiftStep(e, x)
    <3> HIDE DEF e
    <3> QED BY ShiftStepAgrees
  <2>2. e = [x \in 0 .. 0 |-> ShiftStep(e, x)]
    <3> DEFINE h == [x \in 0 .. 0 |-> ShiftStep(e, x)]
    <3>1. e = h
      BY <2>1
    <3> QED BY <3>1
  <2> HIDE DEF e
  <2>3. \E g : g = [x \in 0 .. 0 |-> ShiftStep(g, x)]
    BY <2>2
  <2> QED BY <2>3
<1>2. ASSUME NEW M \in 1 .. N, M - 1 \in S PROVE M \in S
  <2>1. PICK f : f = [x \in 0 .. M - 1 |-> ShiftStep(f, x)]
    BY <1>2
  <2> DEFINE g == [x \in 0 .. M |-> ShiftStep(f, x)]
  <2>2. \A x \in 0 .. M - 1 : g[x] = f[x]
    BY <2>1
  <2>3. ASSUME NEW x \in 0 .. M PROVE ShiftStep(f, x) = ShiftStep(g, x)
    <3>1. x # 0 => x \div 2 \in 0 .. M - 1
      BY HalfIsSmaller
    <3> HIDE DEF g
    <3>2. x # 0 => f[x \div 2] = g[x \div 2]
      BY <2>2, <3>1
    <3> QED BY <3>2, ShiftStepAgrees
  <2>4. g = [x \in 0 .. M |-> ShiftStep(g, x)]
    <3> DEFINE h == [x \in 0 .. M |-> ShiftStep(g, x)]
    <3>1. g = h
      BY <2>3
    <3> QED BY <3>1
  <2> HIDE DEF g
  <2> QED BY <2>4
<1>3. N \in S
  <2> HIDE DEF S
  <2>1. 0 .. N \subseteq S
    BY <1>1, <1>2, IntervalInduction
  <2> QED BY <2>1
<1> QED BY <1>3

\* Two solutions agree where both are defined.
LEMMA ShiftStepsAgree ==
  ASSUME NEW N \in Nat, NEW M \in Nat,
         NEW f, f = [x \in 0 .. N |-> ShiftStep(f, x)],
         NEW g, g = [x \in 0 .. M |-> ShiftStep(g, x)],
         NEW y \in Nat, y <= N, y <= M
  PROVE  f[y] = g[y]
<1> DEFINE Bad == {x \in 0 .. N : x <= M /\ f[x] # g[x]}
<1>1. SUFFICES ASSUME Bad # {} PROVE FALSE
  OBVIOUS
<1>2. PICK x \in Bad : \A z \in Bad : x <= z
  <2>1. Bad \subseteq Nat
    OBVIOUS
  <2> HIDE DEF Bad
  <2> QED BY <1>1, <2>1, Least
<1>3. f[x] = ShiftStep(f, x) /\ g[x] = ShiftStep(g, x)
  <2>1. x \in 0 .. N /\ x \in 0 .. M
    OBVIOUS
  <2> QED BY <2>1
<1>4. x # 0 => f[x \div 2] = g[x \div 2]
  <2>1. x # 0 => x \div 2 \in 0 .. x - 1
    BY HalfIsSmaller
  <2> QED BY <1>2, <2>1
<1>5. f[x] = g[x]
  BY <1>3, <1>4, ShiftStepAgrees
<1> QED BY <1>5

\* Shifted is what its recursion says.
LEMMA ShiftedDef ==
  ASSUME NEW fn \in Nat, NEW sn \in Nat, NEW bit \in 0 .. 1
  PROVE  Shifted[fn][sn][bit] =
           IF fn # 0 /\ fn % 2 = bit THEN Shifted[fn \div 2][sn \div 2][bit]
           ELSE [fn |-> fn, sn |-> sn]
<1> DEFINE G(N) == CHOOSE g : g = [x \in 0 .. N |-> ShiftStep(g, x)]
           F(f) == [x \in Nat |-> ShiftStep(f, x)]
           f == [x \in Nat |-> G(x)[x]]
<1>1. \A N \in Nat : G(N) = [x \in 0 .. N |-> ShiftStep(G(N), x)]
  BY ShiftStepsExist
<1> HIDE DEF G
<1>2. ASSUME NEW x \in Nat PROVE f[x] = ShiftStep(f, x)
  <2>1. f[x] = ShiftStep(G(x), x)
    <3>1. x \in 0 .. x
      OBVIOUS
    <3>2. G(x)[x] = ShiftStep(G(x), x)
      BY <1>1, <3>1
    <3> QED BY <3>2
  <2>2. ASSUME x # 0 PROVE G(x)[x \div 2] = f[x \div 2]
    <3>1. x \div 2 \in Nat /\ x \div 2 <= x
      BY <2>2, HalfIsSmaller
    <3>2. PICK h : h = x \div 2
      OBVIOUS
    <3>3. /\ G(x) = [z \in 0 .. x |-> ShiftStep(G(x), z)]
          /\ G(h) = [z \in 0 .. h |-> ShiftStep(G(h), z)]
      BY <1>1, <3>1, <3>2
    <3>4. G(x)[h] = G(h)[h]
      BY <3>1, <3>2, <3>3, ShiftStepsAgree
    <3> QED BY <3>1, <3>2, <3>4
  <2> HIDE DEF f
  <2> QED BY <2>1, <2>2, ShiftStepAgrees
<1>3. f = F(f)
  BY <1>2
<1>4. Shifted = CHOOSE g : g = F(g)
  BY DEF Shifted, ShiftStep
<1> HIDE DEF F, f
<1>5. Shifted = F(Shifted)
  BY <1>3, <1>4
<1>6. Shifted[fn] = ShiftStep(Shifted, fn)
  BY <1>5 DEF F
<1> QED BY <1>6 DEF ShiftStep

-----------------------------------------------------------------------------
(* Roots commit to their leaves *)

\* The roots of the runs of n nodes, from those of shorter ones.
RunRoots(d, mth, n) ==
  LET k == LargestPowerOfTwoBelow(n)
  IN  [i \in 1 .. Len(d) - n + 1 |->
         IF n = 1 THEN d[i] ELSE NodeHash(mth[k][i], mth[n - k][i + k])]

\* They depend on nothing else.
LEMMA RunRootsAgree ==
  ASSUME NEW d, NEW n \in Nat \ {0}, NEW f, NEW g, \A j \in 1 .. n - 1 : f[j] = g[j]
  PROVE  RunRoots(d, f, n) = RunRoots(d, g, n)
<1>1. CASE n = 1
  BY <1>1 DEF RunRoots
<1>2. CASE n > 1
  <2> DEFINE k == LargestPowerOfTwoBelow(n)
  <2>1. k \in 1 .. n - 1
    BY <1>2, SplitBounds
  <2>2. n - k \in 1 .. n - 1
    BY <2>1
  <2>3. f[k] = g[k] /\ f[n - k] = g[n - k]
    BY <2>1, <2>2
  <2> QED BY <2>3 DEF RunRoots
<1> QED BY <1>1, <1>2

\* The recursion of Roots has a solution of every length.
LEMMA RootsExist ==
  ASSUME NEW d, NEW N \in Nat
  PROVE  \E f : f = [n \in 1 .. N |-> RunRoots(d, f, n)]
<1> DEFINE S == {m \in 0 .. N : \E f : f = [n \in 1 .. m |-> RunRoots(d, f, n)]}
<1>1. 0 \in S
  <2> DEFINE e == [n \in 1 .. 0 |-> {}]
  <2>1. e = [n \in 1 .. 0 |-> RunRoots(d, e, n)]
    OBVIOUS
  <2> HIDE DEF e
  <2>2. \E f : f = [n \in 1 .. 0 |-> RunRoots(d, f, n)]
    BY <2>1
  <2>3. 0 \in 0 .. N
    OBVIOUS
  <2> QED BY <2>2, <2>3
<1>2. ASSUME NEW m \in 1 .. N, m - 1 \in S PROVE m \in S
  <2>1. PICK f : f = [n \in 1 .. m - 1 |-> RunRoots(d, f, n)]
    BY <1>2
  <2> DEFINE g == [n \in 1 .. m |-> RunRoots(d, f, n)]
  <2>2. \A n \in 1 .. m - 1 : f[n] = g[n]
    BY <2>1
  <2>3. ASSUME NEW n \in 1 .. m PROVE RunRoots(d, f, n) = RunRoots(d, g, n)
    <3> HIDE DEF g
    <3>1. n \in Nat \ {0} /\ \A j \in 1 .. n - 1 : j \in 1 .. m - 1
      OBVIOUS
    <3>2. \A j \in 1 .. n - 1 : f[j] = g[j]
      BY <2>2, <3>1
    <3> QED BY <3>1, <3>2, RunRootsAgree
  <2>4. g = [n \in 1 .. m |-> RunRoots(d, g, n)]
    <3> DEFINE h == [n \in 1 .. m |-> RunRoots(d, g, n)]
    <3>1. g = h
      BY <2>3
    <3> QED BY <3>1
  <2> HIDE DEF g
  <2> QED BY <2>4
<1>3. N \in S
  <2> HIDE DEF S
  <2>1. 0 .. N \subseteq S
    BY <1>1, <1>2, IntervalInduction
  <2> QED BY <2>1
<1> QED BY <1>3

\* Roots is what its recursion says.
LEMMA RootsDef ==
  ASSUME NEW T, NEW d \in Seq(T), NEW n \in 1 .. Len(d)
  PROVE  Roots(d)[n] = RunRoots(d, Roots(d), n)
<1> DEFINE F(f) == [m \in DOMAIN d |-> RunRoots(d, f, m)]
<1>1. DOMAIN d = 1 .. Len(d) /\ Len(d) \in Nat
  OBVIOUS
<1>2. PICK f : f = [m \in 1 .. Len(d) |-> RunRoots(d, f, m)]
  BY <1>1, RootsExist
<1>3. Roots(d) = CHOOSE g : g = F(g)
  BY DEF Roots, RunRoots
<1>4. f = F(f)
  BY <1>1, <1>2
<1> HIDE DEF F
<1>5. Roots(d) = F(Roots(d))
  BY <1>3, <1>4
<1> QED BY <1>1, <1>5 DEF F

\* The same, read off one run at a time.
LEMMA RunRoot ==
  ASSUME NEW T, NEW d \in Seq(T), NEW n \in 1 .. Len(d), NEW i \in 1 .. Len(d) - n + 1
  PROVE  Roots(d)[n][i] =
           LET k == LargestPowerOfTwoBelow(n)
           IN  IF n = 1 THEN d[i] ELSE NodeHash(Roots(d)[k][i], Roots(d)[n - k][i + k])
<1>1. Roots(d)[n] = RunRoots(d, Roots(d), n)
  BY RootsDef
<1> QED BY <1>1 DEF RunRoots

\* The run of n nodes from place i on in d is the run of m nodes from place j on in e.
SameLeaves(d, e, n, m, i, j) == n = m /\ \A t \in 0 .. n - 1 : d[i + t] = e[j + t]

\* Runs of the same root, of whatever two trees, are of one length over the same leaves.
SameRuns(d, e, n) ==
  \A m \in 1 .. Len(e) : \A i \in 1 .. Len(d) - n + 1 : \A j \in 1 .. Len(e) - m + 1 :
    Roots(d)[n][i] = Roots(e)[m][j] => SameLeaves(d, e, n, m, i, j)

\* The same, read off one pair of runs.
LEMMA SameRunsAt ==
  ASSUME NEW d, NEW e, NEW n, NEW m, NEW i, NEW j, SameRuns(d, e, n),
         m \in 1 .. Len(e), i \in 1 .. Len(d) - n + 1, j \in 1 .. Len(e) - m + 1,
         Roots(d)[n][i] = Roots(e)[m][j]
  PROVE  SameLeaves(d, e, n, m, i, j)
BY DEF SameRuns

\* Leaf hashes and node hashes are told apart by their prefix.
LEMMA LeafIsNoNode ==
  ASSUME NEW x, NEW l, NEW r
  PROVE  LeafHash(x) # NodeHash(l, r)
<1>1. LeafHash(x).kind = "leaf" /\ NodeHash(l, r).kind = "node"
  BY DEF LeafHash, NodeHash
<1> QED BY <1>1

\* A node hash determines both of its children.
LEMMA NodeHashInjective ==
  ASSUME NEW l, NEW r, NEW x, NEW y, NodeHash(l, r) = NodeHash(x, y)
  PROVE  l = x /\ r = y
<1>1. /\ NodeHash(l, r).left = l /\ NodeHash(l, r).right = r
      /\ NodeHash(x, y).left = x /\ NodeHash(x, y).right = y
  BY DEF NodeHash
<1> QED BY <1>1

\* A hash of a leaf, and a list of them.
AreLeaves(d) == \A i \in 1 .. Len(d) : \E x : d[i] = LeafHash(x)

\* Both halves of a run of a list of length s are runs of it.
LEMMA HalvesAreRuns ==
  ASSUME NEW s \in Nat, NEW n \in 1 .. s, NEW i \in 1 .. s - n + 1, NEW k \in 1 .. n - 1
  PROVE  /\ k \in 1 .. s /\ n - k \in 1 .. s
         /\ i \in 1 .. s - k + 1 /\ i + k \in 1 .. s - (n - k) + 1
OBVIOUS

\* Both halves are shorter.
LEMMA HalvesAreShorter ==
  ASSUME NEW n \in Nat, NEW k \in 1 .. n - 1
  PROVE  n - k \in 1 .. n - 1
OBVIOUS

\* If shorter runs are told apart by their roots, so are runs of n nodes.
LEMMA SameRunsStep ==
  ASSUME NEW T, NEW d \in Seq(T), NEW e \in Seq(T), AreLeaves(d), AreLeaves(e),
         NEW n \in 1 .. Len(d), \A q \in 1 .. n - 1 : SameRuns(d, e, q)
  PROVE  SameRuns(d, e, n)
<1> SUFFICES ASSUME NEW m \in 1 .. Len(e), NEW i \in 1 .. Len(d) - n + 1,
                    NEW j \in 1 .. Len(e) - m + 1, Roots(d)[n][i] = Roots(e)[m][j]
             PROVE  SameLeaves(d, e, n, m, i, j)
  BY DEF SameRuns
<1> DEFINE k == LargestPowerOfTwoBelow(n)
           l == LargestPowerOfTwoBelow(m)
<1>1. Len(d) \in Nat /\ Len(e) \in Nat /\ i \in 1 .. Len(d) /\ j \in 1 .. Len(e)
  OBVIOUS
<1>2. n = 1 => Roots(d)[n][i] = d[i]
  BY RunRoot
<1>3. m = 1 => Roots(e)[m][j] = e[j]
  BY RunRoot
<1>4. n # 1 => Roots(d)[n][i] = NodeHash(Roots(d)[k][i], Roots(d)[n - k][i + k])
  BY RunRoot
<1>5. m # 1 => Roots(e)[m][j] = NodeHash(Roots(e)[l][j], Roots(e)[m - l][j + l])
  BY RunRoot
<1>6. n # 1 => k \in 1 .. n - 1
  BY SplitBounds
<1>7. m # 1 => l \in 1 .. m - 1
  BY SplitBounds
<1> HIDE DEF k, l
<1>8. PICK x, y : d[i] = LeafHash(x) /\ e[j] = LeafHash(y)
  BY <1>1 DEF AreLeaves
<1>9. CASE n = 1 /\ m = 1
  <2>1. d[i] = e[j]
    BY <1>2, <1>3, <1>9
  <2> QED BY <1>1, <1>9, <2>1 DEF SameLeaves
<1>10. CASE n = 1 /\ m # 1
  BY <1>2, <1>5, <1>8, <1>10, LeafIsNoNode
<1>11. CASE n # 1 /\ m = 1
  BY <1>3, <1>4, <1>8, <1>11, LeafIsNoNode
<1>12. CASE n # 1 /\ m # 1
  <2>1. /\ Roots(d)[k][i] = Roots(e)[l][j]
        /\ Roots(d)[n - k][i + k] = Roots(e)[m - l][j + l]
    BY <1>4, <1>5, <1>12, NodeHashInjective
  <2>2. k \in 1 .. n - 1 /\ n - k \in 1 .. n - 1 /\ l \in 1 .. m - 1 /\ m - l \in 1 .. m - 1
    <3>1. n \in Nat /\ m \in Nat
      OBVIOUS
    <3> QED BY <1>6, <1>7, <1>12, <3>1, HalvesAreShorter
  <2>3. SameRuns(d, e, k) /\ SameRuns(d, e, n - k)
    BY <2>2
  <2>4. SameLeaves(d, e, k, l, i, j)
    <3>1. l \in 1 .. Len(e) /\ i \in 1 .. Len(d) - k + 1 /\ j \in 1 .. Len(e) - l + 1
      BY <1>1, <2>2, HalvesAreRuns
    <3> QED BY <2>1, <2>3, <3>1, SameRunsAt
  <2>5. SameLeaves(d, e, n - k, m - l, i + k, j + l)
    <3>1. /\ m - l \in 1 .. Len(e) /\ i + k \in 1 .. Len(d) - (n - k) + 1
          /\ j + l \in 1 .. Len(e) - (m - l) + 1
      BY <1>1, <2>2, HalvesAreRuns
    <3> QED BY <2>1, <2>3, <3>1, SameRunsAt
  <2>6. n = m
    BY <2>2, <2>4, <2>5 DEF SameLeaves
  <2>7. ASSUME NEW t \in 0 .. n - 1 PROVE d[i + t] = e[j + t]
    <3>1. CASE t < k
      <4>1. t \in 0 .. k - 1
        BY <2>2, <3>1
      <4> QED BY <2>4, <4>1 DEF SameLeaves
    <3>2. CASE t >= k
      <4>1. t - k \in 0 .. n - k - 1 /\ i + k + (t - k) = i + t /\ j + l + (t - k) = j + t
        BY <1>1, <2>2, <2>4, <3>2 DEF SameLeaves
      <4>2. d[i + k + (t - k)] = e[j + l + (t - k)]
        BY <2>5, <4>1 DEF SameLeaves
      <4> QED BY <4>1, <4>2
    <3>3. t < k \/ t >= k
      BY <2>2
    <3> QED BY <3>1, <3>2, <3>3
  <2> QED BY <2>6, <2>7 DEF SameLeaves
<1> QED BY <1>9, <1>10, <1>11, <1>12

\* Runs of the same root have the same leaves.
LEMMA SameRunsAlways ==
  ASSUME NEW T, NEW d \in Seq(T), NEW e \in Seq(T), AreLeaves(d), AreLeaves(e)
  PROVE  \A n \in 1 .. Len(d) : SameRuns(d, e, n)
<1> DEFINE S == {N \in 0 .. Len(d) : \A n \in 1 .. N : SameRuns(d, e, n)}
<1>1. 0 \in S /\ Len(d) \in Nat
  OBVIOUS
<1>2. ASSUME NEW N \in 1 .. Len(d), N - 1 \in S PROVE N \in S
  <2>1. \A q \in 1 .. N - 1 : SameRuns(d, e, q)
    BY <1>2
  <2>2. SameRuns(d, e, N)
    BY <2>1, SameRunsStep
  <2>3. \A n \in 1 .. N : n = N \/ n \in 1 .. N - 1
    OBVIOUS
  <2> QED BY <2>1, <2>2, <2>3
<1>3. Len(d) \in S
  <2> HIDE DEF S
  <2>1. 0 .. Len(d) \subseteq S
    BY <1>1, <1>2, IntervalInduction
  <2> QED BY <1>1, <2>1
<1> QED BY <1>3

\* No list of entry hashes hides behind another: a Merkle root has one list of leaves
\* (merkle.go:17-20).
THEOREM RootsCommit ==
  ASSUME NEW T, NEW d \in Seq(T), NEW e \in Seq(T), MerkleRoot(d) = MerkleRoot(e)
  PROVE  d = e
<1> DEFINE D == LeafHashes(d)
           E == LeafHashes(e)
           L == {LeafHash(x) : x \in T}
<1>1. /\ D \in Seq(L) /\ Len(D) = Len(d) /\ \A i \in 1 .. Len(d) : D[i] = LeafHash(d[i])
      /\ E \in Seq(L) /\ Len(E) = Len(e) /\ \A i \in 1 .. Len(e) : E[i] = LeafHash(e[i])
  BY DEF LeafHashes
<1>2. Len(d) \in Nat /\ Len(e) \in Nat
  OBVIOUS
<1> HIDE DEF D, E, L
<1>3. AreLeaves(D) /\ AreLeaves(E)
  BY <1>1 DEF AreLeaves
<1>4. ASSUME NEW q \in Seq(L), Len(q) > 0, AreLeaves(q)
      PROVE  Mth(q) # EmptyRoot
  <2>1. Len(q) \in 1 .. Len(q) /\ 1 \in 1 .. Len(q) - Len(q) + 1 /\ 1 \in 1 .. Len(q)
    BY <1>4
  <2>2. \/ Mth(q) = q[1]
        \/ \E l, r : Mth(q) = NodeHash(l, r)
    BY <2>1, RunRoot DEF Mth
  <2>3. PICK x : q[1] = LeafHash(x)
    BY <1>4, <2>1 DEF AreLeaves
  <2>4. LeafHash(x) # EmptyRoot /\ \A l, r : NodeHash(l, r) # EmptyRoot
    <3>1. LeafHash(x).kind = "leaf" /\ EmptyRoot.kind = "empty"
      BY DEF LeafHash, EmptyRoot
    <3>2. \A l, r : NodeHash(l, r).kind = "node"
      BY DEF NodeHash
    <3> QED BY <3>1, <3>2
  <2> QED BY <2>2, <2>3, <2>4
<1>5. CASE d = <<>> \/ e = <<>>
  <2>1. d # <<>> => Len(D) > 0
    BY <1>1, <1>2
  <2>2. e # <<>> => Len(E) > 0
    BY <1>1, <1>2
  <2> QED BY <1>1, <1>3, <1>4, <1>5, <2>1, <2>2 DEF MerkleRoot, D, E
<1>6. CASE d # <<>> /\ e # <<>>
  <2>1. Len(d) \in 1 .. Len(d) /\ Len(e) \in 1 .. Len(e)
    BY <1>2, <1>6
  <2>2. Roots(D)[Len(D)][1] = Roots(E)[Len(E)][1]
    BY <1>6 DEF MerkleRoot, Mth, D, E
  <2>3. SameRuns(D, E, Len(D))
    BY <1>1, <1>3, <2>1, SameRunsAlways
  <2>4. 1 \in 1 .. Len(D) - Len(D) + 1 /\ 1 \in 1 .. Len(E) - Len(E) + 1
    BY <1>1, <1>2
  <2>5. Len(D) = Len(E) /\ \A t \in 0 .. Len(D) - 1 : D[1 + t] = E[1 + t]
    BY <1>1, <2>1, <2>2, <2>3, <2>4 DEF SameRuns, SameLeaves
  <2>6. ASSUME NEW i \in 1 .. Len(d) PROVE d[i] = e[i]
    <3>1. i - 1 \in 0 .. Len(D) - 1 /\ 1 + (i - 1) = i
      BY <1>1, <1>2
    <3>2. D[i] = E[i]
      BY <2>5, <3>1
    <3>3. LeafHash(d[i]) = LeafHash(e[i]) /\ i \in 1 .. Len(e)
      BY <1>1, <2>5, <3>2
    <3>4. LeafHash(d[i]).of = d[i] /\ LeafHash(e[i]).of = e[i]
      BY DEF LeafHash
    <3> QED BY <3>3, <3>4
  <2>7. Len(d) = Len(e)
    BY <1>1, <2>5
  <2> QED BY <2>6, <2>7
<1> QED BY <1>5, <1>6

-----------------------------------------------------------------------------
(* Trees level by level: a root is that of the level above *)

\* The level above: nodes are paired left to right, an unpaired last one is promoted.
Halved(d) ==
  [i \in 1 .. (Len(d) + 1) \div 2 |->
     IF 2 * i > Len(d) THEN d[2 * i - 1] ELSE NodeHash(d[2 * i - 1], d[2 * i])]

\* It is a list of half as many nodes.
LEMMA HalvedType ==
  ASSUME NEW T, NEW d \in Seq(T)
  PROVE  /\ \E E : Halved(d) \in Seq(E)
         /\ Len(Halved(d)) = (Len(d) + 1) \div 2
         /\ \A i \in 1 .. (Len(d) + 1) \div 2 :
              Halved(d)[i] = IF 2 * i > Len(d) THEN d[2 * i - 1]
                             ELSE NodeHash(d[2 * i - 1], d[2 * i])
<1> DEFINE f == Halved(d)
           E == {f[i] : i \in 1 .. (Len(d) + 1) \div 2}
<1>1. PICK h \in Nat : h = (Len(d) + 1) \div 2
  OBVIOUS
<1>2. f = [i \in 1 .. h |-> f[i]]
  BY <1>1 DEF Halved
<1>3. \A i \in 1 .. h : f[i] \in E
  BY <1>1
<1>4. \A i \in 1 .. h :
        f[i] = IF 2 * i > Len(d) THEN d[2 * i - 1] ELSE NodeHash(d[2 * i - 1], d[2 * i])
  BY <1>1 DEF Halved
<1> HIDE DEF f, E
<1>5. f \in [1 .. h -> E]
  BY <1>2, <1>3
<1>6. f \in Seq(E) /\ Len(f) = h
  BY <1>5
<1> QED BY <1>1, <1>4, <1>6 DEF f

\* A run that starts at an odd place and has no lone node but the last of the tree.
PairedRun(d, n, a) ==
  /\ a \in Nat \ {0} /\ 2 * a + n - 2 <= Len(d)
  /\ (\E h \in Nat : n = 2 * h) \/ 2 * a + n - 2 = Len(d)

\* The parts such a run splits into are of the kind too, and so are the halved ones.
LEMMA PairedRunSplits ==
  ASSUME NEW T, NEW d \in Seq(T), NEW n \in Nat, n > 2, NEW a, PairedRun(d, n, a)
  PROVE  \E k \in Nat, l \in Nat, h \in Nat :
           /\ h > 1 /\ h = (n + 1) \div 2 /\ l = LargestPowerOfTwoBelow(h) /\ l \in 1 .. h - 1
           /\ k = LargestPowerOfTwoBelow(n) /\ k = 2 * l /\ k \in 1 .. n - 1
           /\ (k + 1) \div 2 = l /\ (n - k + 1) \div 2 = h - l
           /\ PairedRun(d, k, a) /\ PairedRun(d, n - k, a + l)
<1>1. PICK h \in Nat : h = (n + 1) \div 2
  OBVIOUS
<1>2. h > 1 /\ LargestPowerOfTwoBelow(n) = 2 * LargestPowerOfTwoBelow(h)
  BY <1>1, SplitHalves
<1>3. LargestPowerOfTwoBelow(h) \in 1 .. h - 1 /\ LargestPowerOfTwoBelow(n) \in 1 .. n - 1
  BY <1>2, SplitBounds
<1>4. PICK l \in Nat : l = LargestPowerOfTwoBelow(h)
  BY <1>3
<1>5. PICK k \in Nat : k = LargestPowerOfTwoBelow(n)
  BY <1>3
<1>6. k = 2 * l /\ l \in 1 .. h - 1 /\ k \in 1 .. n - 1
  BY <1>2, <1>3, <1>4, <1>5
<1>7. (k + 1) \div 2 = l /\ (n - k + 1) \div 2 = h - l
  BY <1>1, <1>6
<1>8. a \in Nat \ {0} /\ Len(d) \in Nat /\ 2 * a + n - 2 <= Len(d)
  BY DEF PairedRun
<1>9. PairedRun(d, k, a)
  BY <1>6, <1>8 DEF PairedRun
<1>10. PairedRun(d, n - k, a + l)
  <2>1. ASSUME NEW e \in Nat, n = 2 * e PROVE n - k = 2 * (e - l) /\ e - l \in Nat
    BY <1>6, <2>1
  <2>2. 2 * (a + l) + (n - k) - 2 = 2 * a + n - 2 /\ a + l \in Nat \ {0}
    BY <1>6, <1>8
  <2>3. (\E e \in Nat : n = 2 * e) \/ 2 * a + n - 2 = Len(d)
    BY DEF PairedRun
  <2>4. (\E e \in Nat : n - k = 2 * e) \/ 2 * (a + l) + (n - k) - 2 = Len(d)
    BY <2>1, <2>2, <2>3
  <2> QED BY <1>8, <2>2, <2>4 DEF PairedRun
<1> QED BY <1>1, <1>2, <1>4, <1>5, <1>6, <1>7, <1>9, <1>10

\* A run of the kind in d is the halved run in the level above.
LEMMA PairedRunBounds ==
  ASSUME NEW T, NEW d \in Seq(T), NEW n \in Nat, n >= 1, NEW a, PairedRun(d, n, a)
  PROVE  /\ n \in 1 .. Len(d) /\ 2 * a - 1 \in 1 .. Len(d) - n + 1
         /\ (n + 1) \div 2 \in 1 .. Len(Halved(d))
         /\ a \in 1 .. Len(Halved(d)) - (n + 1) \div 2 + 1
<1>1. PICK h \in Nat : h = (n + 1) \div 2
  OBVIOUS
<1>2. PICK q \in Nat : q = (Len(d) + 1) \div 2
  OBVIOUS
<1>3. a \in Nat \ {0} /\ Len(d) \in Nat /\ 2 * a + n - 2 <= Len(d)
  BY DEF PairedRun
<1>4. n = 2 * h \/ n = 2 * h - 1
  BY <1>1
<1>5. Len(d) = 2 * q \/ Len(d) = 2 * q - 1
  BY <1>2, <1>3
<1>6. a + h - 1 <= q
  BY <1>3, <1>4, <1>5
<1>7. n \in 1 .. Len(d) /\ 2 * a - 1 \in 1 .. Len(d) - n + 1
  BY <1>3
<1>8. h \in 1 .. q /\ a \in 1 .. q - h + 1
  BY <1>3, <1>4, <1>6
<1> QED BY <1>1, <1>2, <1>7, <1>8, HalvedType

\* Halving a tree keeps the roots of its paired runs.
LEMMA HalvedRoots ==
  ASSUME NEW T, NEW d \in Seq(T)
  PROVE  \A n \in Nat \ {0} : \A a : PairedRun(d, n, a) =>
           Roots(d)[n][2 * a - 1] = Roots(Halved(d))[(n + 1) \div 2][a]
<1> DEFINE e == Halved(d)
           Good(n, a) == Roots(d)[n][2 * a - 1] = Roots(e)[(n + 1) \div 2][a]
           Bad == {n \in Nat \ {0} : \E a : PairedRun(d, n, a) /\ ~ Good(n, a)}
<1>1. SUFFICES ASSUME Bad # {} PROVE FALSE
  OBVIOUS
<1>2. PICK n \in Bad : \A z \in Bad : n <= z
  <2>1. Bad \subseteq Nat
    OBVIOUS
  <2> HIDE DEF Bad
  <2> QED BY <1>1, <2>1, Least
<1>3. PICK a : PairedRun(d, n, a) /\ ~ Good(n, a)
  OBVIOUS
<1>4. PICK E : e \in Seq(E)
  BY HalvedType
<1>5. a \in Nat \ {0} /\ n \in Nat \ {0} /\ Len(d) \in Nat /\ 2 * a + n - 2 <= Len(d)
  BY <1>3 DEF PairedRun
<1>6. /\ n \in 1 .. Len(d) /\ 2 * a - 1 \in 1 .. Len(d) - n + 1
      /\ (n + 1) \div 2 \in 1 .. Len(e) /\ a \in 1 .. Len(e) - (n + 1) \div 2 + 1
  BY <1>3, <1>5, PairedRunBounds
<1>7. a \in 1 .. Len(e)
  <2>1. PICK h \in Nat : h = (n + 1) \div 2
    BY <1>5
  <2>2. Len(e) \in Nat
    BY <1>4
  <2> QED BY <1>6, <2>1, <2>2
<1>8. e[a] = IF 2 * a > Len(d) THEN d[2 * a - 1] ELSE NodeHash(d[2 * a - 1], d[2 * a])
  <2>1. a \in 1 .. (Len(d) + 1) \div 2
    BY <1>7, HalvedType
  <2> QED BY <2>1, HalvedType
<1>9. CASE n = 1
  <2>1. 2 * a > Len(d)
    <3>1. 2 * a + n - 2 = Len(d)
      BY <1>3, <1>9 DEF PairedRun
    <3> QED BY <1>5, <1>9, <3>1
  <2>2. Roots(d)[1][2 * a - 1] = d[2 * a - 1]
    BY <1>6, <1>9, RunRoot
  <2>3. (n + 1) \div 2 = 1
    BY <1>9
  <2> HIDE DEF e
  <2>4. Roots(e)[1][a] = e[a]
    BY <1>4, <1>6, <2>3, RunRoot
  <2> QED BY <1>3, <1>8, <1>9, <2>1, <2>2, <2>3, <2>4
<1>10. CASE n = 2
  <2>1. ~ (2 * a > Len(d))
    BY <1>5, <1>10
  <2>2. Roots(d)[2][2 * a - 1] = NodeHash(Roots(d)[1][2 * a - 1], Roots(d)[1][2 * a])
    <3>1. 2 - 1 = 1 /\ 2 * a - 1 + 1 = 2 * a
      BY <1>5
    <3>2. PICK i : i = 2 * a - 1
      OBVIOUS
    <3>3. 2 \in 1 .. Len(d) /\ i \in 1 .. Len(d) - 2 + 1
      BY <1>6, <1>10, <3>2
    <3>4. Roots(d)[2][i] = NodeHash(Roots(d)[1][i], Roots(d)[2 - 1][i + 1])
      BY <3>3, RunRoot, SplitOfTwo
    <3> QED BY <3>1, <3>2, <3>4
  <2>3. Roots(d)[1][2 * a - 1] = d[2 * a - 1] /\ Roots(d)[1][2 * a] = d[2 * a]
    <3>1. 1 \in 1 .. Len(d) /\ 2 * a - 1 \in 1 .. Len(d) - 1 + 1 /\ 2 * a \in 1 .. Len(d) - 1 + 1
      BY <1>5, <1>10
    <3> QED BY <3>1, RunRoot
  <2>4. (n + 1) \div 2 = 1
    BY <1>10
  <2> HIDE DEF e
  <2>5. Roots(e)[1][a] = e[a]
    BY <1>4, <1>6, <2>4, RunRoot
  <2> QED BY <1>3, <1>8, <1>10, <2>1, <2>2, <2>3, <2>4, <2>5
<1>11. CASE n > 2
  <2>1. PICK k \in Nat, l \in Nat, h \in Nat :
           /\ h > 1 /\ h = (n + 1) \div 2 /\ l = LargestPowerOfTwoBelow(h) /\ l \in 1 .. h - 1
           /\ k = LargestPowerOfTwoBelow(n) /\ k = 2 * l /\ k \in 1 .. n - 1
           /\ (k + 1) \div 2 = l /\ (n - k + 1) \div 2 = h - l
           /\ PairedRun(d, k, a) /\ PairedRun(d, n - k, a + l)
    BY <1>3, <1>5, <1>11, PairedRunSplits
  <2>2. k < n /\ n - k < n /\ k \in Nat \ {0} /\ n - k \in Nat \ {0}
    <3>1. k \in 1 .. n - 1 /\ n \in Nat
      BY <1>5, <2>1
    <3> QED BY <3>1
  <2>3. Good(k, a) /\ Good(n - k, a + l)
    <3>1. k \notin Bad /\ n - k \notin Bad
      <4>1. \A z \in Bad : n <= z
        BY <1>2
      <4> HIDE DEF Bad
      <4> QED BY <1>5, <2>2, <4>1
    <3> QED BY <2>1, <2>2, <3>1
  <2>4. 2 * (a + l) - 1 = 2 * a - 1 + k
    <3>1. a \in Nat /\ l \in Nat /\ k = 2 * l
      BY <1>5, <2>1
    <3> QED BY <3>1
  <2>5. Roots(d)[n][2 * a - 1] =
          NodeHash(Roots(d)[k][2 * a - 1], Roots(d)[n - k][2 * a - 1 + k])
    <3>1. PICK i : i = 2 * a - 1
      OBVIOUS
    <3>2. n # 1 /\ n \in 1 .. Len(d) /\ i \in 1 .. Len(d) - n + 1
      BY <1>6, <1>11, <3>1
    <3>3. k = LargestPowerOfTwoBelow(n)
      BY <2>1
    <3>4. Roots(d)[n][i] = NodeHash(Roots(d)[k][i], Roots(d)[n - k][i + k])
      BY <3>2, <3>3, RunRoot
    <3> QED BY <3>1, <3>4
  <2> HIDE DEF e
  <2>6. Roots(e)[h][a] = NodeHash(Roots(e)[l][a], Roots(e)[h - l][a + l])
    <3>1. h # 1 /\ h \in 1 .. Len(e) /\ a \in 1 .. Len(e) - h + 1
      BY <1>6, <2>1
    <3>2. l = LargestPowerOfTwoBelow(h)
      BY <2>1
    <3> QED BY <1>4, <3>1, <3>2, RunRoot
  <2> QED BY <1>3, <2>1, <2>3, <2>4, <2>5, <2>6
<1> QED BY <1>5, <1>9, <1>10, <1>11

\* So it keeps the root of the tree.
LEMMA HalvedRoot ==
  ASSUME NEW T, NEW d \in Seq(T), d # <<>>
  PROVE  Mth(Halved(d)) = Mth(d)
<1>1. Len(d) \in Nat \ {0}
  OBVIOUS
<1>2. PairedRun(d, Len(d), 1)
  BY <1>1 DEF PairedRun
<1>3. Roots(d)[Len(d)][2 * 1 - 1] = Roots(Halved(d))[(Len(d) + 1) \div 2][1]
  BY <1>1, <1>2, HalvedRoots
<1>4. 2 * 1 - 1 = 1
  OBVIOUS
<1> QED BY <1>3, <1>4, HalvedType DEF Mth

-----------------------------------------------------------------------------
(* Runs of nodes, their paths and proofs *)

\* Runs over the same leaves have the same root, whatever trees they are in.
LEMMA RootsOfSameLeaves ==
  ASSUME NEW T, NEW d \in Seq(T), NEW U, NEW e \in Seq(U)
  PROVE  \A n \in Nat \ {0} :
           \A i \in 1 .. Len(d) - n + 1 : \A j \in 1 .. Len(e) - n + 1 :
             SameLeaves(d, e, n, n, i, j) => Roots(d)[n][i] = Roots(e)[n][j]
<1> DEFINE Good(n, i, j) == SameLeaves(d, e, n, n, i, j) => Roots(d)[n][i] = Roots(e)[n][j]
           Bad == {n \in Nat \ {0} :
                     \E i \in 1 .. Len(d) - n + 1 : \E j \in 1 .. Len(e) - n + 1 : ~ Good(n, i, j)}
<1>1. SUFFICES ASSUME Bad # {} PROVE FALSE
  OBVIOUS
<1>2. PICK n \in Bad : \A z \in Bad : n <= z
  <2>1. Bad \subseteq Nat
    OBVIOUS
  <2> HIDE DEF Bad
  <2> QED BY <1>1, <2>1, Least
<1>3. PICK i \in 1 .. Len(d) - n + 1 : \E j \in 1 .. Len(e) - n + 1 : ~ Good(n, i, j)
  OBVIOUS
<1>4. PICK j \in 1 .. Len(e) - n + 1 : ~ Good(n, i, j)
  BY <1>3
<1>5. /\ n \in Nat \ {0} /\ Len(d) \in Nat /\ Len(e) \in Nat
      /\ n \in 1 .. Len(d) /\ n \in 1 .. Len(e)
  OBVIOUS
<1>6. n = 1 => Roots(d)[n][i] = d[i] /\ Roots(e)[n][j] = e[j]
  BY <1>5, RunRoot
<1>7. SameLeaves(d, e, n, n, i, j)
  BY <1>4
<1>8. d[i] = e[j]
  <2>1. 0 \in 0 .. n - 1 /\ i + 0 = i /\ j + 0 = j
    BY <1>5
  <2> QED BY <1>7, <2>1 DEF SameLeaves
<1>9. CASE n = 1
  BY <1>4, <1>6, <1>8, <1>9
<1>10. CASE n # 1
  <2> DEFINE k == LargestPowerOfTwoBelow(n)
  <2>1. k \in 1 .. n - 1
    BY <1>5, <1>10, SplitBounds
  <2>2. /\ Roots(d)[n][i] = NodeHash(Roots(d)[k][i], Roots(d)[n - k][i + k])
        /\ Roots(e)[n][j] = NodeHash(Roots(e)[k][j], Roots(e)[n - k][j + k])
    BY <1>5, <1>10, RunRoot
  <2> HIDE DEF k
  <2>3. k \in Nat \ {0} /\ n - k \in Nat \ {0} /\ k < n /\ n - k < n
    BY <1>5, <2>1
  <2>4. k \notin Bad /\ n - k \notin Bad
    <3> HIDE DEF Bad
    <3> QED BY <1>2, <1>5, <2>3
  <2>5. /\ i \in 1 .. Len(d) - k + 1 /\ i + k \in 1 .. Len(d) - (n - k) + 1
        /\ j \in 1 .. Len(e) - k + 1 /\ j + k \in 1 .. Len(e) - (n - k) + 1
    BY <1>5, <2>1, HalvesAreRuns
  <2>6. SameLeaves(d, e, k, k, i, j)
    <3>1. ASSUME NEW t \in 0 .. k - 1 PROVE d[i + t] = e[j + t]
      <4>1. t \in 0 .. n - 1
        BY <1>5, <2>1
      <4> QED BY <1>7, <4>1 DEF SameLeaves
    <3> QED BY <3>1 DEF SameLeaves
  <2>7. SameLeaves(d, e, n - k, n - k, i + k, j + k)
    <3>1. ASSUME NEW t \in 0 .. n - k - 1 PROVE d[i + k + t] = e[j + k + t]
      <4>1. k + t \in 0 .. n - 1 /\ i + k + t = i + (k + t) /\ j + k + t = j + (k + t)
        BY <1>5, <2>1
      <4> QED BY <1>7, <4>1 DEF SameLeaves
    <3> QED BY <3>1 DEF SameLeaves
  <2>8. Good(k, i, j) /\ Good(n - k, i + k, j + k)
    BY <2>3, <2>4, <2>5
  <2> QED BY <1>4, <2>2, <2>6, <2>7, <2>8
<1> QED BY <1>9, <1>10

-----------------------------------------------------------------------------
(* Audit paths *)

\* The paths in the runs of n nodes, from those in shorter ones.
RunPaths(d, m, f, n) ==
  LET k == LargestPowerOfTwoBelow(n)
  IN  [i \in 1 .. Len(d) - n + 1 |->
         IF n = 1 THEN <<>>
         ELSE IF m + 1 < i + k THEN Append(f[k][i], Roots(d)[n - k][i + k])
         ELSE Append(f[n - k][i + k], Roots(d)[k][i])]

\* They depend on nothing else.
LEMMA RunPathsAgree ==
  ASSUME NEW d, NEW m, NEW n \in Nat \ {0}, NEW f, NEW g, \A j \in 1 .. n - 1 : f[j] = g[j]
  PROVE  RunPaths(d, m, f, n) = RunPaths(d, m, g, n)
<1>1. CASE n = 1
  <2> DEFINE F(h) == [i \in 1 .. Len(d) - 1 + 1 |-> <<>>]
  <2>1. \A h : RunPaths(d, m, h, 1) = F(h)
    BY DEF RunPaths
  <2>2. F(f) = F(g)
    OBVIOUS
  <2> QED BY <1>1, <2>1, <2>2
<1>2. CASE n > 1
  <2> DEFINE k == LargestPowerOfTwoBelow(n)
  <2>1. k \in 1 .. n - 1
    BY <1>2, SplitBounds
  <2>2. n - k \in 1 .. n - 1
    BY <2>1
  <2>3. f[k] = g[k] /\ f[n - k] = g[n - k]
    BY <2>1, <2>2
  <2> QED BY <2>3 DEF RunPaths
<1> QED BY <1>1, <1>2

\* The recursion of Paths has a solution of every length.
LEMMA RunPathsExist ==
  ASSUME NEW d, NEW m, NEW N \in Nat
  PROVE  \E f : f = [n \in 1 .. N |-> RunPaths(d, m, f, n)]
<1> DEFINE S == {M \in 0 .. N : \E f : f = [n \in 1 .. M |-> RunPaths(d, m, f, n)]}
<1>1. 0 \in S
  <2> DEFINE e == [n \in 1 .. 0 |-> {}]
  <2>1. e = [n \in 1 .. 0 |-> RunPaths(d, m, e, n)]
    OBVIOUS
  <2> HIDE DEF e
  <2>2. \E f : f = [n \in 1 .. 0 |-> RunPaths(d, m, f, n)]
    BY <2>1
  <2>3. 0 \in 0 .. N
    OBVIOUS
  <2> QED BY <2>2, <2>3
<1>2. ASSUME NEW M \in 1 .. N, M - 1 \in S PROVE M \in S
  <2>1. PICK f : f = [n \in 1 .. M - 1 |-> RunPaths(d, m, f, n)]
    BY <1>2
  <2> DEFINE g == [n \in 1 .. M |-> RunPaths(d, m, f, n)]
  <2>2. \A n \in 1 .. M - 1 : f[n] = g[n]
    BY <2>1
  <2>3. ASSUME NEW n \in 1 .. M PROVE RunPaths(d, m, f, n) = RunPaths(d, m, g, n)
    <3> HIDE DEF g
    <3>1. n \in Nat \ {0} /\ \A j \in 1 .. n - 1 : j \in 1 .. M - 1
      OBVIOUS
    <3>2. \A j \in 1 .. n - 1 : f[j] = g[j]
      BY <2>2, <3>1
    <3> QED BY <3>1, <3>2, RunPathsAgree
  <2>4. g = [n \in 1 .. M |-> RunPaths(d, m, g, n)]
    <3> DEFINE h == [n \in 1 .. M |-> RunPaths(d, m, g, n)]
    <3>1. g = h
      BY <2>3
    <3> QED BY <3>1
  <2> HIDE DEF g
  <2> QED BY <2>4
<1>3. N \in S
  <2> HIDE DEF S
  <2>1. 0 .. N \subseteq S
    BY <1>1, <1>2, IntervalInduction
  <2> QED BY <2>1
<1> QED BY <1>3

\* Paths is what its recursion says.
LEMMA RunPathsDef ==
  ASSUME NEW T, NEW d \in Seq(T), NEW m, NEW n \in 1 .. Len(d)
  PROVE  Paths(d, m)[n] = RunPaths(d, m, Paths(d, m), n)
<1> DEFINE F(f) == [q \in DOMAIN d |-> RunPaths(d, m, f, q)]
<1>1. DOMAIN d = 1 .. Len(d) /\ Len(d) \in Nat
  OBVIOUS
<1>2. PICK f : f = [q \in 1 .. Len(d) |-> RunPaths(d, m, f, q)]
  BY <1>1, RunPathsExist
<1>3. Paths(d, m) = CHOOSE g : g = F(g)
  BY DEF Paths, RunPaths
<1>4. f = F(f)
  BY <1>1, <1>2
<1> HIDE DEF F
<1>5. Paths(d, m) = F(Paths(d, m))
  BY <1>3, <1>4
<1> QED BY <1>1, <1>5 DEF F

\* The path in a run of one node is empty.
LEMMA PathOfOne ==
  ASSUME NEW T, NEW d \in Seq(T), NEW m, NEW i \in 1 .. Len(d)
  PROVE  Paths(d, m)[1][i] = <<>>
<1>1. 1 \in 1 .. Len(d) /\ i \in 1 .. Len(d) - 1 + 1
  OBVIOUS
<1>2. Paths(d, m)[1] = RunPaths(d, m, Paths(d, m), 1)
  BY <1>1, RunPathsDef
<1> QED BY <1>1, <1>2 DEF RunPaths

\* The path in the run of n nodes from place i on, split at k: the path in the half the node
\* is in, and the root of the other half.
PathSplits(d, m, n, i, k) ==
  /\ m + 1 < i + k =>
       Paths(d, m)[n][i] = Append(Paths(d, m)[k][i], Roots(d)[n - k][i + k])
  /\ ~ (m + 1 < i + k) =>
       Paths(d, m)[n][i] = Append(Paths(d, m)[n - k][i + k], Roots(d)[k][i])

\* That is what it is in a run of two nodes or more.
LEMMA RunPath ==
  ASSUME NEW T, NEW d \in Seq(T), NEW m, NEW n \in 1 .. Len(d), n # 1,
         NEW i \in 1 .. Len(d) - n + 1, NEW k, k = LargestPowerOfTwoBelow(n)
  PROVE  PathSplits(d, m, n, i, k)
<1>1. Paths(d, m)[n] = RunPaths(d, m, Paths(d, m), n)
  BY RunPathsDef
<1>2. Paths(d, m)[n][i] =
        IF n = 1 THEN <<>>
        ELSE IF m + 1 < i + k THEN Append(Paths(d, m)[k][i], Roots(d)[n - k][i + k])
        ELSE Append(Paths(d, m)[n - k][i + k], Roots(d)[k][i])
  BY <1>1 DEF RunPaths
<1> QED BY <1>2, Zenon DEF PathSplits

\* The consistency proofs in the runs of n nodes, from those in shorter ones.
RunSubProofs(d, m, f, n) ==
  LET k == LargestPowerOfTwoBelow(n)
  IN  [i \in (1 .. Len(d) - n + 1) \cap (m - n + 1 .. m) |->
         IF m + 1 = i + n THEN IF i = 1 THEN <<>> ELSE <<Roots(d)[n][i]>>
         ELSE IF m < i + k THEN Append(f[k][i], Roots(d)[n - k][i + k])
         ELSE Append(f[n - k][i + k], Roots(d)[k][i])]

\* They depend on nothing else.
LEMMA RunSubProofsAgree ==
  ASSUME NEW d, NEW m \in Nat, NEW n \in Nat \ {0}, NEW f, NEW g,
         \A j \in 1 .. n - 1 : f[j] = g[j]
  PROVE  RunSubProofs(d, m, f, n) = RunSubProofs(d, m, g, n)
<1> DEFINE k == LargestPowerOfTwoBelow(n)
           D == (1 .. Len(d) - n + 1) \cap (m - n + 1 .. m)
           P(h, i) ==
             IF m + 1 = i + n THEN IF i = 1 THEN <<>> ELSE <<Roots(d)[n][i]>>
             ELSE IF m < i + k THEN Append(h[k][i], Roots(d)[n - k][i + k])
             ELSE Append(h[n - k][i + k], Roots(d)[k][i])
<1>1. \A h : RunSubProofs(d, m, h, n) = [i \in D |-> P(h, i)]
  BY DEF RunSubProofs
<1>2. ASSUME NEW i \in D, m + 1 # i + n PROVE f[k] = g[k] /\ f[n - k] = g[n - k]
  <2>1. n > 1
    <3>1. i \in m - n + 1 .. m
      OBVIOUS
    <3> QED BY <1>2, <3>1
  <2>2. k \in 1 .. n - 1
    BY <2>1, SplitBounds
  <2>3. n - k \in 1 .. n - 1
    BY <2>2
  <2> QED BY <2>2, <2>3
<1>3. ASSUME NEW i \in D PROVE P(f, i) = P(g, i)
  BY <1>2
<1> HIDE DEF D, P
<1> QED BY <1>1, <1>3

\* The recursion of SubProofs has a solution of every length.
LEMMA RunSubProofsExist ==
  ASSUME NEW d, NEW m \in Nat, NEW N \in Nat
  PROVE  \E f : f = [n \in 1 .. N |-> RunSubProofs(d, m, f, n)]
<1> DEFINE S == {M \in 0 .. N : \E f : f = [n \in 1 .. M |-> RunSubProofs(d, m, f, n)]}
<1>1. 0 \in S
  <2> DEFINE e == [n \in 1 .. 0 |-> {}]
  <2>1. e = [n \in 1 .. 0 |-> RunSubProofs(d, m, e, n)]
    OBVIOUS
  <2> HIDE DEF e
  <2>2. \E f : f = [n \in 1 .. 0 |-> RunSubProofs(d, m, f, n)]
    BY <2>1
  <2>3. 0 \in 0 .. N
    OBVIOUS
  <2> QED BY <2>2, <2>3
<1>2. ASSUME NEW M \in 1 .. N, M - 1 \in S PROVE M \in S
  <2>1. PICK f : f = [n \in 1 .. M - 1 |-> RunSubProofs(d, m, f, n)]
    BY <1>2
  <2> DEFINE g == [n \in 1 .. M |-> RunSubProofs(d, m, f, n)]
  <2>2. \A n \in 1 .. M - 1 : f[n] = g[n]
    BY <2>1
  <2>3. ASSUME NEW n \in 1 .. M PROVE RunSubProofs(d, m, f, n) = RunSubProofs(d, m, g, n)
    <3> HIDE DEF g
    <3>1. n \in Nat \ {0} /\ \A j \in 1 .. n - 1 : j \in 1 .. M - 1
      OBVIOUS
    <3>2. \A j \in 1 .. n - 1 : f[j] = g[j]
      BY <2>2, <3>1
    <3> QED BY <3>1, <3>2, RunSubProofsAgree
  <2>4. g = [n \in 1 .. M |-> RunSubProofs(d, m, g, n)]
    <3> DEFINE h == [n \in 1 .. M |-> RunSubProofs(d, m, g, n)]
    <3>1. g = h
      BY <2>3
    <3> QED BY <3>1
  <2> HIDE DEF g
  <2> QED BY <2>4
<1>3. N \in S
  <2> HIDE DEF S
  <2>1. 0 .. N \subseteq S
    BY <1>1, <1>2, IntervalInduction
  <2> QED BY <2>1
<1> QED BY <1>3

\* SubProofs is what its recursion says.
LEMMA RunSubProofsDef ==
  ASSUME NEW T, NEW d \in Seq(T), NEW m \in Nat, NEW n \in 1 .. Len(d)
  PROVE  SubProofs(d, m)[n] = RunSubProofs(d, m, SubProofs(d, m), n)
<1> DEFINE F(f) == [q \in DOMAIN d |-> RunSubProofs(d, m, f, q)]
<1>1. DOMAIN d = 1 .. Len(d) /\ Len(d) \in Nat
  OBVIOUS
<1>2. PICK f : f = [q \in 1 .. Len(d) |-> RunSubProofs(d, m, f, q)]
  BY <1>1, RunSubProofsExist
<1>3. SubProofs(d, m) = CHOOSE g : g = F(g)
  BY DEF SubProofs, RunSubProofs
<1>4. f = F(f)
  BY <1>1, <1>2
<1> HIDE DEF F
<1>5. SubProofs(d, m) = F(SubProofs(d, m))
  BY <1>3, <1>4
<1> QED BY <1>1, <1>5 DEF F

\* The proof in the run of n nodes from place i on, split at k: nothing or the run's root when
\* the run ends at node m, or the proof in the half that node is in, and the root of the other.
SubProofSplits(d, m, n, i, k) ==
  /\ m + 1 = i + n =>
       SubProofs(d, m)[n][i] = IF i = 1 THEN <<>> ELSE <<Roots(d)[n][i]>>
  /\ m + 1 # i + n /\ m < i + k =>
       SubProofs(d, m)[n][i] = Append(SubProofs(d, m)[k][i], Roots(d)[n - k][i + k])
  /\ m + 1 # i + n /\ ~ (m < i + k) =>
       SubProofs(d, m)[n][i] = Append(SubProofs(d, m)[n - k][i + k], Roots(d)[k][i])

\* That is what it is in every run.
LEMMA RunSubProof ==
  ASSUME NEW T, NEW d \in Seq(T), NEW m \in Nat, NEW n \in 1 .. Len(d),
         NEW i \in 1 .. Len(d) - n + 1, i <= m, m < i + n,
         NEW k, k = LargestPowerOfTwoBelow(n)
  PROVE  SubProofSplits(d, m, n, i, k)
<1>1. SubProofs(d, m)[n] = RunSubProofs(d, m, SubProofs(d, m), n)
  BY RunSubProofsDef
<1>2. i \in (1 .. Len(d) - n + 1) \cap (m - n + 1 .. m)
  OBVIOUS
<1>3. SubProofs(d, m)[n][i] =
        IF m + 1 = i + n THEN IF i = 1 THEN <<>> ELSE <<Roots(d)[n][i]>>
        ELSE IF m < i + k THEN Append(SubProofs(d, m)[k][i], Roots(d)[n - k][i + k])
        ELSE Append(SubProofs(d, m)[n - k][i + k], Roots(d)[k][i])
  BY <1>1, <1>2 DEF RunSubProofs
<1> QED BY <1>3, Zenon DEF SubProofSplits

-----------------------------------------------------------------------------
(* Paths, level by level *)

\* The roots of all runs of a tree.
Nodes(d) == UNION {{Roots(d)[n][i] : i \in 1 .. Len(d) - n + 1} : n \in 1 .. Len(d)}

\* A path is a list of such roots.
LEMMA PathsType ==
  ASSUME NEW T, NEW d \in Seq(T), NEW m
  PROVE  \A n \in 1 .. Len(d) : \A i \in 1 .. Len(d) - n + 1 : Paths(d, m)[n][i] \in Seq(Nodes(d))
<1> DEFINE Bad == {n \in 1 .. Len(d) : \E i \in 1 .. Len(d) - n + 1 :
                     Paths(d, m)[n][i] \notin Seq(Nodes(d))}
<1>1. SUFFICES ASSUME Bad # {} PROVE FALSE
  OBVIOUS
<1>2. PICK n \in Bad : \A z \in Bad : n <= z
  <2>1. Bad \subseteq Nat
    OBVIOUS
  <2> HIDE DEF Bad
  <2> QED BY <1>1, <2>1, Least
<1>3. PICK i \in 1 .. Len(d) - n + 1 : Paths(d, m)[n][i] \notin Seq(Nodes(d))
  OBVIOUS
<1>4. n \in 1 .. Len(d) /\ Len(d) \in Nat
  OBVIOUS
<1>5. CASE n = 1
  <2>1. Paths(d, m)[n][i] = <<>>
    BY <1>4, <1>5, PathOfOne
  <2> QED BY <1>3, <2>1
<1>6. CASE n # 1
  <2>0. PICK k : k = LargestPowerOfTwoBelow(n)
    OBVIOUS
  <2>1. k \in 1 .. n - 1
    <3>1. n \in Nat /\ n > 1
      BY <1>4, <1>6
    <3> QED BY <2>0, <3>1, SplitBounds
  <2>2. \/ Paths(d, m)[n][i] = Append(Paths(d, m)[k][i], Roots(d)[n - k][i + k])
        \/ Paths(d, m)[n][i] = Append(Paths(d, m)[n - k][i + k], Roots(d)[k][i])
    <3>1. PathSplits(d, m, n, i, k)
      BY <1>4, <1>6, <2>0, RunPath
    <3> QED BY <3>1 DEF PathSplits
  <2>3. /\ k \in 1 .. Len(d) /\ n - k \in 1 .. Len(d) /\ k < n /\ n - k < n
        /\ i \in 1 .. Len(d) - k + 1 /\ i + k \in 1 .. Len(d) - (n - k) + 1
    <3>1. n - k < n /\ k < n
      BY <1>4, <2>1
    <3> QED BY <1>4, <2>1, <3>1, HalvesAreRuns
  <2>4. k \notin Bad /\ n - k \notin Bad
    <3> HIDE DEF Bad
    <3> QED BY <1>2, <1>4, <2>3
  <2>5. Paths(d, m)[k][i] \in Seq(Nodes(d)) /\ Paths(d, m)[n - k][i + k] \in Seq(Nodes(d))
    BY <2>3, <2>4
  <2>6. Roots(d)[n - k][i + k] \in Nodes(d) /\ Roots(d)[k][i] \in Nodes(d)
    <3>1. \A l \in 1 .. Len(d) : \A j \in 1 .. Len(d) - l + 1 : Roots(d)[l][j] \in Nodes(d)
      BY DEF Nodes
    <3> QED BY <2>3, <3>1
  <2>7. \A p \in Seq(Nodes(d)) : \A r \in Nodes(d) : Append(p, r) \in Seq(Nodes(d))
    OBVIOUS
  <2> QED BY <1>3, <2>2, <2>5, <2>6, <2>7, Zenon
<1> QED BY <1>5, <1>6

\* The sibling of node 2q + b, counted from 0: the lone last node has none.
Sibling(d, q, b) ==
  IF b = 1 THEN <<d[2 * q + 1]>> ELSE IF 2 * q + 1 = Len(d) THEN <<>> ELSE <<d[2 * q + 2]>>

\* An element can be put at the end before or after a list is put in front.
AppendsBehind(x, y, r) == x \o Append(y, r) = Append(x \o y, r)

\* That is so for any two lists.
LEMMA ConcatAppend ==
  ASSUME NEW A, NEW B, NEW x, NEW y, NEW r, x \in Seq(A), y \in Seq(B)
  PROVE  AppendsBehind(x, y, r)
<1> DEFINE C == A \cup B \cup {r}
<1>1. x \in Seq(C) /\ y \in Seq(C) /\ r \in C
  OBVIOUS
<1> HIDE DEF C
<1> QED BY <1>1 DEF AppendsBehind

\* Node m = 2q + b is in the run of n from place 2a - 1 on.
Holds(n, a, m) == 2 * a - 2 <= m /\ m <= 2 * a + n - 3

\* In such a run, the node's path is its sibling, if it has one, and its parent's path.
HalvedPathOf(d, m, q, b, n, a) ==
  Paths(d, m)[n][2 * a - 1] = Sibling(d, q, b) \o Paths(Halved(d), q)[(n + 1) \div 2][a]

\* The path of a node is its sibling, if it has one, and the path of their parent.
LEMMA HalvedPaths ==
  ASSUME NEW T, NEW d \in Seq(T), NEW m \in Nat, NEW q \in Nat, NEW b \in 0 .. 1,
         m = 2 * q + b, m < Len(d)
  PROVE  \A n \in Nat \ {0} : \A a :
           PairedRun(d, n, a) /\ Holds(n, a, m) => HalvedPathOf(d, m, q, b, n, a)
<1> DEFINE e == Halved(d)
           Good(n, a) == Paths(d, m)[n][2 * a - 1] =
                           Sibling(d, q, b) \o Paths(e, q)[(n + 1) \div 2][a]
           Bad == {n \in Nat \ {0} : \E a : PairedRun(d, n, a) /\ Holds(n, a, m) /\ ~ Good(n, a)}
<1>1. SUFFICES ASSUME Bad # {} PROVE FALSE
  BY DEF HalvedPathOf
<1>2. PICK n \in Bad : \A z \in Bad : n <= z
  <2>1. Bad \subseteq Nat
    OBVIOUS
  <2> HIDE DEF Bad
  <2> QED BY <1>1, <2>1, Least
<1>3. PICK a : PairedRun(d, n, a) /\ Holds(n, a, m) /\ ~ Good(n, a)
  OBVIOUS
<1>4. PICK E : e \in Seq(E)
  BY HalvedType
<1>5. /\ a \in Nat \ {0} /\ n \in Nat \ {0} /\ Len(d) \in Nat /\ 2 * a + n - 2 <= Len(d)
  BY <1>3 DEF PairedRun
<1>6. /\ n \in 1 .. Len(d) /\ 2 * a - 1 \in 1 .. Len(d) - n + 1
      /\ (n + 1) \div 2 \in 1 .. Len(e) /\ a \in 1 .. Len(e) - (n + 1) \div 2 + 1
  BY <1>3, <1>5, PairedRunBounds
<1>7. 2 * a - 2 <= m /\ m <= 2 * a + n - 3
  BY <1>3 DEF Holds
<1>8. CASE n = 1
  <2>1. 2 * a + n - 2 = Len(d)
    BY <1>3, <1>5, <1>8 DEF PairedRun
  <2>2. b = 0 /\ 2 * q + 1 = Len(d)
    BY <1>5, <1>7, <1>8, <2>1
  <2>3. Paths(d, m)[1][2 * a - 1] = <<>>
    <3>1. PICK i : i = 2 * a - 1
      OBVIOUS
    <3>2. i \in 1 .. Len(d)
      BY <1>5, <1>6, <1>8, <3>1
    <3> HIDE DEF Bad, Good
    <3> QED BY <3>1, <3>2, PathOfOne
  <2>4. (n + 1) \div 2 = 1
    BY <1>8
  <2> HIDE DEF e
  <2>5. Paths(e, q)[1][a] = <<>>
    BY <1>4, <1>6, <2>4, PathOfOne
  <2>6. Sibling(d, q, b) \o <<>> = <<>>
    BY <2>2 DEF Sibling
  <2> QED BY <1>3, <1>8, <2>3, <2>4, <2>5, <2>6
<1>9. CASE n = 2
  <2>1. a = q + 1 /\ 2 * a <= Len(d)
    BY <1>5, <1>7, <1>9
  <2>2. (n + 1) \div 2 = 1
    BY <1>9
  <2>3. PICK i : i = 2 * a - 1
    OBVIOUS
  <2>4. 2 \in 1 .. Len(d) /\ i \in 1 .. Len(d) - 2 + 1 /\ 2 # 1 /\ 2 - 1 = 1
    BY <1>6, <1>9, <2>3
  <2>5. /\ 1 \in 1 .. Len(d) /\ i \in 1 .. Len(d) - 1 + 1 /\ i + 1 \in 1 .. Len(d) - 1 + 1
        /\ i = 2 * q + 1 /\ i + 1 = 2 * q + 2
    BY <1>5, <2>1, <2>3
  <2>6. /\ Roots(d)[1][i] = d[i] /\ Roots(d)[1][i + 1] = d[i + 1]
        /\ Paths(d, m)[1][i] = <<>> /\ Paths(d, m)[1][i + 1] = <<>>
    BY <2>5, RunRoot, PathOfOne
  <2>7. /\ m + 1 < i + 1 => Paths(d, m)[2][i] = Append(<<>>, d[i + 1])
        /\ ~ (m + 1 < i + 1) => Paths(d, m)[2][i] = Append(<<>>, d[i])
    <3>1. PathSplits(d, m, 2, i, 1)
      BY <2>4, RunPath, SplitOfTwo
    <3> QED BY <2>4, <2>6, <3>1 DEF PathSplits
  <2>8. m + 1 < i + 1 <=> b = 0
    BY <2>5
  <2>9. Paths(d, m)[2][i] = Sibling(d, q, b)
    <3>1. 2 * q + 1 # Len(d)
      BY <1>5, <2>1
    <3>2. b = 0 \/ b = 1
      OBVIOUS
    <3>3. Append(<<>>, d[i + 1]) = <<d[2 * q + 2]>> /\ Append(<<>>, d[i]) = <<d[2 * q + 1]>>
      BY <2>5
    <3> QED BY <2>7, <2>8, <3>1, <3>2, <3>3, Zenon DEF Sibling
  <2> HIDE DEF e
  <2>10. Paths(e, q)[1][a] = <<>>
    BY <1>4, <1>6, <2>2, PathOfOne
  <2>11. Sibling(d, q, b) \o <<>> = Sibling(d, q, b)
    BY DEF Sibling
  <2> QED BY <1>3, <1>9, <2>2, <2>3, <2>9, <2>10, <2>11
<1>10. CASE n > 2
  <2>1. PICK k \in Nat, l \in Nat, h \in Nat :
           /\ h > 1 /\ h = (n + 1) \div 2 /\ l = LargestPowerOfTwoBelow(h) /\ l \in 1 .. h - 1
           /\ k = LargestPowerOfTwoBelow(n) /\ k = 2 * l /\ k \in 1 .. n - 1
           /\ (k + 1) \div 2 = l /\ (n - k + 1) \div 2 = h - l
           /\ PairedRun(d, k, a) /\ PairedRun(d, n - k, a + l)
    BY <1>3, <1>5, <1>10, PairedRunSplits
  <2>2. k < n /\ n - k < n /\ k \in Nat \ {0} /\ n - k \in Nat \ {0} /\ k = 2 * l
    <3>1. k \in 1 .. n - 1 /\ n \in Nat /\ k = 2 * l
      BY <1>5, <2>1
    <3> QED BY <3>1
  <2>3. PICK i : i = 2 * a - 1
    OBVIOUS
  <2>4. 2 * (a + l) - 1 = i + k
    BY <1>5, <2>2, <2>3
  <2>5. k \notin Bad /\ n - k \notin Bad
    <3>1. \A z \in Bad : n <= z
      BY <1>2
    <3> HIDE DEF Bad
    <3> QED BY <1>5, <2>2, <3>1
  <2>6. /\ m + 1 < i + k =>
             Paths(d, m)[n][i] = Append(Paths(d, m)[k][i], Roots(d)[n - k][i + k])
        /\ ~ (m + 1 < i + k) =>
             Paths(d, m)[n][i] = Append(Paths(d, m)[n - k][i + k], Roots(d)[k][i])
    <3>1. n # 1 /\ n \in 1 .. Len(d) /\ i \in 1 .. Len(d) - n + 1
      BY <1>6, <1>10, <2>3
    <3>2. k = LargestPowerOfTwoBelow(n)
      BY <2>1
    <3>3. PathSplits(d, m, n, i, k)
      BY <3>1, <3>2, RunPath
    <3> QED BY <3>3 DEF PathSplits
  <2>7. h = (n + 1) \div 2 /\ h # 1 /\ h \in 1 .. Len(e) /\ a \in 1 .. Len(e) - h + 1
    BY <1>6, <2>1
  <2>8. l \in 1 .. h - 1 /\ l = LargestPowerOfTwoBelow(h)
    BY <2>1
  <2>9. /\ q + 1 < a + l =>
             Paths(e, q)[h][a] = Append(Paths(e, q)[l][a], Roots(e)[h - l][a + l])
        /\ ~ (q + 1 < a + l) =>
             Paths(e, q)[h][a] = Append(Paths(e, q)[h - l][a + l], Roots(e)[l][a])
    <3> HIDE DEF e
    <3>1. PathSplits(e, q, h, a, l)
      BY <1>4, <2>7, <2>8, RunPath
    <3> QED BY <3>1 DEF PathSplits
  <2>10. /\ Roots(d)[n - k][i + k] = Roots(e)[h - l][a + l]
         /\ Roots(d)[k][i] = Roots(e)[l][a]
    <3>1. PairedRun(d, k, a) /\ PairedRun(d, n - k, a + l)
      BY <2>1
    <3>2. (k + 1) \div 2 = l /\ (n - k + 1) \div 2 = h - l
      BY <2>1
    <3>3. /\ Roots(d)[k][2 * a - 1] = Roots(e)[(k + 1) \div 2][a]
          /\ Roots(d)[n - k][2 * (a + l) - 1] = Roots(e)[(n - k + 1) \div 2][a + l]
      BY <2>2, <3>1, HalvedRoots
    <3> QED BY <2>3, <2>4, <3>2, <3>3
  <2>11. /\ Paths(e, q)[l][a] \in Seq(Nodes(e)) /\ Paths(e, q)[h - l][a + l] \in Seq(Nodes(e))
    <3>1. Len(e) \in Nat
      BY <1>4
    <3>2. /\ l \in 1 .. Len(e) /\ h - l \in 1 .. Len(e)
          /\ a \in 1 .. Len(e) - l + 1 /\ a + l \in 1 .. Len(e) - (h - l) + 1
      BY <2>7, <2>8, <3>1, HalvesAreRuns
    <3> HIDE DEF e
    <3> QED BY <1>4, <3>2, PathsType
  <2>12. \E A : Sibling(d, q, b) \in Seq(A)
    <3>1. /\ <<d[2 * q + 1]>> \in Seq({d[2 * q + 1]}) /\ <<d[2 * q + 2]>> \in Seq({d[2 * q + 2]})
          /\ <<>> \in Seq({})
      OBVIOUS
    <3> QED BY <3>1 DEF Sibling
  <2>13. m + 1 < i + k <=> q + 1 < a + l
    BY <1>5, <2>2, <2>3
  <2>14. CASE q + 1 < a + l
    <3>1. Holds(k, a, m)
      BY <1>5, <1>7, <2>2, <2>14 DEF Holds
    <3>2. Good(k, a)
      BY <2>1, <2>2, <2>5, <3>1
    <3>3. Paths(d, m)[k][i] = Sibling(d, q, b) \o Paths(e, q)[l][a]
      BY <2>1, <2>3, <3>2
    <3> HIDE DEF e
    <3>4. PICK x : x = Sibling(d, q, b)
      OBVIOUS
    <3>5. PICK y : y = Paths(e, q)[l][a]
      OBVIOUS
    <3>6. PICK r : r = Roots(e)[h - l][a + l]
      OBVIOUS
    <3>7. x \o Append(y, r) = Append(x \o y, r)
      <4>1. PICK A : x \in Seq(A)
        BY <2>12, <3>4
      <4>2. PICK B : y \in Seq(B)
        BY <2>11, <3>5
      <4>3. AppendsBehind(x, y, r)
        BY <4>1, <4>2, ConcatAppend
      <4> QED BY <4>3 DEF AppendsBehind
    <3>8. Paths(d, m)[n][i] = Append(x \o y, r) /\ Paths(e, q)[h][a] = Append(y, r)
      BY <2>6, <2>9, <2>10, <2>13, <2>14, <3>3, <3>4, <3>5, <3>6
    <3>9. Paths(d, m)[n][i] = Sibling(d, q, b) \o Paths(e, q)[h][a]
      BY <3>4, <3>7, <3>8
    <3>10. Good(n, a)
      <4> HIDE DEF Bad
      <4> QED BY <2>3, <2>7, <3>9
    <3> QED BY <1>3, <3>10
  <2>15. CASE ~ (q + 1 < a + l)
    <3>1. Holds(n - k, a + l, m)
      <4>1. 2 * (a + l) - 2 <= m
        BY <1>5, <2>2, <2>15
      <4>2. 2 * (a + l) + (n - k) - 3 = 2 * a + n - 3
        BY <1>5, <2>2
      <4> QED BY <1>7, <4>1, <4>2 DEF Holds
    <3>2. Good(n - k, a + l)
      BY <2>1, <2>2, <2>5, <3>1
    <3>3. Paths(d, m)[n - k][i + k] = Sibling(d, q, b) \o Paths(e, q)[h - l][a + l]
      BY <2>1, <2>4, <3>2
    <3> HIDE DEF e
    <3>4. PICK x : x = Sibling(d, q, b)
      OBVIOUS
    <3>5. PICK y : y = Paths(e, q)[h - l][a + l]
      OBVIOUS
    <3>6. PICK r : r = Roots(e)[l][a]
      OBVIOUS
    <3>7. x \o Append(y, r) = Append(x \o y, r)
      <4>1. PICK A : x \in Seq(A)
        BY <2>12, <3>4
      <4>2. PICK B : y \in Seq(B)
        BY <2>11, <3>5
      <4>3. AppendsBehind(x, y, r)
        BY <4>1, <4>2, ConcatAppend
      <4> QED BY <4>3 DEF AppendsBehind
    <3>8. Paths(d, m)[n][i] = Append(x \o y, r) /\ Paths(e, q)[h][a] = Append(y, r)
      BY <2>6, <2>9, <2>10, <2>13, <2>15, <3>3, <3>4, <3>5, <3>6
    <3>9. Paths(d, m)[n][i] = Sibling(d, q, b) \o Paths(e, q)[h][a]
      BY <3>4, <3>7, <3>8
    <3>10. Good(n, a)
      <4> HIDE DEF Bad
      <4> QED BY <2>3, <2>7, <3>9
    <3> QED BY <1>3, <3>10
  <2> QED BY <2>14, <2>15
<1> HIDE DEF Bad, Good, e
<1>11. n = 1 \/ n = 2 \/ n > 2
  BY <1>5
<1> QED BY <1>8, <1>9, <1>10, <1>11

\* The same for the whole tree.
LEMMA HalvedPath ==
  ASSUME NEW T, NEW d \in Seq(T), NEW m \in Nat, NEW q \in Nat, NEW b \in 0 .. 1,
         m = 2 * q + b, m < Len(d)
  PROVE  Path(d, m) = Sibling(d, q, b) \o Path(Halved(d), q)
<1>1. Len(d) \in Nat \ {0}
  OBVIOUS
<1>2. PairedRun(d, Len(d), 1) /\ Holds(Len(d), 1, m)
  BY <1>1 DEF PairedRun, Holds
<1>3. HalvedPathOf(d, m, q, b, Len(d), 1)
  BY <1>1, <1>2, HalvedPaths
<1>4. 2 * 1 - 1 = 1
  OBVIOUS
<1> QED BY <1>3, <1>4, HalvedType DEF Path, HalvedPathOf

-----------------------------------------------------------------------------
(* Consistency proofs, level by level *)

\* In a paired run with node m = 2p, the proof is the one for half as many in the level above.
HalvedSubProofOf(d, m, p, n, a) ==
  SubProofs(d, m)[n][2 * a - 1] = SubProofs(Halved(d), p)[(n + 1) \div 2][a]

\* An even number of nodes has the proof that half as many have in the level above.
LEMMA HalvedSubProofs ==
  ASSUME NEW T, NEW d \in Seq(T), NEW m \in Nat, NEW p \in Nat, m = 2 * p, m > 0
  PROVE  \A n \in Nat \ {0} : \A a :
           PairedRun(d, n, a) /\ Holds(n, a, m - 1) => HalvedSubProofOf(d, m, p, n, a)
<1> DEFINE e == Halved(d)
           Good(n, a) ==
             SubProofs(d, m)[n][2 * a - 1] = SubProofs(e, p)[(n + 1) \div 2][a]
           Bad == {n \in Nat \ {0} :
                     \E a : PairedRun(d, n, a) /\ Holds(n, a, m - 1) /\ ~ Good(n, a)}
<1>1. SUFFICES ASSUME Bad # {} PROVE FALSE
  BY DEF HalvedSubProofOf
<1>2. PICK n \in Bad : \A z \in Bad : n <= z
  <2>1. Bad \subseteq Nat
    OBVIOUS
  <2> HIDE DEF Bad
  <2> QED BY <1>1, <2>1, Least
<1>3. PICK a : PairedRun(d, n, a) /\ Holds(n, a, m - 1) /\ ~ Good(n, a)
  OBVIOUS
<1>4. PICK E : e \in Seq(E)
  BY HalvedType
<1>5. a \in Nat \ {0} /\ n \in Nat \ {0} /\ Len(d) \in Nat /\ 2 * a + n - 2 <= Len(d)
  BY <1>3 DEF PairedRun
<1>6. /\ n \in 1 .. Len(d) /\ 2 * a - 1 \in 1 .. Len(d) - n + 1
      /\ (n + 1) \div 2 \in 1 .. Len(e) /\ a \in 1 .. Len(e) - (n + 1) \div 2 + 1
  BY <1>3, <1>5, PairedRunBounds
<1>7. 2 * a - 1 <= m /\ m < 2 * a - 1 + n
  BY <1>3, <1>5 DEF Holds
<1>8. PICK i \in Nat : i = 2 * a - 1
  BY <1>5
<1>9. PICK h \in Nat : h = (n + 1) \div 2
  BY <1>5
<1>10. n = 2 * h \/ n = 2 * h - 1
  BY <1>5, <1>9
<1>11. a <= p /\ p < a + h
  BY <1>5, <1>7, <1>10
<1>12. SubProofSplits(d, m, n, i, LargestPowerOfTwoBelow(n))
  BY <1>6, <1>7, <1>8, RunSubProof
<1>13. SubProofSplits(e, p, h, a, LargestPowerOfTwoBelow(h))
  <2>1. h \in 1 .. Len(e) /\ a \in 1 .. Len(e) - h + 1
    BY <1>6, <1>9
  <2> HIDE DEF e
  <2> QED BY <1>4, <1>11, <2>1, RunSubProof
<1>14. CASE m + 1 = i + n
  <2>1. n = 2 * h /\ p + 1 = a + h
    BY <1>5, <1>8, <1>10, <1>14
  <2>2. SubProofs(d, m)[n][i] = IF i = 1 THEN <<>> ELSE <<Roots(d)[n][i]>>
    BY <1>12, <1>14 DEF SubProofSplits
  <2>3. SubProofs(e, p)[h][a] = IF a = 1 THEN <<>> ELSE <<Roots(e)[h][a]>>
    BY <1>13, <2>1 DEF SubProofSplits
  <2>4. Roots(d)[n][i] = Roots(e)[h][a]
    BY <1>3, <1>5, <1>8, <1>9, HalvedRoots
  <2>5. i = 1 <=> a = 1
    BY <1>5, <1>8
  <2> HIDE DEF e
  <2> QED BY <1>3, <1>8, <1>9, <2>2, <2>3, <2>4, <2>5
<1>15. CASE m + 1 # i + n
  <2>1. n > 2 /\ p + 1 # a + h
    BY <1>5, <1>7, <1>8, <1>10, <1>15
  <2>2. PICK k \in Nat, l \in Nat, g \in Nat :
           /\ g > 1 /\ g = (n + 1) \div 2 /\ l = LargestPowerOfTwoBelow(g) /\ l \in 1 .. g - 1
           /\ k = LargestPowerOfTwoBelow(n) /\ k = 2 * l /\ k \in 1 .. n - 1
           /\ (k + 1) \div 2 = l /\ (n - k + 1) \div 2 = g - l
           /\ PairedRun(d, k, a) /\ PairedRun(d, n - k, a + l)
    BY <1>3, <1>5, <2>1, PairedRunSplits
  <2>3. k < n /\ n - k < n /\ k \in Nat \ {0} /\ n - k \in Nat \ {0} /\ k = 2 * l /\ g = h
    <3>1. k \in 1 .. n - 1 /\ n \in Nat /\ k = 2 * l /\ g = h
      BY <1>5, <1>9, <2>2
    <3> QED BY <3>1
  <2>10. l = LargestPowerOfTwoBelow(h) /\ k = LargestPowerOfTwoBelow(n)
    BY <2>2, <2>3
  <2>4. 2 * (a + l) - 1 = i + k
    BY <1>5, <1>8, <2>3
  <2>5. k \notin Bad /\ n - k \notin Bad
    <3>1. \A z \in Bad : n <= z
      BY <1>2
    <3> HIDE DEF Bad
    <3> QED BY <1>5, <2>3, <3>1
  <2>6. /\ Roots(d)[n - k][i + k] = Roots(e)[h - l][a + l]
        /\ Roots(d)[k][i] = Roots(e)[l][a]
    <3>1. PairedRun(d, k, a) /\ PairedRun(d, n - k, a + l)
      BY <2>2
    <3>2. (k + 1) \div 2 = l /\ (n - k + 1) \div 2 = h - l
      BY <2>2, <2>3
    <3>3. /\ Roots(d)[k][2 * a - 1] = Roots(e)[(k + 1) \div 2][a]
          /\ Roots(d)[n - k][2 * (a + l) - 1] = Roots(e)[(n - k + 1) \div 2][a + l]
      <4>1. PICK o \in Nat : o = n - k /\ o \in Nat \ {0}
        BY <2>3
      <4>2. PairedRun(d, o, a + l)
        BY <3>1, <4>1
      <4>3. k \in Nat \ {0}
        BY <2>3
      <4> HIDE DEF Bad, Good
      <4>4. Roots(d)[k][2 * a - 1] = Roots(e)[(k + 1) \div 2][a]
        BY <3>1, <4>3, HalvedRoots
      <4>5. Roots(d)[o][2 * (a + l) - 1] = Roots(e)[(o + 1) \div 2][a + l]
        BY <4>1, <4>2, HalvedRoots
      <4> QED BY <4>1, <4>4, <4>5
    <3> QED BY <1>8, <2>4, <3>2, <3>3
  <2>7. m < i + k <=> p < a + l
    BY <1>5, <1>8, <2>3
  <2>8. CASE p < a + l
    <3>1. Holds(k, a, m - 1)
      BY <1>5, <1>7, <1>8, <2>3, <2>7, <2>8 DEF Holds
    <3>2. Good(k, a)
      BY <2>2, <2>3, <2>5, <3>1
    <3>3. SubProofs(d, m)[k][i] = SubProofs(e, p)[l][a]
      BY <1>8, <2>2, <3>2
    <3>4. SubProofs(d, m)[n][i] = Append(SubProofs(d, m)[k][i], Roots(d)[n - k][i + k])
      BY <1>12, <1>15, <2>10, <2>7, <2>8 DEF SubProofSplits
    <3>5. SubProofs(e, p)[h][a] = Append(SubProofs(e, p)[l][a], Roots(e)[h - l][a + l])
      BY <1>13, <2>1, <2>10, <2>8 DEF SubProofSplits
    <3> HIDE DEF e
    <3> QED BY <1>3, <1>8, <1>9, <2>6, <3>3, <3>4, <3>5
  <2>9. CASE ~ (p < a + l)
    <3>1. Holds(n - k, a + l, m - 1)
      <4>1. 2 * (a + l) - 2 <= m - 1
        <5>1. a + l \in Nat /\ a + l <= p
          BY <1>5, <2>9
        <5> QED BY <5>1
      <4>2. 2 * (a + l) + (n - k) - 3 = 2 * a + n - 3
        BY <1>5, <2>3
      <4>3. m - 1 <= 2 * a + n - 3
        BY <1>5, <1>7
      <4> QED BY <4>1, <4>2, <4>3 DEF Holds
    <3>2. Good(n - k, a + l)
      BY <2>2, <2>3, <2>5, <3>1
    <3>3. SubProofs(d, m)[n - k][i + k] = SubProofs(e, p)[h - l][a + l]
      BY <2>2, <2>3, <2>4, <3>2
    <3>4. SubProofs(d, m)[n][i] = Append(SubProofs(d, m)[n - k][i + k], Roots(d)[k][i])
      BY <1>12, <1>15, <2>10, <2>7, <2>9 DEF SubProofSplits
    <3>5. SubProofs(e, p)[h][a] = Append(SubProofs(e, p)[h - l][a + l], Roots(e)[l][a])
      BY <1>13, <2>1, <2>10, <2>9 DEF SubProofSplits
    <3> HIDE DEF e
    <3> QED BY <1>3, <1>8, <1>9, <2>6, <3>3, <3>4, <3>5
  <2> QED BY <2>8, <2>9
<1> QED BY <1>14, <1>15

\* The same for the whole tree.
LEMMA HalvedSubProof ==
  ASSUME NEW T, NEW d \in Seq(T), NEW m \in Nat, NEW p \in Nat, m = 2 * p, m > 0, m <= Len(d)
  PROVE  SubProof(d, m) = SubProof(Halved(d), p)
<1>1. Len(d) \in Nat \ {0}
  OBVIOUS
<1>2. PairedRun(d, Len(d), 1) /\ Holds(Len(d), 1, m - 1)
  BY <1>1 DEF PairedRun, Holds
<1>3. HalvedSubProofOf(d, m, p, Len(d), 1)
  BY <1>1, <1>2, HalvedSubProofs
<1>4. 2 * 1 - 1 = 1
  OBVIOUS
<1> QED BY <1>3, <1>4, HalvedType DEF SubProof, HalvedSubProofOf

\* What comes before the path of node m in the proof for the first m nodes, m odd.
BeforePath(d, m) == IF m = 1 THEN <<>> ELSE <<d[m]>>

\* The proof for the first m nodes, m odd, is the path of the last of them, behind the node
\* itself where the reader does not know it.
OddSubProofOf(d, m, n, a) ==
  SubProofs(d, m)[n][2 * a - 1] = BeforePath(d, m) \o Paths(d, m - 1)[n][2 * a - 1]

\* It is, in a paired run and in a run of one.
LEMMA OddSubProofs ==
  ASSUME NEW T, NEW d \in Seq(T), NEW m \in Nat, NEW p \in Nat, m = 2 * p + 1, m < Len(d)
  PROVE  \A n \in Nat \ {0} : \A a :
           /\ a \in Nat \ {0} /\ 2 * a + n - 2 <= Len(d) /\ Holds(n, a, m - 1)
           /\ PairedRun(d, n, a) \/ n = 1
           => OddSubProofOf(d, m, n, a)
<1> DEFINE Runs(n, a) ==
             /\ a \in Nat \ {0} /\ 2 * a + n - 2 <= Len(d) /\ Holds(n, a, m - 1)
             /\ PairedRun(d, n, a) \/ n = 1
           Bad == {n \in Nat \ {0} : \E a : Runs(n, a) /\ ~ OddSubProofOf(d, m, n, a)}
<1>1. SUFFICES ASSUME Bad # {} PROVE FALSE
  OBVIOUS
<1>2. PICK n \in Bad : \A z \in Bad : n <= z
  <2>1. Bad \subseteq Nat
    OBVIOUS
  <2> HIDE DEF Bad
  <2> QED BY <1>1, <2>1, Least
<1>3. PICK a : Runs(n, a) /\ ~ OddSubProofOf(d, m, n, a)
  OBVIOUS
<1>5. a \in Nat \ {0} /\ n \in Nat \ {0} /\ Len(d) \in Nat /\ 2 * a + n - 2 <= Len(d)
  BY <1>3
<1>6. PICK i \in Nat : i = 2 * a - 1
  BY <1>5
<1>7. i <= m /\ m < i + n /\ n \in 1 .. Len(d) /\ i \in 1 .. Len(d) - n + 1
  BY <1>3, <1>5, <1>6 DEF Holds
<1>8. SubProofSplits(d, m, n, i, LargestPowerOfTwoBelow(n))
  BY <1>7, RunSubProof
<1>9. CASE n = 1
  <2>1. m = i /\ m + 1 = i + n
    BY <1>5, <1>7, <1>9
  <2>2. SubProofs(d, m)[1][i] = IF i = 1 THEN <<>> ELSE <<Roots(d)[1][i]>>
    BY <1>8, <1>9, <2>1 DEF SubProofSplits
  <2>3. Roots(d)[1][i] = d[i] /\ Paths(d, m - 1)[1][i] = <<>>
    BY <1>7, <1>9, RunRoot, PathOfOne
  <2>4. BeforePath(d, m) \o <<>> = BeforePath(d, m)
    BY DEF BeforePath
  <2>5. BeforePath(d, m) = IF i = 1 THEN <<>> ELSE <<d[i]>>
    BY <2>1 DEF BeforePath
  <2> QED BY <1>3, <1>6, <1>9, <2>2, <2>3, <2>4, <2>5 DEF OddSubProofOf
<1>10. CASE n # 1
  <2>1. PairedRun(d, n, a) /\ n > 1
    BY <1>3, <1>5, <1>10
  <2>2. m + 1 # i + n
    <3>1. (\E h \in Nat : n = 2 * h) \/ 2 * a + n - 2 = Len(d)
      BY <2>1 DEF PairedRun
    <3> QED BY <1>5, <1>6, <3>1
  <2>3. PICK k : k = LargestPowerOfTwoBelow(n)
    OBVIOUS
  <2>4. k \in 1 .. n - 1
    BY <1>5, <2>1, <2>3, SplitBounds
  <2>5. PathSplits(d, m - 1, n, i, k)
    BY <1>7, <1>10, <2>3, RunPath
  <2>6. k < n /\ n - k < n /\ k \in Nat \ {0} /\ n - k \in Nat \ {0}
    BY <1>5, <2>4
  <2>7. k \notin Bad /\ n - k \notin Bad
    <3>1. \A z \in Bad : n <= z
      BY <1>2
    <3> HIDE DEF Bad
    <3> QED BY <1>5, <2>6, <3>1
  <2>8. m - 1 + 1 < i + k <=> m < i + k
    OBVIOUS
  <2>9. /\ k \in 1 .. Len(d) /\ n - k \in 1 .. Len(d)
        /\ i \in 1 .. Len(d) - k + 1 /\ i + k \in 1 .. Len(d) - (n - k) + 1
    BY <1>5, <1>7, <2>4, HalvesAreRuns
  <2>10. /\ Paths(d, m - 1)[k][i] \in Seq(Nodes(d))
         /\ Paths(d, m - 1)[n - k][i + k] \in Seq(Nodes(d))
    BY <2>9, PathsType
  <2>11. PICK x, A : x = BeforePath(d, m) /\ x \in Seq(A)
    <3>1. <<d[m]>> \in Seq({d[m]}) /\ <<>> \in Seq({d[m]})
      OBVIOUS
    <3> QED BY <3>1 DEF BeforePath
  <2>12. k = 1 \/ (\E l \in Nat : k = 2 * l /\ PairedRun(d, k, a) /\ PairedRun(d, n - k, a + l))
    <3>1. CASE n = 2
      BY <2>3, <3>1, SplitOfTwo
    <3>2. CASE n > 2
      <4>1. PICK j \in Nat, l \in Nat, h \in Nat :
           /\ h > 1 /\ h = (n + 1) \div 2 /\ l = LargestPowerOfTwoBelow(h) /\ l \in 1 .. h - 1
           /\ j = LargestPowerOfTwoBelow(n) /\ j = 2 * l /\ j \in 1 .. n - 1
           /\ (j + 1) \div 2 = l /\ (n - j + 1) \div 2 = h - l
           /\ PairedRun(d, j, a) /\ PairedRun(d, n - j, a + l)
        BY <1>5, <2>1, <3>2, PairedRunSplits
      <4>2. j = k /\ j = 2 * l /\ PairedRun(d, j, a) /\ PairedRun(d, n - j, a + l)
        BY <2>3, <4>1
      <4> QED BY <4>2
    <3> QED BY <1>5, <2>1, <3>1, <3>2
  <2>13. CASE m < i + k
    <3>1. Holds(k, a, m - 1)
      BY <1>5, <1>6, <1>7, <2>6, <2>13 DEF Holds
    <3>2. 2 * a + k - 2 <= Len(d)
      BY <1>5, <1>6, <2>6, <2>9
    <3>3. Runs(k, a)
      BY <1>5, <2>12, <3>1, <3>2
    <3>4. OddSubProofOf(d, m, k, a)
      BY <2>6, <2>7, <3>3
    <3>5. PICK y, B : y = Paths(d, m - 1)[k][i] /\ y \in Seq(B)
      BY <2>10
    <3>6. PICK r : r = Roots(d)[n - k][i + k]
      OBVIOUS
    <3>7. SubProofs(d, m)[n][i] = Append(SubProofs(d, m)[k][i], r)
      BY <1>8, <2>2, <2>3, <2>13, <3>6 DEF SubProofSplits
    <3>8. Paths(d, m - 1)[n][i] = Append(y, r)
      BY <2>5, <2>8, <2>13, <3>5, <3>6 DEF PathSplits
    <3>9. SubProofs(d, m)[k][i] = x \o y
      BY <1>6, <2>11, <3>4, <3>5 DEF OddSubProofOf
    <3>10. x \o Append(y, r) = Append(x \o y, r)
      <4>1. x \in Seq(A) /\ y \in Seq(B)
        BY <2>11, <3>5
      <4>2. AppendsBehind(x, y, r)
        BY <4>1, ConcatAppend
      <4> QED BY <4>2 DEF AppendsBehind
    <3> QED BY <1>3, <1>6, <2>11, <3>7, <3>8, <3>9, <3>10 DEF OddSubProofOf
  <2>14. CASE ~ (m < i + k)
    <3>1. PICK l \in Nat : k = 2 * l /\ PairedRun(d, n - k, a + l)
      <4>1. k # 1
        <5>1. ASSUME k = 1 PROVE FALSE
          <6>1. n - 1 <= 1
            <7>1. CASE n > 2
              <8>1. k = 2 * LargestPowerOfTwoBelow((n + 1) \div 2)
                BY <1>5, <2>3, <7>1, SplitHalves
              <8>2. PICK g \in Nat : g = (n + 1) \div 2 /\ g > 1
                BY <1>5, <7>1, SplitHalves
              <8>3. LargestPowerOfTwoBelow(g) \in 1 .. g - 1
                BY <8>2, SplitBounds
              <8>4. PICK j \in Nat : j = LargestPowerOfTwoBelow(g)
                BY <8>2, <8>3
              <8> QED BY <5>1, <8>1, <8>2, <8>4
            <7> QED BY <1>5, <7>1
          <6>2. m = i + 1
            BY <1>5, <1>7, <2>14, <5>1, <6>1
          <6> QED BY <1>5, <1>6, <6>2
        <5> QED BY <5>1
      <4> QED BY <2>12, <4>1
    <3>2. 2 * (a + l) - 1 = i + k /\ a + l \in Nat \ {0}
      BY <1>5, <1>6, <2>6, <3>1
    <3>3. Holds(n - k, a + l, m - 1)
      <4>1. 2 * (a + l) - 2 <= m - 1
        BY <1>5, <2>6, <2>14, <3>2
      <4>2. 2 * (a + l) + (n - k) - 3 = 2 * a + n - 3
        BY <1>5, <2>6, <3>1
      <4>3. m - 1 <= 2 * a + n - 3
        BY <1>5, <1>6, <1>7
      <4> QED BY <4>1, <4>2, <4>3 DEF Holds
    <3>4. 2 * (a + l) + (n - k) - 2 <= Len(d)
      BY <3>1 DEF PairedRun
    <3>5. Runs(n - k, a + l)
      BY <3>1, <3>2, <3>3, <3>4
    <3>6. OddSubProofOf(d, m, n - k, a + l)
      BY <2>6, <2>7, <3>5
    <3>7. PICK y, B : y = Paths(d, m - 1)[n - k][i + k] /\ y \in Seq(B)
      BY <2>10
    <3>8. PICK r : r = Roots(d)[k][i]
      OBVIOUS
    <3>9. SubProofs(d, m)[n][i] = Append(SubProofs(d, m)[n - k][i + k], r)
      BY <1>8, <2>2, <2>3, <2>14, <3>8 DEF SubProofSplits
    <3>10. Paths(d, m - 1)[n][i] = Append(y, r)
      BY <2>5, <2>8, <2>14, <3>7, <3>8 DEF PathSplits
    <3>11. SubProofs(d, m)[n - k][i + k] = x \o y
      BY <2>11, <3>2, <3>6, <3>7 DEF OddSubProofOf
    <3>12. x \o Append(y, r) = Append(x \o y, r)
      <4>1. x \in Seq(A) /\ y \in Seq(B)
        BY <2>11, <3>7
      <4>2. AppendsBehind(x, y, r)
        BY <4>1, ConcatAppend
      <4> QED BY <4>2 DEF AppendsBehind
    <3> QED BY <1>3, <1>6, <2>11, <3>9, <3>10, <3>11, <3>12 DEF OddSubProofOf
  <2> QED BY <2>13, <2>14
<1> QED BY <1>9, <1>10

\* The same for the whole tree.
LEMMA OddSubProof ==
  ASSUME NEW T, NEW d \in Seq(T), NEW m \in Nat, NEW p \in Nat, m = 2 * p + 1, m < Len(d)
  PROVE  SubProof(d, m) = BeforePath(d, m) \o Path(d, m - 1)
<1>1. Len(d) \in Nat \ {0}
  OBVIOUS
<1>2. PairedRun(d, Len(d), 1) /\ Holds(Len(d), 1, m - 1) /\ 2 * 1 + Len(d) - 2 <= Len(d)
  BY <1>1 DEF PairedRun, Holds
<1>3. OddSubProofOf(d, m, Len(d), 1)
  BY <1>1, <1>2, OddSubProofs
<1>4. 2 * 1 - 1 = 1
  OBVIOUS
<1> QED BY <1>3, <1>4 DEF SubProof, Path, OddSubProofOf

-----------------------------------------------------------------------------
(* The consistency walk *)

\* A state of the consistency walk.
At(fn, sn, fr, sr, ok) == [fn |-> fn, sn |-> sn, fr |-> fr, sr |-> sr, ok |-> ok]

\* The shifts lead from numbers to numbers.
LEMMA ShiftedType ==
  ASSUME NEW bit \in 0 .. 1
  PROVE  \A fn, sn \in Nat : \E a, b \in Nat : Shifted[fn][sn][bit] = [fn |-> a, sn |-> b]
<1> DEFINE Good(fn, sn) == \E a, b \in Nat : Shifted[fn][sn][bit] = [fn |-> a, sn |-> b]
           Bad == {fn \in Nat : \E sn \in Nat : ~ Good(fn, sn)}
<1>1. SUFFICES ASSUME Bad # {} PROVE FALSE
  OBVIOUS
<1>2. PICK fn \in Bad : \A x \in Bad : fn <= x
  <2>1. Bad \subseteq Nat
    OBVIOUS
  <2> HIDE DEF Bad
  <2> QED BY <1>1, <2>1, Least
<1>3. PICK sn \in Nat : ~ Good(fn, sn)
  BY <1>2
<1>4. fn \in Nat
  BY <1>2
<1>5. Shifted[fn][sn][bit] =
        IF fn # 0 /\ fn % 2 = bit THEN Shifted[fn \div 2][sn \div 2][bit]
        ELSE [fn |-> fn, sn |-> sn]
  BY <1>4, ShiftedDef
<1>6. CASE fn # 0 /\ fn % 2 = bit
  <2>1. fn \div 2 \in Nat /\ fn \div 2 < fn /\ sn \div 2 \in Nat
    BY <1>4, <1>6
  <2>2. PICK h : h = fn \div 2
    OBVIOUS
  <2>3. Good(h, sn \div 2)
    <3>1. h \in Nat /\ ~ (fn <= h)
      BY <1>4, <2>1, <2>2
    <3>2. h \notin Bad
      <4> HIDE DEF Bad
      <4> QED BY <1>2, <3>1
    <3> QED BY <2>1, <3>1, <3>2
  <2>4. Shifted[fn][sn][bit] = Shifted[fn \div 2][sn \div 2][bit]
    BY <1>5, <1>6
  <2> QED BY <1>3, <2>2, <2>3, <2>4
<1>7. CASE ~ (fn # 0 /\ fn % 2 = bit)
  <2>1. Shifted[fn][sn][bit] = [fn |-> fn, sn |-> sn]
    BY <1>5, <1>7
  <2> QED BY <1>3, <1>4, <2>1
<1> QED BY <1>6, <1>7

\* The places of a state replaced, and its roots.
Placed(s, a, b) == [s EXCEPT !.fn = a, !.sn = b]

Rooted(s, x, y) == [s EXCEPT !.fr = x, !.sr = y]

\* That gives a state with these places.
LEMMA PlacesReplaced ==
  ASSUME NEW fn, NEW sn, NEW fr, NEW sr, NEW ok, NEW a, NEW b
  PROVE  Placed(At(fn, sn, fr, sr, ok), a, b) = At(a, b, fr, sr, ok)
<1> DEFINE s == At(fn, sn, fr, sr, ok)
           t == [s EXCEPT !.fn = a]
<1>1. t = At(a, sn, fr, sr, ok)
  BY DEF At
<1>2. [t EXCEPT !.sn = b] = At(a, b, fr, sr, ok)
  <2> HIDE DEF t
  <2> QED BY <1>1 DEF At
<1>3. [s EXCEPT !.fn = a, !.sn = b] = [t EXCEPT !.sn = b]
  <2> HIDE DEF s
  <2> QED OBVIOUS
<1> QED BY <1>2, <1>3 DEF Placed

\* That gives a state with these roots.
LEMMA RootsReplaced ==
  ASSUME NEW fn, NEW sn, NEW fr, NEW sr, NEW ok, NEW a, NEW b
  PROVE  Rooted(At(fn, sn, fr, sr, ok), a, b) = At(fn, sn, a, b, ok)
<1> DEFINE s == At(fn, sn, fr, sr, ok)
           t == [s EXCEPT !.fr = a]
<1>1. t = At(fn, sn, a, sr, ok)
  BY DEF At
<1>2. [t EXCEPT !.sr = b] = At(fn, sn, a, b, ok)
  <2> HIDE DEF t
  <2> QED BY <1>1 DEF At
<1>3. [s EXCEPT !.fr = a, !.sr = b] = [t EXCEPT !.sr = b]
  <2> HIDE DEF s
  <2> QED OBVIOUS
<1> QED BY <1>2, <1>3 DEF Rooted

\* Where the walk stands after a level.
LEMMA ClimbedAt ==
  ASSUME NEW fn, NEW sn, NEW fr, NEW sr, NEW ok
  PROVE  Climbed(At(fn, sn, fr, sr, ok)) = At(fn \div 2, sn \div 2, fr, sr, ok)
<1> DEFINE s == At(fn, sn, fr, sr, ok)
<1>1. s.fn = fn /\ s.sn = sn
  BY DEF At
<1>2. Climbed(s) = Placed(s, fn \div 2, sn \div 2)
  <2> HIDE DEF s
  <2> QED BY <1>1 DEF Climbed, Placed
<1> QED BY <1>2, PlacesReplaced

\* Where it stands after the shifts.
LEMMA SkipAt ==
  ASSUME NEW fn, NEW sn, NEW fr, NEW sr, NEW ok, NEW bit, NEW a, NEW b,
         Shifted[fn][sn][bit] = [fn |-> a, sn |-> b]
  PROVE  Skip(At(fn, sn, fr, sr, ok), bit) = At(a, b, fr, sr, ok)
<1> DEFINE s == At(fn, sn, fr, sr, ok)
<1>1. s.fn = fn /\ s.sn = sn
  BY DEF At
<1>2. Skip(s, bit) = Placed(s, a, b)
  <2> HIDE DEF s
  <2> DEFINE to == Shifted[fn][sn][bit]
  <2>1. to.fn = a /\ to.sn = b
    OBVIOUS
  <2>2. Skip(s, bit) = Placed(s, to.fn, to.sn)
    BY <1>1 DEF Skip, Placed
  <2> HIDE DEF to
  <2> QED BY <2>1, <2>2
<1> QED BY <1>2, PlacesReplaced

\* A step of the walk, spelt out; a and b are where the shifts lead.
StepsTo(fn, sn, fr, sr, ok, c, a, b) ==
  ConsistencyStep(At(fn, sn, fr, sr, ok), c) =
    IF sn = 0 THEN At(fn, sn, fr, sr, FALSE)
    ELSE IF fn % 2 = 1 \/ fn = sn
    THEN At(a \div 2, b \div 2, NodeHash(c, fr), NodeHash(c, sr), ok)
    ELSE At(fn \div 2, sn \div 2, fr, NodeHash(sr, c), ok)

\* The step is that.
LEMMA StepAt ==
  ASSUME NEW fn \in Nat, NEW sn \in Nat, NEW fr, NEW sr, NEW ok, NEW c,
         NEW a \in Nat, NEW b \in Nat, Shifted[fn][sn][0] = [fn |-> a, sn |-> b]
  PROVE  StepsTo(fn, sn, fr, sr, ok, c, a, b)
<1> DEFINE s == At(fn, sn, fr, sr, ok)
<1>1. s.fn = fn /\ s.sn = sn /\ s.fr = fr /\ s.sr = sr
  BY DEF At
<1>2. CASE sn = 0
  <2>1. ConsistencyStep(s, c) = [s EXCEPT !.ok = FALSE]
    BY <1>1, <1>2, Zenon DEF ConsistencyStep
  <2>2. [s EXCEPT !.ok = FALSE] = At(fn, sn, fr, sr, FALSE)
    <3> HIDE DEF s
    <3>1. \A o : [s EXCEPT !.ok = o] = At(fn, sn, fr, sr, o)
      BY DEF s, At
    <3> QED BY <3>1, Zenon
  <2> QED BY <1>2, <2>1, <2>2, Zenon DEF StepsTo
<1>3. CASE sn # 0 /\ (fn % 2 = 1 \/ fn = sn)
  <2> DEFINE t == [s EXCEPT !.fr = NodeHash(c, @), !.sr = NodeHash(c, @)]
  <2>1. t = At(fn, sn, NodeHash(c, fr), NodeHash(c, sr), ok)
    <3> DEFINE x == NodeHash(c, fr)
               y == NodeHash(c, sr)
    <3>1. t = Rooted(s, x, y)
      <4> HIDE DEF s
      <4> QED BY <1>1 DEF Rooted
    <3> HIDE DEF t, x, y
    <3>2. t = At(fn, sn, x, y, ok)
      BY <3>1, RootsReplaced
    <3> QED BY <3>2 DEF x, y
  <2>2. SiblingIsLeft(s)
    BY <1>1, <1>3, Zenon DEF SiblingIsLeft
  <2>3. ConsistencyStep(s, c) = Climbed(Skip(t, 0))
    BY <1>1, <1>3, <2>2, Zenon DEF ConsistencyStep
  <2> HIDE DEF s, t
  <2>6. Skip(t, 0) = At(a, b, NodeHash(c, fr), NodeHash(c, sr), ok)
    BY <2>1, SkipAt
  <2>7. Climbed(Skip(t, 0)) = At(a \div 2, b \div 2, NodeHash(c, fr), NodeHash(c, sr), ok)
    BY <2>6, ClimbedAt
  <2> QED BY <1>3, <2>3, <2>7, Zenon DEF s, StepsTo
<1>4. CASE sn # 0 /\ ~ (fn % 2 = 1 \/ fn = sn)
  <2> DEFINE t == [s EXCEPT !.sr = NodeHash(@, c)]
  <2>1. t = At(fn, sn, fr, NodeHash(sr, c), ok)
    BY DEF At
  <2>2. ~ SiblingIsLeft(s)
    BY <1>1, <1>4, Zenon DEF SiblingIsLeft
  <2>3. ConsistencyStep(s, c) = Climbed(t)
    BY <1>1, <1>4, <2>2, Zenon DEF ConsistencyStep
  <2> HIDE DEF s, t
  <2>4. Climbed(t) = At(fn \div 2, sn \div 2, fr, NodeHash(sr, c), ok)
    BY <2>1, ClimbedAt
  <2> QED BY <1>4, <2>3, <2>4, Zenon DEF s, StepsTo
<1> QED BY <1>2, <1>3, <1>4, Zenon DEF StepsTo

\* It is a state, and has failed if this has.
Continues(z, ok) ==
  \E a, b \in Nat : \E x, y : \E o \in BOOLEAN : z = At(a, b, x, y, o) /\ (o => ok)

\* A step leads from state to state, and a failed walk stays failed.
LEMMA StepType ==
  ASSUME NEW fn \in Nat, NEW sn \in Nat, NEW fr, NEW sr, NEW ok \in BOOLEAN, NEW c
  PROVE  Continues(ConsistencyStep(At(fn, sn, fr, sr, ok), c), ok)
<1>1. PICK a \in Nat, b \in Nat : Shifted[fn][sn][0] = [fn |-> a, sn |-> b]
  <2>1. 0 \in 0 .. 1
    OBVIOUS
  <2> QED BY <2>1, ShiftedType
<1>0. StepsTo(fn, sn, fr, sr, ok, c, a, b)
  BY <1>1, StepAt
<1>2. a \div 2 \in Nat /\ b \div 2 \in Nat /\ fn \div 2 \in Nat /\ sn \div 2 \in Nat
  OBVIOUS
<1>3. CASE sn = 0
  <2>1. ConsistencyStep(At(fn, sn, fr, sr, ok), c) = At(fn, sn, fr, sr, FALSE)
    BY <1>0, <1>3, Zenon DEF StepsTo
  <2> QED BY <2>1, Zenon DEF Continues
<1>4. CASE sn # 0 /\ (fn % 2 = 1 \/ fn = sn)
  <2>1. ConsistencyStep(At(fn, sn, fr, sr, ok), c) =
          At(a \div 2, b \div 2, NodeHash(c, fr), NodeHash(c, sr), ok)
    BY <1>0, <1>4, Zenon DEF StepsTo
  <2> QED BY <1>2, <2>1, Zenon DEF Continues
<1>5. CASE sn # 0 /\ ~ (fn % 2 = 1 \/ fn = sn)
  <2>1. ConsistencyStep(At(fn, sn, fr, sr, ok), c) =
          At(fn \div 2, sn \div 2, fr, NodeHash(sr, c), ok)
    BY <1>0, <1>5, Zenon DEF StepsTo
  <2> QED BY <1>2, <2>1, Zenon DEF Continues
<1> QED BY <1>3, <1>4, <1>5

-----------------------------------------------------------------------------

\* w is the sequence of the states the walk goes through.
IsWalk(w, s, proof, N) ==
  w = [i \in 0 .. N |-> IF i = 0 THEN s ELSE ConsistencyStep(w[i - 1], proof[i])]

\* There is one.
LEMMA WalksExist ==
  ASSUME NEW s, NEW proof, NEW N \in Nat
  PROVE  \E w : IsWalk(w, s, proof, N)
<1> DEFINE S == {M \in 0 .. N : \E w : IsWalk(w, s, proof, M)}
<1>1. 0 \in S
  <2> DEFINE w == [i \in 0 .. 0 |-> s]
             v == [i \in 0 .. 0 |-> IF i = 0 THEN s ELSE ConsistencyStep(w[i - 1], proof[i])]
  <2>1. w = v
    OBVIOUS
  <2>2. IsWalk(w, s, proof, 0)
    BY <2>1, Zenon DEF IsWalk
  <2> QED BY <2>2
<1>2. ASSUME NEW M \in 1 .. N, M - 1 \in S PROVE M \in S
  <2>1. PICK f : IsWalk(f, s, proof, M - 1)
    BY <1>2
  <2> DEFINE w == [i \in 0 .. M |-> IF i = 0 THEN s ELSE ConsistencyStep(f[i - 1], proof[i])]
  <2>2. \A i \in 0 .. M - 1 : w[i] = f[i]
    BY <2>1 DEF IsWalk
  <2> DEFINE v == [i \in 0 .. M |-> IF i = 0 THEN s ELSE ConsistencyStep(w[i - 1], proof[i])]
  <2>3. ASSUME NEW i \in 0 .. M, i # 0
        PROVE  ConsistencyStep(w[i - 1], proof[i]) = ConsistencyStep(f[i - 1], proof[i])
    <3>1. i - 1 \in 0 .. M - 1
      BY <2>3
    <3>2. w[i - 1] = f[i - 1]
      BY <2>2, <3>1
    <3> QED BY <3>2
  <2>4. w = v
    <3>1. \A i \in 0 .. M : w[i] = v[i]
      BY <2>3
    <3> QED BY <3>1
  <2> HIDE DEF w
  <2>5. IsWalk(w, s, proof, M)
    BY <2>4, Zenon DEF IsWalk
  <2> QED BY <2>5
<1>3. N \in S
  <2> HIDE DEF S
  <2>1. 0 .. N \subseteq S
    BY <1>1, <1>2, IntervalInduction
  <2> QED BY <2>1
<1> QED BY <1>3

\* It ends where the walk ends.
LEMMA WalkEnds ==
  ASSUME NEW s, NEW A, NEW proof \in Seq(A)
  PROVE  \E w : IsWalk(w, s, proof, Len(proof)) /\ ConsistencyWalk(s, proof) = w[Len(proof)]
<1> DEFINE W == CHOOSE w : IsWalk(w, s, proof, Len(proof))
<1>1. IsWalk(W, s, proof, Len(proof))
  <2>1. Len(proof) \in Nat
    OBVIOUS
  <2> QED BY <2>1, WalksExist
<1>2. ConsistencyWalk(s, proof) = W[Len(proof)]
  BY DEF ConsistencyWalk, IsWalk
<1> QED BY <1>1, <1>2

\* The states of the walk.
LEMMA WalkSteps ==
  ASSUME NEW w, NEW s, NEW proof, NEW N \in Nat, IsWalk(w, s, proof, N)
  PROVE  w[0] = s /\ \A i \in 1 .. N : w[i] = ConsistencyStep(w[i - 1], proof[i])
BY DEF IsWalk

\* Without a proof it does not leave the start.
LEMMA WalkEmpty ==
  ASSUME NEW s
  PROVE  ConsistencyWalk(s, <<>>) = s
<1>1. <<>> \in Seq({}) /\ Len(<<>>) = 0
  OBVIOUS
<1>2. PICK w : IsWalk(w, s, <<>>, 0) /\ ConsistencyWalk(s, <<>>) = w[0]
  BY <1>1, WalkEnds
<1> QED BY <1>2, WalkSteps

\* The first element of the proof can be taken first.
LEMMA WalkCons ==
  ASSUME NEW s, NEW A, NEW proof \in Seq(A), proof # <<>>
  PROVE  ConsistencyWalk(s, proof) = ConsistencyWalk(ConsistencyStep(s, proof[1]), Tail(proof))
<1>1. PICK n \in Nat : n = Len(proof) - 1 /\ Len(proof) = n + 1
  OBVIOUS
<1>2. /\ Tail(proof) \in Seq(A) /\ Len(Tail(proof)) = n
      /\ \A i \in 1 .. n : Tail(proof)[i] = proof[i + 1]
  BY <1>1
<1>3. PICK w : IsWalk(w, s, proof, n + 1) /\ ConsistencyWalk(s, proof) = w[n + 1]
  BY <1>1, WalkEnds
<1> DEFINE t == ConsistencyStep(s, proof[1])
           q == Tail(proof)
<1>4. PICK v : IsWalk(v, t, q, n) /\ ConsistencyWalk(t, q) = v[n]
  <2> HIDE DEF t, q
  <2>1. q \in Seq(A) /\ Len(q) = n
    BY <1>2 DEF q
  <2> QED BY <2>1, WalkEnds
<1> DEFINE S == {i \in 0 .. n : v[i] = w[i + 1]}
<1>5. w[0] = s /\ \A i \in 1 .. n + 1 : w[i] = ConsistencyStep(w[i - 1], proof[i])
  <2>1. n + 1 \in Nat
    OBVIOUS
  <2> QED BY <1>3, <2>1, WalkSteps
<1>6. v[0] = t /\ \A i \in 1 .. n : v[i] = ConsistencyStep(v[i - 1], q[i])
  <2> HIDE DEF t, q
  <2> QED BY <1>4, WalkSteps
<1>7. 0 \in S
  BY <1>5, <1>6
<1>8. ASSUME NEW i \in 1 .. n, i - 1 \in S PROVE i \in S
  <2>1. v[i - 1] = w[i]
    BY <1>8
  <2>2. v[i] = ConsistencyStep(v[i - 1], q[i])
    <3> HIDE DEF q
    <3> QED BY <1>6
  <2>3. w[i + 1] = ConsistencyStep(w[i], proof[i + 1])
    <3>1. i + 1 \in 1 .. n + 1 /\ i + 1 - 1 = i
      OBVIOUS
    <3>2. w[i + 1] = ConsistencyStep(w[i + 1 - 1], proof[i + 1])
      BY <1>5, <3>1
    <3> QED BY <3>1, <3>2
  <2>4. q[i] = proof[i + 1]
    BY <1>2, Zenon
  <2>5. v[i] = w[i + 1]
    <3> HIDE DEF q, S
    <3> QED BY <2>1, <2>2, <2>3, <2>4, Zenon
  <2> QED BY <2>5
<1>9. v[n] = w[n + 1]
  <2> HIDE DEF S
  <2>1. 0 .. n \subseteq S
    BY <1>7, <1>8, IntervalInduction
  <2>2. n \in S
    BY <2>1
  <2> QED BY <2>2 DEF S
<1> QED BY <1>3, <1>4, <1>9

\* All states of a walk are states, and one that has failed stays so.
LEMMA WalkType ==
  ASSUME NEW fn \in Nat, NEW sn \in Nat, NEW fr, NEW sr, NEW ok \in BOOLEAN,
         NEW A, NEW proof \in Seq(A)
  PROVE  Continues(ConsistencyWalk(At(fn, sn, fr, sr, ok), proof), ok)
<1> DEFINE N == Len(proof)
<1>1. N \in Nat
  OBVIOUS
<1>2. PICK w : /\ IsWalk(w, At(fn, sn, fr, sr, ok), proof, N)
               /\ ConsistencyWalk(At(fn, sn, fr, sr, ok), proof) = w[N]
  BY WalkEnds
<1> HIDE DEF N
<1>3. /\ w[0] = At(fn, sn, fr, sr, ok)
      /\ \A i \in 1 .. N : w[i] = ConsistencyStep(w[i - 1], proof[i])
  BY <1>1, <1>2, WalkSteps
<1> DEFINE S == {i \in 0 .. N : Continues(w[i], ok)}
<1>4. 0 \in S
  <2>1. Continues(w[0], ok)
    BY <1>3, Zenon DEF Continues
  <2> QED BY <1>1, <2>1
<1>5. ASSUME NEW i \in 1 .. N, i - 1 \in S PROVE i \in S
  <2>0. Continues(w[i - 1], ok)
    BY <1>5
  <2>00. PICK a \in Nat, b \in Nat : \E x, y : \E o \in BOOLEAN :
          w[i - 1] = At(a, b, x, y, o) /\ (o => ok)
    BY <2>0, Zenon DEF Continues
  <2>000. PICK x, y : \E o \in BOOLEAN : w[i - 1] = At(a, b, x, y, o) /\ (o => ok)
    BY <2>00, Zenon
  <2>1. PICK o \in BOOLEAN : w[i - 1] = At(a, b, x, y, o) /\ (o => ok)
    BY <2>000, Zenon
  <2>2. w[i] = ConsistencyStep(At(a, b, x, y, o), proof[i])
    BY <1>3, <2>1
  <2>3. Continues(ConsistencyStep(At(a, b, x, y, o), proof[i]), o)
    BY StepType
  <2>4. Continues(w[i], ok)
    BY <2>1, <2>2, <2>3, Zenon DEF Continues
  <2> QED BY <1>1, <2>4
<1>6. N \in S
  <2> HIDE DEF S
  <2>1. 0 .. N \subseteq S
    BY <1>1, <1>4, <1>5, IntervalInduction
  <2> QED BY <1>1, <2>1
<1> QED BY <1>2, <1>6

-----------------------------------------------------------------------------
(* One level of the walk *)

\* The step from a right child, from a left child that has a sibling, and from one that has
\* none, where it is the step from its parent.
OddStep(m, q, sn, fr, sr, c) ==
  ConsistencyStep(At(m, sn, fr, sr, TRUE), c) =
    At(q, sn \div 2, NodeHash(c, fr), NodeHash(c, sr), TRUE)

EvenStep(m, q, sn, fr, sr, c) ==
  ConsistencyStep(At(m, sn, fr, sr, TRUE), c) = At(q, sn \div 2, fr, NodeHash(sr, c), TRUE)

LastStep(m, q, fr, sr, c) ==
  ConsistencyStep(At(m, m, fr, sr, TRUE), c) = ConsistencyStep(At(q, q, fr, sr, TRUE), c)

\* From a right child the walk climbs one level.
LEMMA StepOdd ==
  ASSUME NEW m \in Nat, NEW q \in Nat, m = 2 * q + 1, NEW sn \in Nat, sn # 0,
         NEW fr, NEW sr, NEW c
  PROVE  OddStep(m, q, sn, fr, sr, c)
<1>1. m % 2 = 1 /\ m % 2 # 0 /\ m \div 2 = q /\ 0 \in 0 .. 1
  OBVIOUS
<1>2. Shifted[m][sn][0] = [fn |-> m, sn |-> sn]
  BY <1>1, ShiftedDef
<1>3. StepsTo(m, sn, fr, sr, TRUE, c, m, sn)
  BY <1>2, StepAt
<1>4. ConsistencyStep(At(m, sn, fr, sr, TRUE), c) =
        At(m \div 2, sn \div 2, NodeHash(c, fr), NodeHash(c, sr), TRUE)
  BY <1>1, <1>3, Zenon DEF StepsTo
<1> QED BY <1>1, <1>4 DEF OddStep

\* From a left child with a sibling too.
LEMMA StepEven ==
  ASSUME NEW m \in Nat, NEW q \in Nat, m = 2 * q, NEW sn \in Nat, sn # 0, m # sn,
         NEW fr, NEW sr, NEW c
  PROVE  EvenStep(m, q, sn, fr, sr, c)
<1>1. m % 2 # 1 /\ m \div 2 = q /\ 0 \in 0 .. 1
  OBVIOUS
<1>2. PICK a \in Nat, b \in Nat : Shifted[m][sn][0] = [fn |-> a, sn |-> b]
  BY <1>1, ShiftedType
<1>3. StepsTo(m, sn, fr, sr, TRUE, c, a, b)
  BY <1>2, StepAt
<1>4. ConsistencyStep(At(m, sn, fr, sr, TRUE), c) =
        At(m \div 2, sn \div 2, fr, NodeHash(sr, c), TRUE)
  BY <1>1, <1>3, Zenon DEF StepsTo
<1> QED BY <1>1, <1>4 DEF EvenStep

\* From a left child without one it climbs as from its parent.
LEMMA StepLast ==
  ASSUME NEW m \in Nat, NEW q \in Nat, m = 2 * q, q # 0, NEW fr, NEW sr, NEW c
  PROVE  LastStep(m, q, fr, sr, c)
<1>1. m % 2 = 0 /\ m \div 2 = q /\ m # 0 /\ 0 \in 0 .. 1
  OBVIOUS
<1>2. Shifted[m][m][0] = Shifted[q][q][0]
  <2>1. Shifted[m][m][0] = IF m # 0 /\ m % 2 = 0 THEN Shifted[m \div 2][m \div 2][0]
                           ELSE [fn |-> m, sn |-> m]
    <3>1. 0 \in 0 .. 1
      OBVIOUS
    <3> QED BY <3>1, ShiftedDef
  <2> QED BY <1>1, <2>1
<1>3. PICK a \in Nat, b \in Nat : Shifted[q][q][0] = [fn |-> a, sn |-> b]
  BY <1>1, ShiftedType
<1>4. StepsTo(m, m, fr, sr, TRUE, c, a, b) /\ StepsTo(q, q, fr, sr, TRUE, c, a, b)
  BY <1>2, <1>3, StepAt
<1>5. ConsistencyStep(At(m, m, fr, sr, TRUE), c) =
        At(a \div 2, b \div 2, NodeHash(c, fr), NodeHash(c, sr), TRUE)
  BY <1>1, <1>4, Zenon DEF StepsTo
<1>6. ConsistencyStep(At(q, q, fr, sr, TRUE), c) =
        At(a \div 2, b \div 2, NodeHash(c, fr), NodeHash(c, sr), TRUE)
  BY <1>4, Zenon DEF StepsTo
<1> QED BY <1>5, <1>6 DEF LastStep

-----------------------------------------------------------------------------

\* The walk from node m of a tree over d, given what the nodes below it were folded to.
WalkFrom(d, m, fr, sr, proof) == ConsistencyWalk(At(m, Len(d) - 1, fr, sr, TRUE), proof)

\* The fields of a state.
LEMMA AtFields ==
  ASSUME NEW fn, NEW sn, NEW fr, NEW sr, NEW ok \in BOOLEAN
  PROVE  LET z == At(fn, sn, fr, sr, ok)
         IN  z.fn = fn /\ z.sn = sn /\ z.fr = fr /\ z.sr = sr /\ z.ok = ok
BY DEF At

\* What the walk does at the last node of all.
LEMMA WalkAtRoot ==
  ASSUME NEW T, NEW d \in Seq(T), Len(d) = 1, NEW fr, NEW sr, NEW A, NEW proof \in Seq(A)
  PROVE  IF proof = <<>> THEN WalkFrom(d, 0, fr, sr, proof) = At(0, 0, fr, sr, TRUE)
         ELSE ~ WalkFrom(d, 0, fr, sr, proof).ok
<1> DEFINE s == At(0, 0, fr, sr, TRUE)
<1>1. WalkFrom(d, 0, fr, sr, proof) = ConsistencyWalk(s, proof)
  BY DEF WalkFrom
<1>2. CASE proof = <<>>
  BY <1>1, <1>2, WalkEmpty
<1>3. CASE proof # <<>>
  <2>1. ConsistencyWalk(s, proof) = ConsistencyWalk(ConsistencyStep(s, proof[1]), Tail(proof))
    BY <1>3, WalkCons
  <2>2. PICK a \in Nat, b \in Nat : Shifted[0][0][0] = [fn |-> a, sn |-> b]
    <3>1. 0 \in 0 .. 1 /\ 0 \in Nat
      OBVIOUS
    <3> QED BY <3>1, ShiftedType
  <2>3. StepsTo(0, 0, fr, sr, TRUE, proof[1], a, b)
    BY <2>2, StepAt
  <2>4. ConsistencyStep(s, proof[1]) = At(0, 0, fr, sr, FALSE)
    BY <2>3, Zenon DEF StepsTo
  <2>5. Tail(proof) \in Seq(A)
    BY <1>3
  <2>6. Continues(ConsistencyWalk(At(0, 0, fr, sr, FALSE), Tail(proof)), FALSE)
    BY <2>5, WalkType
  <2>7. ~ ConsistencyWalk(At(0, 0, fr, sr, FALSE), Tail(proof)).ok
    BY <2>6 DEF Continues, At
  <2> QED BY <1>1, <1>3, <2>1, <2>4, <2>7
<1> QED BY <1>2, <1>3

\* Above that, it goes on from the node's parent in the level above, one element of the
\* proof later if the node has a sibling.
GoesOn(d, m, q, b, fr, sr, proof) ==
  WalkFrom(d, m, fr, sr, proof) =
    IF b = 1 THEN WalkFrom(Halved(d), q, NodeHash(proof[1], fr), NodeHash(proof[1], sr),
                           Tail(proof))
    ELSE IF m = Len(d) - 1 THEN WalkFrom(Halved(d), q, fr, sr, proof)
    ELSE WalkFrom(Halved(d), q, fr, NodeHash(sr, proof[1]), Tail(proof))

\* It does.
LEMMA WalkGoesOn ==
  ASSUME NEW T, NEW d \in Seq(T), Len(d) > 1, NEW m \in Nat, NEW q \in Nat, NEW b \in 0 .. 1,
         m = 2 * q + b, m < Len(d), NEW fr, NEW sr, NEW A, NEW proof \in Seq(A), proof # <<>>
  PROVE  GoesOn(d, m, q, b, fr, sr, proof)
<1> DEFINE s == At(m, Len(d) - 1, fr, sr, TRUE)
           c == proof[1]
<1>1. PICK sn \in Nat : sn = Len(d) - 1 /\ sn # 0 /\ sn \div 2 = Len(Halved(d)) - 1
  <2>1. Len(Halved(d)) = (Len(d) + 1) \div 2
    BY HalvedType
  <2>2. PICK n \in Nat : n = Len(d) /\ n > 1
    OBVIOUS
  <2>3. n - 1 \in Nat /\ n - 1 # 0 /\ (n - 1) \div 2 = (n + 1) \div 2 - 1
    BY <2>2
  <2> QED BY <2>1, <2>2, <2>3
<1>2. WalkFrom(d, m, fr, sr, proof) = ConsistencyWalk(At(m, sn, fr, sr, TRUE), proof)
  BY <1>1 DEF WalkFrom
<1>3. ConsistencyWalk(At(m, sn, fr, sr, TRUE), proof) =
        ConsistencyWalk(ConsistencyStep(At(m, sn, fr, sr, TRUE), c), Tail(proof))
  BY WalkCons
<1>4. \A x, y, r : WalkFrom(Halved(d), q, x, y, r) =
                     ConsistencyWalk(At(q, sn \div 2, x, y, TRUE), r)
  BY <1>1 DEF WalkFrom
<1>5. CASE b = 1
  <2>1. ConsistencyStep(At(m, sn, fr, sr, TRUE), c) =
          At(q, sn \div 2, NodeHash(c, fr), NodeHash(c, sr), TRUE)
    <3>1. m = 2 * q + 1
      BY <1>5
    <3>2. OddStep(m, q, sn, fr, sr, c)
      BY <1>1, <3>1, StepOdd
    <3> QED BY <3>2 DEF OddStep
  <2> QED BY <1>2, <1>3, <1>4, <1>5, <2>1, Zenon DEF GoesOn
<1>6. CASE b # 1 /\ m # Len(d) - 1
  <2>1. m = 2 * q /\ m # sn
    BY <1>1, <1>6
  <2>2. ConsistencyStep(At(m, sn, fr, sr, TRUE), c) =
          At(q, sn \div 2, fr, NodeHash(sr, c), TRUE)
    <3>1. EvenStep(m, q, sn, fr, sr, c)
      BY <1>1, <2>1, StepEven
    <3> QED BY <3>1 DEF EvenStep
  <2> QED BY <1>2, <1>3, <1>4, <1>6, <2>2, Zenon DEF GoesOn
<1>7. CASE b # 1 /\ m = Len(d) - 1
  <2>1. m = 2 * q /\ m = sn /\ q # 0 /\ sn \div 2 = q
    BY <1>1, <1>7
  <2>2. ConsistencyStep(At(m, sn, fr, sr, TRUE), c) =
          ConsistencyStep(At(q, sn \div 2, fr, sr, TRUE), c)
    <3>1. LastStep(m, q, fr, sr, c)
      BY <2>1, StepLast
    <3> QED BY <2>1, <3>1 DEF LastStep
  <2>3. ConsistencyWalk(At(q, sn \div 2, fr, sr, TRUE), proof) =
          ConsistencyWalk(ConsistencyStep(At(q, sn \div 2, fr, sr, TRUE), c), Tail(proof))
    BY WalkCons
  <2> QED BY <1>2, <1>3, <1>4, <1>7, <2>2, <2>3, Zenon DEF GoesOn
<1> QED BY <1>5, <1>6, <1>7

-----------------------------------------------------------------------------
(* The walk from a right end decides the new root *)

\* A list with an element in front.
Behind(x, p, proof) == (proof = <<x>> \o p) <=> (proof[1] = x /\ Tail(proof) = p)

\* It is told by its first element and the rest.
LEMMA ConsIs ==
  ASSUME NEW A, NEW B, NEW p \in Seq(B), NEW proof \in Seq(A), proof # <<>>, NEW x
  PROVE  Behind(x, p, proof)
<1> DEFINE q == <<x>> \o p
<1>1. Len(q) = Len(p) + 1 /\ q[1] = x /\ \A i \in 1 .. Len(p) : q[i + 1] = p[i]
  OBVIOUS
<1>2. ASSUME proof = q PROVE proof[1] = x /\ Tail(proof) = p
  <2>1. Len(Tail(proof)) = Len(p) /\ \A i \in 1 .. Len(p) : Tail(proof)[i] = p[i]
    BY <1>1, <1>2
  <2>2. Tail(proof) \in Seq(A)
    OBVIOUS
  <2> QED BY <1>1, <1>2, <2>1, <2>2
<1>3. ASSUME proof[1] = x, Tail(proof) = p PROVE proof = q
  <2>1. Len(proof) = Len(p) + 1 /\ Len(p) \in Nat
    BY <1>3
  <2>2. \A i \in 1 .. Len(p) : proof[i + 1] = p[i]
    <3>1. \A i \in 1 .. Len(proof) - 1 : Tail(proof)[i] = proof[i + 1]
      OBVIOUS
    <3> QED BY <1>3, <2>1, <3>1
  <2>3. q = [i \in 1 .. Len(p) + 1 |-> q[i]] /\ proof = [i \in 1 .. Len(p) + 1 |-> proof[i]]
    BY <2>1
  <2>4. ASSUME NEW i \in 1 .. Len(p) + 1 PROVE q[i] = proof[i]
    <3>1. CASE i = 1
      BY <1>1, <1>3, <3>1
    <3>2. CASE i # 1
      <4>1. PICK j \in 1 .. Len(p) : i = j + 1
        BY <2>1, <3>2
      <4> QED BY <1>1, <2>2, <4>1
    <3> QED BY <3>1, <3>2
  <2> HIDE DEF q
  <2> QED BY <2>3, <2>4
<1> QED BY <1>2, <1>3 DEF Behind

\* With one in front, a list is not empty.
LEMMA ConsIsNotEmpty ==
  ASSUME NEW B, NEW p \in Seq(B), NEW x
  PROVE  <<x>> \o p # <<>>
<1>1. Len(<<x>> \o p) = Len(p) + 1
  OBVIOUS
<1> QED BY <1>1

\* The walk gets to the root of the tree over d.
ReachesRoot(d, m, fr, sr, proof) ==
  LET e == WalkFrom(d, m, fr, sr, proof) IN e.ok /\ e.sn = 0 /\ e.sr = Mth(d)

\* It does so with the path of the node it starts at, and with nothing else.
WalkDecides(d, m, fr, sr, proof) ==
  ReachesRoot(d, m, fr, sr, proof) <=> (proof = Path(d, m) /\ sr = d[m + 1])

\* In the tree of one node.
LEMMA WalkDecidesOne ==
  ASSUME NEW T, NEW d \in Seq(T), Len(d) = 1, NEW fr, NEW sr, NEW A, NEW proof \in Seq(A)
  PROVE  WalkDecides(d, 0, fr, sr, proof)
<1>1. Mth(d) = d[1]
  <2>1. 1 \in 1 .. Len(d) /\ 1 \in 1 .. Len(d) - 1 + 1
    OBVIOUS
  <2>2. Roots(d)[1][1] = d[1]
    BY <2>1, RunRoot
  <2> QED BY <2>2 DEF Mth
<1>2. Path(d, 0) = <<>>
  <2>1. 1 \in 1 .. Len(d)
    OBVIOUS
  <2> QED BY <2>1, PathOfOne DEF Path
<1>3. CASE proof = <<>>
  <2>1. WalkFrom(d, 0, fr, sr, proof) = At(0, 0, fr, sr, TRUE)
    BY <1>3, WalkAtRoot
  <2>2. ReachesRoot(d, 0, fr, sr, proof) <=> sr = d[1]
    BY <1>1, <2>1 DEF ReachesRoot, At
  <2> QED BY <1>2, <1>3, <2>2 DEF WalkDecides
<1>4. CASE proof # <<>>
  <2>1. ~ WalkFrom(d, 0, fr, sr, proof).ok
    BY <1>4, WalkAtRoot
  <2> QED BY <1>2, <1>4, <2>1 DEF WalkDecides, ReachesRoot
<1> QED BY <1>3, <1>4

\* A walk that does not leave its start gets nowhere in a larger tree.
LEMMA EmptyGetsNowhere ==
  ASSUME NEW T, NEW d \in Seq(T), Len(d) > 1, NEW m, NEW fr, NEW sr
  PROVE  ~ ReachesRoot(d, m, fr, sr, <<>>)
<1>1. WalkFrom(d, m, fr, sr, <<>>) = At(m, Len(d) - 1, fr, sr, TRUE)
  BY WalkEmpty DEF WalkFrom
<1>2. PICK n \in Nat : n = Len(d) /\ n - 1 # 0
  OBVIOUS
<1> QED BY <1>1, <1>2 DEF ReachesRoot, At

\* Node hashes are the same exactly when both sides are.
SamePair(l, r, x, y) == NodeHash(l, r) = NodeHash(x, y) <=> (l = x /\ r = y)

\* So they are.
LEMMA NodeHashOfPair ==
  ASSUME NEW l, NEW r, NEW x, NEW y
  PROVE  SamePair(l, r, x, y)
BY NodeHashInjective, Zenon DEF SamePair

\* The walk from node m gets where one in the level above gets that ends in the same state.
SameEnd(d, m, fr, sr, proof, q, x, y, r) ==
  WalkFrom(d, m, fr, sr, proof) = WalkFrom(Halved(d), q, x, y, r) =>
    (ReachesRoot(d, m, fr, sr, proof) <=> (r = Path(Halved(d), q) /\ y = Halved(d)[q + 1]))

\* And if it holds of the level above.
LEMMA WalkDecidesStep ==
  ASSUME NEW T, NEW d \in Seq(T), Len(d) > 1, NEW m \in Nat, NEW q \in Nat, NEW b \in 0 .. 1,
         m = 2 * q + b, m < Len(d), NEW fr, NEW sr, NEW A, NEW proof \in Seq(A),
         \A x, y : \A r \in Seq(A) : WalkDecides(Halved(d), q, x, y, r)
  PROVE  WalkDecides(d, m, fr, sr, proof)
<1> DEFINE H == Halved(d)
           P == Path(H, q)
           S == Sibling(d, q, b)
<1>1. Mth(H) = Mth(d)
  <2>1. d # <<>>
    OBVIOUS
  <2> QED BY <2>1, HalvedRoot
<1>2. Path(d, m) = S \o P
  BY HalvedPath
<1>3. PICK n \in Nat : n = Len(d) /\ n > 1
  OBVIOUS
<1>4. /\ q + 1 \in 1 .. (n + 1) \div 2
      /\ b = 1 => 2 * (q + 1) <= n /\ 2 * (q + 1) - 1 = 2 * q + 1 /\ 2 * (q + 1) = m + 1
      /\ b # 1 /\ m = n - 1 => 2 * (q + 1) > n /\ 2 * (q + 1) - 1 = m + 1 /\ 2 * q + 1 = n
      /\ b # 1 /\ m # n - 1 =>
           /\ 2 * (q + 1) <= n /\ 2 * (q + 1) - 1 = m + 1 /\ 2 * (q + 1) = 2 * q + 2
           /\ 2 * q + 1 # n
      /\ (n + 1) \div 2 > 0 /\ (n + 1) \div 2 \in Nat
  BY <1>3
<1>5. H[q + 1] = IF 2 * (q + 1) > n THEN d[2 * (q + 1) - 1]
                 ELSE NodeHash(d[2 * (q + 1) - 1], d[2 * (q + 1)])
  <2>1. q + 1 \in 1 .. (Len(d) + 1) \div 2
    BY <1>3, <1>4
  <2> QED BY <1>3, <2>1, HalvedType
<1>6. PICK E : H \in Seq(E) /\ Len(H) = (n + 1) \div 2
  BY <1>3, HalvedType
<1>7. P \in Seq(Nodes(H))
  <2>1. Len(H) \in 1 .. Len(H) /\ 1 \in 1 .. Len(H) - Len(H) + 1
    BY <1>4, <1>6
  <2> HIDE DEF H
  <2>2. Paths(H, q)[Len(H)][1] \in Seq(Nodes(H))
    BY <1>6, <2>1, PathsType
  <2> QED BY <2>2 DEF Path
<1>8. \A x, y : \A r \in Seq(A) : WalkDecides(H, q, x, y, r)
  OBVIOUS
<1>9. proof # <<>> => GoesOn(d, m, q, b, fr, sr, proof)
  BY WalkGoesOn
<1>10. S = IF b = 1 THEN <<d[2 * q + 1]>> ELSE IF 2 * q + 1 = n THEN <<>> ELSE <<d[2 * q + 2]>>
  BY <1>3 DEF Sibling
<1>11. ~ ReachesRoot(d, m, fr, sr, <<>>)
  BY EmptyGetsNowhere
<1>12. proof # <<>> => Tail(proof) \in Seq(A)
  OBVIOUS
<1>13. ASSUME NEW x, NEW y, NEW r \in Seq(A)
       PROVE  SameEnd(d, m, fr, sr, proof, q, x, y, r)
  <2>0. SUFFICES ASSUME WalkFrom(d, m, fr, sr, proof) = WalkFrom(H, q, x, y, r)
                 PROVE  ReachesRoot(d, m, fr, sr, proof) <=> (r = P /\ y = H[q + 1])
    BY Zenon DEF SameEnd
  <2>1. WalkDecides(H, q, x, y, r)
    BY <1>8
  <2>2. ReachesRoot(d, m, fr, sr, proof) <=> ReachesRoot(H, q, x, y, r)
    <3> HIDE DEF H
    <3> QED BY <1>1, <2>0, Zenon DEF ReachesRoot
  <2> HIDE DEF H, P
  <2> QED BY <2>1, <2>2, Zenon DEF WalkDecides, P
<1> HIDE DEF H, P, S
<1>14. ASSUME NEW x, S = <<x>>, proof = <<>>
       PROVE  WalkDecides(d, m, fr, sr, proof)
  <2>1. <<x>> \o P # <<>>
    BY <1>7, ConsIsNotEmpty
  <2> QED BY <1>2, <1>11, <1>14, <2>1, Zenon DEF WalkDecides
<1>15. ASSUME NEW x, S = <<x>>, proof # <<>>
       PROVE  proof = Path(d, m) <=> (proof[1] = x /\ Tail(proof) = P)
  <2>1. Behind(x, P, proof)
    BY <1>7, <1>15, ConsIs
  <2> QED BY <1>2, <1>15, <2>1, Zenon DEF Behind
<1>16. CASE b = 1
  <2>1. S = <<d[2 * q + 1]>>
    BY <1>10, <1>16
  <2>2. H[q + 1] = NodeHash(d[2 * q + 1], d[m + 1])
    BY <1>3, <1>4, <1>5, <1>16
  <2>3. CASE proof = <<>>
    BY <1>14, <2>1, <2>3
  <2>4. CASE proof # <<>>
    <3> DEFINE c == proof[1]
    <3>1. WalkFrom(d, m, fr, sr, proof) =
            WalkFrom(H, q, NodeHash(c, fr), NodeHash(c, sr), Tail(proof))
      BY <1>9, <1>16, <2>4, Zenon DEF GoesOn, H
    <3>2. ReachesRoot(d, m, fr, sr, proof) <=>
            (Tail(proof) = P /\ NodeHash(c, sr) = H[q + 1])
      <4> HIDE DEF c
      <4>1. SameEnd(d, m, fr, sr, proof, q, NodeHash(c, fr), NodeHash(c, sr), Tail(proof))
        BY <1>12, <1>13, <2>4
      <4> QED BY <3>1, <4>1, Zenon DEF SameEnd, H, P
    <3>3. NodeHash(c, sr) = H[q + 1] <=> (c = d[2 * q + 1] /\ sr = d[m + 1])
      <4> HIDE DEF c
      <4>1. SamePair(c, sr, d[2 * q + 1], d[m + 1])
        BY NodeHashOfPair
      <4> QED BY <2>2, <4>1, Zenon DEF SamePair
    <3>4. proof = Path(d, m) <=> (c = d[2 * q + 1] /\ Tail(proof) = P)
      BY <1>15, <2>1, <2>4
    <3> HIDE DEF c
    <3> QED BY <3>2, <3>3, <3>4, Zenon DEF WalkDecides
  <2> QED BY <2>3, <2>4
<1>17. CASE b # 1 /\ m # n - 1
  <2>1. S = <<d[2 * q + 2]>>
    BY <1>4, <1>10, <1>17
  <2>2. H[q + 1] = NodeHash(d[m + 1], d[2 * q + 2])
    BY <1>3, <1>4, <1>5, <1>17
  <2>3. CASE proof = <<>>
    BY <1>14, <2>1, <2>3
  <2>4. CASE proof # <<>>
    <3> DEFINE c == proof[1]
    <3>1. WalkFrom(d, m, fr, sr, proof) = WalkFrom(H, q, fr, NodeHash(sr, c), Tail(proof))
      BY <1>3, <1>9, <1>17, <2>4, Zenon DEF GoesOn, H
    <3>2. ReachesRoot(d, m, fr, sr, proof) <=>
            (Tail(proof) = P /\ NodeHash(sr, c) = H[q + 1])
      <4> HIDE DEF c
      <4>1. SameEnd(d, m, fr, sr, proof, q, fr, NodeHash(sr, c), Tail(proof))
        BY <1>12, <1>13, <2>4
      <4> QED BY <3>1, <4>1, Zenon DEF SameEnd, H, P
    <3>3. NodeHash(sr, c) = H[q + 1] <=> (c = d[2 * q + 2] /\ sr = d[m + 1])
      <4> HIDE DEF c
      <4>1. SamePair(sr, c, d[m + 1], d[2 * q + 2])
        BY NodeHashOfPair
      <4> QED BY <2>2, <4>1, Zenon DEF SamePair
    <3>4. proof = Path(d, m) <=> (c = d[2 * q + 2] /\ Tail(proof) = P)
      BY <1>15, <2>1, <2>4
    <3> HIDE DEF c
    <3> QED BY <3>2, <3>3, <3>4, Zenon DEF WalkDecides
  <2> QED BY <2>3, <2>4
<1>18. CASE b # 1 /\ m = n - 1
  <2>1. S = <<>>
    BY <1>4, <1>10, <1>18
  <2>2. H[q + 1] = d[m + 1]
    BY <1>3, <1>4, <1>5, <1>18
  <2>3. Path(d, m) = P
    <3>1. <<>> \o P = P
      BY <1>7
    <3> QED BY <1>2, <2>1, <3>1
  <2>4. CASE proof = <<>>
    <3>1. Len(H) > 1
      <4>1. (n + 1) \div 2 > 1
        BY <1>3, <1>4, <1>18
      <4> QED BY <1>6, <4>1
    <3>2. ~ ReachesRoot(H, q, fr, sr, <<>>)
      BY <1>6, <3>1, EmptyGetsNowhere
    <3>3. WalkDecides(H, q, fr, sr, proof)
      BY <1>8
    <3> QED BY <1>11, <2>2, <2>3, <2>4, <3>2, <3>3, Zenon DEF WalkDecides, P
  <2>5. CASE proof # <<>>
    <3>1. WalkFrom(d, m, fr, sr, proof) = WalkFrom(H, q, fr, sr, proof)
      BY <1>3, <1>9, <1>18, <2>5, Zenon DEF GoesOn, H
    <3>2. ReachesRoot(d, m, fr, sr, proof) <=> (proof = P /\ sr = H[q + 1])
      <4>1. SameEnd(d, m, fr, sr, proof, q, fr, sr, proof)
        BY <1>13
      <4> QED BY <3>1, <4>1, Zenon DEF SameEnd, H, P
    <3> QED BY <2>2, <2>3, <3>2, Zenon DEF WalkDecides
  <2> QED BY <2>4, <2>5
<1> QED BY <1>16, <1>17, <1>18

\* Hence always.
LEMMA WalkDecidesAlways ==
  ASSUME NEW A
  PROVE  \A n \in Nat : \A T : \A d \in Seq(T) : Len(d) = n =>
           \A m \in 0 .. n - 1 : \A fr, sr : \A proof \in Seq(A) : WalkDecides(d, m, fr, sr, proof)
<1> DEFINE Good(n) ==
      \A T : \A d \in Seq(T) : Len(d) = n =>
        \A m \in 0 .. n - 1 : \A fr, sr : \A proof \in Seq(A) : WalkDecides(d, m, fr, sr, proof)
           Bad == {n \in Nat : ~ Good(n)}
<1>1. SUFFICES ASSUME Bad # {} PROVE FALSE
  OBVIOUS
<1>2. PICK n \in Bad : \A x \in Bad : n <= x
  <2>1. Bad \subseteq Nat
    OBVIOUS
  <2> HIDE DEF Bad
  <2> QED BY <1>1, <2>1, Least
<1>3. n \in Nat /\ ~ Good(n)
  OBVIOUS
<1>4. ASSUME NEW T, NEW d \in Seq(T), Len(d) = n, NEW m \in 0 .. n - 1, NEW fr, NEW sr,
             NEW proof \in Seq(A)
      PROVE  WalkDecides(d, m, fr, sr, proof)
  <2>1. CASE n = 1
    <3>1. m = 0
      BY <2>1
    <3> QED BY <1>4, <2>1, <3>1, WalkDecidesOne
  <2>2. CASE n # 1
    <3>1. PICK q \in Nat, b \in 0 .. 1 : m = 2 * q + b
      <4>1. m \div 2 \in Nat /\ m % 2 \in 0 .. 1 /\ m = 2 * (m \div 2) + (m % 2)
        BY <1>3
      <4> QED BY <4>1
    <3>2. PICK h : h = (n + 1) \div 2
      OBVIOUS
    <3>3. n > 1 /\ m \in Nat /\ m < n /\ h \in Nat /\ ~ (n <= h) /\ q \in 0 .. h - 1
      BY <1>3, <2>2, <3>1, <3>2
    <3>4. Good(h)
      <4>1. h \notin Bad
        <5> HIDE DEF Bad
        <5> QED BY <1>2, <3>3
      <4> QED BY <3>3, <4>1
    <3>5. \A x, y : \A r \in Seq(A) : WalkDecides(Halved(d), q, x, y, r)
      <4>1. PICK E : Halved(d) \in Seq(E)
        BY HalvedType
      <4>2. Len(Halved(d)) = h
        BY <1>4, <3>2, HalvedType
      <4> QED BY <3>3, <3>4, <4>1, <4>2, Zenon
    <3> QED BY <1>4, <3>1, <3>3, <3>5, WalkDecidesStep
  <2> QED BY <2>1, <2>2
<1> QED BY <1>3, <1>4, Zenon

-----------------------------------------------------------------------------
(* The old root along the walk *)

\* A path is a list of roots, and in a tree of two nodes or more it is not empty.
LEMMA PathIsList ==
  ASSUME NEW T, NEW d \in Seq(T), NEW m \in Nat, m < Len(d)
  PROVE  /\ Path(d, m) \in Seq(Nodes(d))
         /\ Len(d) > 1 => Path(d, m) # <<>>
<1>1. Path(d, m) \in Seq(Nodes(d))
  <2>1. Len(d) \in 1 .. Len(d) /\ 1 \in 1 .. Len(d) - Len(d) + 1
    OBVIOUS
  <2> QED BY <2>1, PathsType DEF Path
<1>2. ASSUME Len(d) > 1, Path(d, m) = <<>> PROVE FALSE
  <2> DEFINE A == Nodes(d)
  <2>1. m \in 0 .. Len(d) - 1 /\ Len(d) \in Nat
    OBVIOUS
  <2>2. WalkDecides(d, m, 0, d[m + 1], Path(d, m))
    <3> HIDE DEF A
    <3> QED BY <1>1, <2>1, WalkDecidesAlways, Zenon
  <2>3. ~ ReachesRoot(d, m, 0, d[m + 1], <<>>)
    BY <1>2, EmptyGetsNowhere
  <2> QED BY <1>2, <2>2, <2>3, Zenon DEF WalkDecides
<1> QED BY <1>1, <1>2

\* O is the tree whose last node is node m, or what became of it, over the nodes before m.
EndsAt(O, d, m) ==
  /\ \E U : O \in Seq(U)
  /\ Len(O) = m + 1
  /\ \A j \in 1 .. m : O[j] = d[j]

\* The walk folds the old tree's root along the path.
OldRootFollows(d, m, O, sr) == WalkFrom(d, m, O[m + 1], sr, Path(d, m)).fr = Mth(O)

\* The same of the level above: its last node is node m, or its parent with its left sibling.
EndsAbove(O, d, m, q, b) ==
  /\ EndsAt(Halved(O), Halved(d), q)
  /\ Halved(O)[q + 1] = IF b = 1 THEN NodeHash(d[2 * q + 1], O[m + 1]) ELSE O[m + 1]

\* The trees of the level above are so related too.
LEMMA EndsAtAbove ==
  ASSUME NEW T, NEW d \in Seq(T), NEW m \in Nat, NEW q \in Nat, NEW b \in 0 .. 1,
         m = 2 * q + b, m < Len(d), NEW O, EndsAt(O, d, m)
  PROVE  EndsAbove(O, d, m, q, b)
<1>1. PICK U : O \in Seq(U)
  BY DEF EndsAt
<1>2. Len(O) = m + 1 /\ \A j \in 1 .. m : O[j] = d[j]
  BY DEF EndsAt
<1>3. (m + 2) \div 2 = q + 1 /\ m + 1 + 1 = m + 2
  OBVIOUS
<1>4. /\ \E E : Halved(O) \in Seq(E)
      /\ Len(Halved(O)) = q + 1
      /\ \A i \in 1 .. q + 1 :
           Halved(O)[i] = IF 2 * i > m + 1 THEN O[2 * i - 1] ELSE NodeHash(O[2 * i - 1], O[2 * i])
  <2>1. (Len(O) + 1) \div 2 = q + 1
    BY <1>2, <1>3
  <2>2. /\ \E E : Halved(O) \in Seq(E)
        /\ Len(Halved(O)) = (Len(O) + 1) \div 2
        /\ \A i \in 1 .. (Len(O) + 1) \div 2 :
             Halved(O)[i] = IF 2 * i > Len(O) THEN O[2 * i - 1]
                            ELSE NodeHash(O[2 * i - 1], O[2 * i])
    BY <1>1, HalvedType
  <2> QED BY <1>2, <2>1, <2>2
<1>5. ASSUME NEW j \in 1 .. q PROVE Halved(O)[j] = Halved(d)[j]
  <2>1. /\ j \in 1 .. q + 1 /\ ~ (2 * j > m + 1) /\ 2 * j - 1 \in 1 .. m /\ 2 * j \in 1 .. m
    OBVIOUS
  <2>2. PICK n \in Nat : n = Len(d) /\ m < n
    OBVIOUS
  <2>3. j \in 1 .. (n + 1) \div 2 /\ ~ (2 * j > n)
    BY <2>1, <2>2
  <2>4. Halved(d)[j] = NodeHash(d[2 * j - 1], d[2 * j])
    BY <2>2, <2>3, HalvedType
  <2>5. Halved(O)[j] = NodeHash(O[2 * j - 1], O[2 * j])
    BY <1>4, <2>1
  <2>6. O[2 * j - 1] = d[2 * j - 1] /\ O[2 * j] = d[2 * j]
    BY <1>2, <2>1
  <2> QED BY <2>4, <2>5, <2>6
<1>6. Halved(O)[q + 1] = IF 2 * (q + 1) > m + 1 THEN O[2 * (q + 1) - 1]
                         ELSE NodeHash(O[2 * (q + 1) - 1], O[2 * (q + 1)])
  <2>1. PICK j \in 1 .. q + 1 : j = q + 1
    OBVIOUS
  <2>2. Halved(O)[j] = IF 2 * j > m + 1 THEN O[2 * j - 1] ELSE NodeHash(O[2 * j - 1], O[2 * j])
    BY <1>4
  <2> QED BY <2>1, <2>2
<1>7. Halved(O)[q + 1] = IF b = 1 THEN NodeHash(d[2 * q + 1], O[m + 1]) ELSE O[m + 1]
  <2>1. CASE b = 1
    <3>1. /\ ~ (2 * (q + 1) > m + 1) /\ 2 * (q + 1) - 1 = 2 * q + 1 /\ 2 * (q + 1) = m + 1
          /\ 2 * q + 1 \in 1 .. m
      BY <2>1
    <3>2. O[2 * q + 1] = d[2 * q + 1]
      BY <1>2, <3>1
    <3> QED BY <1>6, <2>1, <3>1, <3>2
  <2>2. CASE b # 1
    <3>1. 2 * (q + 1) > m + 1 /\ 2 * (q + 1) - 1 = m + 1
      BY <2>2
    <3> QED BY <1>6, <2>2, <3>1
  <2> QED BY <2>1, <2>2
<1> QED BY <1>4, <1>5, <1>7 DEF EndsAt, EndsAbove

\* If it does so in the level above, it does so here.
LEMMA OldRootStep ==
  ASSUME NEW T, NEW d \in Seq(T), Len(d) > 1, NEW m \in Nat, NEW q \in Nat, NEW b \in 0 .. 1,
         m = 2 * q + b, m < Len(d), NEW O, EndsAt(O, d, m), NEW sr,
         \A y : OldRootFollows(Halved(d), q, Halved(O), y)
  PROVE  OldRootFollows(d, m, O, sr)
<1> DEFINE H == Halved(d)
           P == Path(H, q)
           S == Sibling(d, q, b)
           proof == Path(d, m)
           c == proof[1]
<1>1. EndsAt(Halved(O), H, q)
      /\ Halved(O)[q + 1] = IF b = 1 THEN NodeHash(d[2 * q + 1], O[m + 1]) ELSE O[m + 1]
  <2> HIDE DEF P, S, proof, c
  <2>1. EndsAbove(O, d, m, q, b)
    BY EndsAtAbove
  <2> QED BY <2>1 DEF EndsAbove
<1>2. Mth(Halved(O)) = Mth(O)
  <2>1. PICK U : O \in Seq(U)
    BY DEF EndsAt
  <2>2. O # <<>>
    BY <2>1 DEF EndsAt
  <2> QED BY <2>1, <2>2, HalvedRoot
<1>3. proof = S \o P
  BY HalvedPath
<1>4. proof \in Seq(Nodes(d)) /\ proof # <<>>
  BY PathIsList
<1>5. GoesOn(d, m, q, b, O[m + 1], sr, proof)
  <2> HIDE DEF proof
  <2> QED BY <1>4, WalkGoesOn
<1>6. PICK n \in Nat : n = Len(d) /\ n > 1
  OBVIOUS
<1>7. P \in Seq(Nodes(H))
  <2>1. PICK E : H \in Seq(E) /\ Len(H) = (n + 1) \div 2
    BY <1>6, HalvedType
  <2>2. q < (n + 1) \div 2
    BY <1>6
  <2>3. q < Len(H)
    BY <2>1, <2>2
  <2> HIDE DEF H
  <2> QED BY <2>1, <2>3, PathIsList
<1>8. S = IF b = 1 THEN <<d[2 * q + 1]>> ELSE IF 2 * q + 1 = n THEN <<>> ELSE <<d[2 * q + 2]>>
  BY <1>6 DEF Sibling
<1>9. \A y : WalkFrom(H, q, Halved(O)[q + 1], y, P).fr = Mth(O)
  BY <1>2 DEF OldRootFollows
<1> HIDE DEF H, P, S, proof
<1>10. ASSUME NEW x, S = <<x>> PROVE c = x /\ Tail(proof) = P
  <2>1. Behind(x, P, proof)
    BY <1>4, <1>7, ConsIs
  <2> QED BY <1>3, <1>10, <2>1, Zenon DEF Behind
<1> HIDE DEF c
<1>11. CASE b = 1
  <2>1. c = d[2 * q + 1] /\ Tail(proof) = P
    BY <1>8, <1>10, <1>11
  <2>2. WalkFrom(d, m, O[m + 1], sr, proof) =
          WalkFrom(H, q, NodeHash(c, O[m + 1]), NodeHash(c, sr), Tail(proof))
    BY <1>5, <1>11, Zenon DEF GoesOn, H, c
  <2>3. NodeHash(c, O[m + 1]) = Halved(O)[q + 1]
    BY <1>1, <1>11, <2>1
  <2> QED BY <1>9, <2>1, <2>2, <2>3, Zenon DEF OldRootFollows, proof
<1>12. CASE b # 1 /\ m # n - 1
  <2>1. Tail(proof) = P
    <3>1. 2 * q + 1 # n
      BY <1>6, <1>12
    <3> QED BY <1>8, <1>10, <1>12, <3>1
  <2>2. WalkFrom(d, m, O[m + 1], sr, proof) =
          WalkFrom(H, q, O[m + 1], NodeHash(sr, c), Tail(proof))
    BY <1>5, <1>6, <1>12, Zenon DEF GoesOn, H, c
  <2>3. O[m + 1] = Halved(O)[q + 1]
    BY <1>1, <1>12
  <2> QED BY <1>9, <2>1, <2>2, <2>3, Zenon DEF OldRootFollows, proof
<1>13. CASE b # 1 /\ m = n - 1
  <2>1. proof = P
    <3>1. S = <<>>
      <4>1. 2 * q + 1 = n
        BY <1>6, <1>13
      <4> QED BY <1>8, <1>13, <4>1
    <3>2. <<>> \o P = P
      BY <1>7
    <3> QED BY <1>3, <3>1, <3>2
  <2>2. WalkFrom(d, m, O[m + 1], sr, proof) = WalkFrom(H, q, O[m + 1], sr, proof)
    BY <1>5, <1>6, <1>13, Zenon DEF GoesOn, H, c
  <2>3. O[m + 1] = Halved(O)[q + 1]
    BY <1>1, <1>13
  <2> QED BY <1>9, <2>1, <2>2, <2>3, Zenon DEF OldRootFollows, proof
<1> QED BY <1>11, <1>12, <1>13

\* Hence always.
LEMMA OldRootAlways ==
  \A n \in Nat : \A T : \A d \in Seq(T) : Len(d) = n =>
    \A m \in 0 .. n - 1 : \A O : EndsAt(O, d, m) => \A sr : OldRootFollows(d, m, O, sr)
<1> DEFINE Good(n) ==
      \A T : \A d \in Seq(T) : Len(d) = n =>
        \A m \in 0 .. n - 1 : \A O : EndsAt(O, d, m) => \A sr : OldRootFollows(d, m, O, sr)
           Bad == {n \in Nat : ~ Good(n)}
<1>1. SUFFICES ASSUME Bad # {} PROVE FALSE
  OBVIOUS
<1>2. PICK n \in Bad : \A x \in Bad : n <= x
  <2>1. Bad \subseteq Nat
    OBVIOUS
  <2> HIDE DEF Bad
  <2> QED BY <1>1, <2>1, Least
<1>3. n \in Nat /\ ~ Good(n)
  OBVIOUS
<1>4. ASSUME NEW T, NEW d \in Seq(T), Len(d) = n, NEW m \in 0 .. n - 1, NEW O, EndsAt(O, d, m),
             NEW sr
      PROVE  OldRootFollows(d, m, O, sr)
  <2>1. CASE n = 1
    <3>1. m = 0 /\ m + 1 = 1
      BY <2>1
    <3>2. Path(d, m) = <<>>
      <4>1. 1 \in 1 .. Len(d)
        BY <1>4, <2>1
      <4> QED BY <1>4, <2>1, <4>1, PathOfOne DEF Path
    <3>3. <<>> \in Seq({})
      OBVIOUS
    <3>4. WalkFrom(d, 0, O[1], sr, <<>>) = At(0, 0, O[1], sr, TRUE)
      BY <1>4, <2>1, <3>3, WalkAtRoot
    <3>5. WalkFrom(d, 0, O[1], sr, <<>>).fr = O[1]
      BY <3>4 DEF At
    <3>6. Mth(O) = O[1]
      <4>1. PICK U : O \in Seq(U)
        BY <1>4 DEF EndsAt
      <4>2. Len(O) = 1
        BY <1>4, <3>1 DEF EndsAt
      <4>3. 1 \in 1 .. Len(O) /\ 1 \in 1 .. Len(O) - 1 + 1
        BY <4>2
      <4>4. Roots(O)[1][1] = O[1]
        BY <4>1, <4>3, RunRoot
      <4> QED BY <4>2, <4>4 DEF Mth
    <3> QED BY <3>1, <3>2, <3>5, <3>6 DEF OldRootFollows
  <2>2. CASE n # 1
    <3>1. PICK q \in Nat, b \in 0 .. 1 : m = 2 * q + b
      <4>1. m \div 2 \in Nat /\ m % 2 \in 0 .. 1 /\ m = 2 * (m \div 2) + (m % 2)
        BY <1>3
      <4> QED BY <4>1
    <3>2. PICK h : h = (n + 1) \div 2
      OBVIOUS
    <3>3. n > 1 /\ m \in Nat /\ m < n /\ h \in Nat /\ ~ (n <= h) /\ q \in 0 .. h - 1
      BY <1>3, <2>2, <3>1, <3>2
    <3>4. Good(h)
      <4>1. h \notin Bad
        <5> HIDE DEF Bad
        <5> QED BY <1>2, <3>3
      <4> QED BY <3>3, <4>1
    <3>5. \A y : OldRootFollows(Halved(d), q, Halved(O), y)
      <4>1. PICK E : Halved(d) \in Seq(E)
        BY HalvedType
      <4>2. Len(Halved(d)) = h
        BY <1>4, <3>2, HalvedType
      <4>3. EndsAt(Halved(O), Halved(d), q)
        <5>1. EndsAbove(O, d, m, q, b)
          BY <1>4, <3>1, <3>3, EndsAtAbove
        <5> QED BY <5>1 DEF EndsAbove
      <4> QED BY <3>3, <3>4, <4>1, <4>2, <4>3, Zenon
    <3> QED BY <1>4, <3>1, <3>3, <3>5, OldRootStep
  <2> QED BY <2>1, <2>2
<1> QED BY <1>3, <1>4, Zenon

-----------------------------------------------------------------------------
(* The inclusion walk is half of the consistency walk *)

\* A state of the inclusion walk.
On(fn, sn, r, ok) == [fn |-> fn, sn |-> sn, r |-> r, ok |-> ok]

\* Its places replaced.
LEMMA PlacesReplacedOn ==
  ASSUME NEW fn, NEW sn, NEW r, NEW ok, NEW a, NEW b
  PROVE  Placed(On(fn, sn, r, ok), a, b) = On(a, b, r, ok)
<1> DEFINE s == On(fn, sn, r, ok)
           t == [s EXCEPT !.fn = a]
<1>1. t = On(a, sn, r, ok)
  BY DEF On
<1>2. [t EXCEPT !.sn = b] = On(a, b, r, ok)
  <2> HIDE DEF t
  <2> QED BY <1>1 DEF On
<1>3. [s EXCEPT !.fn = a, !.sn = b] = [t EXCEPT !.sn = b]
  <2> HIDE DEF s
  <2> QED OBVIOUS
<1> QED BY <1>2, <1>3 DEF Placed

\* Where the walk stands after a level.
LEMMA ClimbedOn ==
  ASSUME NEW fn, NEW sn, NEW r, NEW ok
  PROVE  Climbed(On(fn, sn, r, ok)) = On(fn \div 2, sn \div 2, r, ok)
<1> DEFINE s == On(fn, sn, r, ok)
<1>1. s.fn = fn /\ s.sn = sn
  BY DEF On
<1>2. Climbed(s) = Placed(s, fn \div 2, sn \div 2)
  <2> HIDE DEF s
  <2> QED BY <1>1 DEF Climbed, Placed
<1> QED BY <1>2, PlacesReplacedOn

\* Where it stands after the shifts.
LEMMA SkipOn ==
  ASSUME NEW fn, NEW sn, NEW r, NEW ok, NEW bit, NEW a, NEW b,
         Shifted[fn][sn][bit] = [fn |-> a, sn |-> b]
  PROVE  Skip(On(fn, sn, r, ok), bit) = On(a, b, r, ok)
<1> DEFINE s == On(fn, sn, r, ok)
<1>1. s.fn = fn /\ s.sn = sn
  BY DEF On
<1>2. Skip(s, bit) = Placed(s, a, b)
  <2> HIDE DEF s
  <2> DEFINE to == Shifted[fn][sn][bit]
  <2>1. to.fn = a /\ to.sn = b
    OBVIOUS
  <2>2. Skip(s, bit) = Placed(s, to.fn, to.sn)
    BY <1>1 DEF Skip, Placed
  <2> HIDE DEF to
  <2> QED BY <2>1, <2>2
<1> QED BY <1>2, PlacesReplacedOn

\* A step of the inclusion walk, spelt out; a and b are where the shifts lead.
ProvesTo(fn, sn, r, ok, p, a, b) ==
  InclusionStep(On(fn, sn, r, ok), p) =
    IF ~ HashSized(p) \/ sn = 0 THEN On(fn, sn, r, FALSE)
    ELSE IF fn % 2 = 1 \/ fn = sn THEN On(a \div 2, b \div 2, NodeHash(p, r), ok)
    ELSE On(fn \div 2, sn \div 2, NodeHash(r, p), ok)

\* The step is that.
LEMMA InclusionStepOn ==
  ASSUME NEW fn \in Nat, NEW sn \in Nat, NEW r, NEW ok, NEW p,
         NEW a \in Nat, NEW b \in Nat, Shifted[fn][sn][0] = [fn |-> a, sn |-> b]
  PROVE  ProvesTo(fn, sn, r, ok, p, a, b)
<1> DEFINE s == On(fn, sn, r, ok)
<1>1. s.fn = fn /\ s.sn = sn /\ s.r = r
  BY DEF On
<1>2. CASE ~ HashSized(p) \/ sn = 0
  <2>1. InclusionStep(s, p) = [s EXCEPT !.ok = FALSE]
    BY <1>1, <1>2, Zenon DEF InclusionStep
  <2>2. [s EXCEPT !.ok = FALSE] = On(fn, sn, r, FALSE)
    <3> HIDE DEF s
    <3>1. \A o : [s EXCEPT !.ok = o] = On(fn, sn, r, o)
      BY DEF s, On
    <3> QED BY <3>1, Zenon
  <2> QED BY <1>2, <2>1, <2>2, Zenon DEF ProvesTo
<1>3. CASE ~ (~ HashSized(p) \/ sn = 0) /\ (fn % 2 = 1 \/ fn = sn)
  <2> DEFINE t == [s EXCEPT !.r = NodeHash(p, @)]
  <2>1. t = On(fn, sn, NodeHash(p, r), ok)
    BY DEF On
  <2>2. SiblingIsLeft(s)
    BY <1>1, <1>3, Zenon DEF SiblingIsLeft
  <2>3. InclusionStep(s, p) = Climbed(Skip(t, 0))
    BY <1>1, <1>3, <2>2, Zenon DEF InclusionStep
  <2> HIDE DEF s, t
  <2>4. Skip(t, 0) = On(a, b, NodeHash(p, r), ok)
    BY <2>1, SkipOn
  <2>5. Climbed(Skip(t, 0)) = On(a \div 2, b \div 2, NodeHash(p, r), ok)
    BY <2>4, ClimbedOn
  <2> QED BY <1>3, <2>3, <2>5, Zenon DEF s, ProvesTo
<1>4. CASE ~ (~ HashSized(p) \/ sn = 0) /\ ~ (fn % 2 = 1 \/ fn = sn)
  <2> DEFINE t == [s EXCEPT !.r = NodeHash(@, p)]
  <2>1. t = On(fn, sn, NodeHash(r, p), ok)
    BY DEF On
  <2>2. ~ SiblingIsLeft(s)
    BY <1>1, <1>4, Zenon DEF SiblingIsLeft
  <2>3. InclusionStep(s, p) = Climbed(t)
    BY <1>1, <1>4, <2>2, Zenon DEF InclusionStep
  <2> HIDE DEF s, t
  <2>4. Climbed(t) = On(fn \div 2, sn \div 2, NodeHash(r, p), ok)
    BY <2>1, ClimbedOn
  <2> QED BY <1>4, <2>3, <2>4, Zenon DEF s, ProvesTo
<1> QED BY <1>2, <1>3, <1>4

\* The inclusion walk v and the consistency walk w over the same proof are at the same place
\* with the same hash of the new tree, as long as all elements are hashes; v has failed if
\* some are not.
Together(v, w, sized) ==
  \E a, b \in Nat : \E x, y : \E o \in BOOLEAN :
    v = On(a, b, x, o) /\ (sized => w = At(a, b, y, x, o)) /\ (o => sized)

\* They stay together.
LEMMA StepTogether ==
  ASSUME NEW v, NEW w, NEW sized \in BOOLEAN, Together(v, w, sized), NEW p
  PROVE  Together(InclusionStep(v, p), ConsistencyStep(w, p), sized /\ HashSized(p))
<1>1. PICK fn \in Nat, sn \in Nat : \E x, y : \E o \in BOOLEAN :
        v = On(fn, sn, x, o) /\ (sized => w = At(fn, sn, y, x, o)) /\ (o => sized)
  BY Zenon DEF Together
<1>2. PICK r, f : \E o \in BOOLEAN :
        v = On(fn, sn, r, o) /\ (sized => w = At(fn, sn, f, r, o)) /\ (o => sized)
  BY <1>1, Zenon
<1>3. PICK ok \in BOOLEAN :
        v = On(fn, sn, r, ok) /\ (sized => w = At(fn, sn, f, r, ok)) /\ (ok => sized)
  BY <1>2, Zenon
<1>4. PICK a \in Nat, b \in Nat : Shifted[fn][sn][0] = [fn |-> a, sn |-> b]
  <2>1. 0 \in 0 .. 1
    OBVIOUS
  <2> QED BY <2>1, ShiftedType
<1>5. ProvesTo(fn, sn, r, ok, p, a, b)
  BY <1>4, InclusionStepOn
<1>6. StepsTo(fn, sn, f, r, ok, p, a, b)
  BY <1>4, StepAt
<1>7. /\ a \div 2 \in Nat /\ b \div 2 \in Nat /\ fn \div 2 \in Nat /\ sn \div 2 \in Nat
      /\ FALSE \in BOOLEAN
  OBVIOUS
<1>8. CASE ~ HashSized(p)
  <2>1. InclusionStep(v, p) = On(fn, sn, r, FALSE)
    BY <1>3, <1>5, <1>8, Zenon DEF ProvesTo
  <2> QED BY <1>7, <1>8, <2>1, Zenon DEF Together
<1>9. CASE HashSized(p) /\ sn = 0
  <2>1. InclusionStep(v, p) = On(fn, sn, r, FALSE)
    BY <1>3, <1>5, <1>9, Zenon DEF ProvesTo
  <2>2. sized => ConsistencyStep(w, p) = At(fn, sn, f, r, FALSE)
    BY <1>3, <1>6, <1>9, Zenon DEF StepsTo
  <2> QED BY <1>7, <1>9, <2>1, <2>2, Zenon DEF Together
<1>10. CASE HashSized(p) /\ sn # 0 /\ (fn % 2 = 1 \/ fn = sn)
  <2>1. InclusionStep(v, p) = On(a \div 2, b \div 2, NodeHash(p, r), ok)
    BY <1>3, <1>5, <1>10, Zenon DEF ProvesTo
  <2>2. sized => ConsistencyStep(w, p) = At(a \div 2, b \div 2, NodeHash(p, f), NodeHash(p, r), ok)
    BY <1>3, <1>6, <1>10, Zenon DEF StepsTo
  <2> QED BY <1>3, <1>7, <1>10, <2>1, <2>2, Zenon DEF Together
<1>11. CASE HashSized(p) /\ sn # 0 /\ ~ (fn % 2 = 1 \/ fn = sn)
  <2>1. InclusionStep(v, p) = On(fn \div 2, sn \div 2, NodeHash(r, p), ok)
    BY <1>3, <1>5, <1>11, Zenon DEF ProvesTo
  <2>2. sized => ConsistencyStep(w, p) = At(fn \div 2, sn \div 2, f, NodeHash(r, p), ok)
    BY <1>3, <1>6, <1>11, Zenon DEF StepsTo
  <2> QED BY <1>3, <1>7, <1>11, <2>1, <2>2, Zenon DEF Together
<1> QED BY <1>8, <1>9, <1>10, <1>11

-----------------------------------------------------------------------------

\* v is the sequence of the states the inclusion walk goes through.
IsInclusionWalk(v, s, proof, N) ==
  v = [i \in 0 .. N |-> IF i = 0 THEN s ELSE InclusionStep(v[i - 1], proof[i])]

\* There is one.
LEMMA InclusionWalksExist ==
  ASSUME NEW s, NEW proof, NEW N \in Nat
  PROVE  \E v : IsInclusionWalk(v, s, proof, N)
<1> DEFINE S == {M \in 0 .. N : \E v : IsInclusionWalk(v, s, proof, M)}
<1>1. 0 \in S
  <2> DEFINE w == [i \in 0 .. 0 |-> s]
             v == [i \in 0 .. 0 |-> IF i = 0 THEN s ELSE InclusionStep(w[i - 1], proof[i])]
  <2>1. w = v
    OBVIOUS
  <2>2. IsInclusionWalk(w, s, proof, 0)
    BY <2>1, Zenon DEF IsInclusionWalk
  <2> QED BY <2>2
<1>2. ASSUME NEW M \in 1 .. N, M - 1 \in S PROVE M \in S
  <2>1. PICK f : IsInclusionWalk(f, s, proof, M - 1)
    BY <1>2
  <2> DEFINE w == [i \in 0 .. M |-> IF i = 0 THEN s ELSE InclusionStep(f[i - 1], proof[i])]
  <2>2. \A i \in 0 .. M - 1 : w[i] = f[i]
    BY <2>1 DEF IsInclusionWalk
  <2> DEFINE v == [i \in 0 .. M |-> IF i = 0 THEN s ELSE InclusionStep(w[i - 1], proof[i])]
  <2>3. ASSUME NEW i \in 0 .. M, i # 0
        PROVE  InclusionStep(w[i - 1], proof[i]) = InclusionStep(f[i - 1], proof[i])
    <3>1. i - 1 \in 0 .. M - 1
      BY <2>3
    <3>2. w[i - 1] = f[i - 1]
      BY <2>2, <3>1
    <3> QED BY <3>2
  <2>4. w = v
    <3>1. \A i \in 0 .. M : w[i] = v[i]
      BY <2>3
    <3> QED BY <3>1
  <2> HIDE DEF w
  <2>5. IsInclusionWalk(w, s, proof, M)
    BY <2>4, Zenon DEF IsInclusionWalk
  <2> QED BY <2>5
<1>3. N \in S
  <2> HIDE DEF S
  <2>1. 0 .. N \subseteq S
    BY <1>1, <1>2, IntervalInduction
  <2> QED BY <2>1
<1> QED BY <1>3

\* All elements of a proof are hashes.
AllSized(proof) == \A i \in DOMAIN proof : HashSized(proof[i])

\* Hence the two walks end together.
LEMMA WalksTogether ==
  ASSUME NEW fn \in Nat, NEW sn \in Nat, NEW r, NEW A, NEW proof \in Seq(A)
  PROVE  Together(InclusionWalk(On(fn, sn, r, TRUE), proof),
                  ConsistencyWalk(At(fn, sn, r, r, TRUE), proof), AllSized(proof))
<1> DEFINE s == On(fn, sn, r, TRUE)
           t == At(fn, sn, r, r, TRUE)
           N == Len(proof)
<1>1. N \in Nat /\ DOMAIN proof = 1 .. N
  OBVIOUS
<1> HIDE DEF N, s, t
<1>2. PICK v : IsInclusionWalk(v, s, proof, N) /\ InclusionWalk(s, proof) = v[N]
  <2> DEFINE V == CHOOSE v : IsInclusionWalk(v, s, proof, N)
  <2>1. IsInclusionWalk(V, s, proof, N)
    BY <1>1, InclusionWalksExist
  <2>2. InclusionWalk(s, proof) = V[N]
    BY DEF InclusionWalk, IsInclusionWalk, N
  <2> QED BY <2>1, <2>2
<1>3. PICK w : IsWalk(w, t, proof, N) /\ ConsistencyWalk(t, proof) = w[N]
  BY WalkEnds DEF N
<1>4. w[0] = t /\ \A i \in 1 .. N : w[i] = ConsistencyStep(w[i - 1], proof[i])
  BY <1>1, <1>3 DEF IsWalk
<1>5. v[0] = s /\ \A i \in 1 .. N : v[i] = InclusionStep(v[i - 1], proof[i])
  BY <1>1, <1>2 DEF IsInclusionWalk
<1> DEFINE Sized(i) == \A j \in 1 .. i : HashSized(proof[j])
           S == {i \in 0 .. N : Together(v[i], w[i], Sized(i))}
<1>6. 0 \in S
  <2>1. Sized(0) /\ 0 \in 0 .. N
    BY <1>1
  <2> HIDE DEF Sized
  <2>2. Together(v[0], w[0], Sized(0))
    BY <1>4, <1>5, <2>1, Zenon DEF Together, s, t
  <2> QED BY <2>1, <2>2
<1>7. ASSUME NEW i \in 1 .. N, i - 1 \in S PROVE i \in S
  <2>1. Together(v[i - 1], w[i - 1], Sized(i - 1))
    BY <1>7
  <2>2. Sized(i) <=> Sized(i - 1) /\ HashSized(proof[i])
    <3>1. \A j \in 1 .. i : j = i \/ j \in 1 .. i - 1
      BY <1>1
    <3>2. \A j \in 1 .. i - 1 : j \in 1 .. i
      BY <1>1
    <3>3. i \in 1 .. i
      BY <1>1
    <3> QED BY <3>1, <3>2, <3>3, Zenon
  <2>3. Sized(i) = (Sized(i - 1) /\ HashSized(proof[i])) /\ Sized(i - 1) \in BOOLEAN
    BY <2>2
  <2> HIDE DEF Sized
  <2>4. Together(v[i], w[i], Sized(i - 1) /\ HashSized(proof[i]))
    <3>1. Together(InclusionStep(v[i - 1], proof[i]), ConsistencyStep(w[i - 1], proof[i]),
                   Sized(i - 1) /\ HashSized(proof[i]))
      BY <2>1, <2>3, StepTogether
    <3> QED BY <1>4, <1>5, <3>1
  <2>5. Together(v[i], w[i], Sized(i))
    BY <2>3, <2>4
  <2>6. i \in 0 .. N
    BY <1>1
  <2> QED BY <2>5, <2>6
<1>8. Together(v[N], w[N], Sized(N))
  <2> HIDE DEF S
  <2>1. 0 .. N \subseteq S
    BY <1>1, <1>6, <1>7, IntervalInduction
  <2>2. N \in S
    BY <1>1, <2>1
  <2> QED BY <2>2 DEF S
<1>9. AllSized(proof) = Sized(N)
  BY <1>1 DEF AllSized
<1> QED BY <1>2, <1>3, <1>8, <1>9 DEF s, t

-----------------------------------------------------------------------------
(* Inclusion proofs *)

\* Leaf hashes and node hashes are 32 bytes long.
LEMMA HashesAreSized ==
  /\ \A x : HashSized(LeafHash(x))
  /\ \A l, r : HashSized(NodeHash(l, r))
<1>1. Misfit.kind = "misfit"
  BY DEF Misfit
<1>2. ASSUME NEW x PROVE HashSized(LeafHash(x))
  <2>1. LeafHash(x).kind = "leaf"
    BY DEF LeafHash
  <2> QED BY <1>1, <2>1 DEF HashSized
<1>3. ASSUME NEW l, NEW r PROVE HashSized(NodeHash(l, r))
  <2>1. NodeHash(l, r).kind = "node"
    BY DEF NodeHash
  <2> QED BY <1>1, <2>1 DEF HashSized
<1> QED BY <1>2, <1>3

\* All elements of a list are hashes.
AreHashes(d) == \A i \in 1 .. Len(d) : HashSized(d[i])

\* Leaf hashes are.
LEMMA LeavesAreHashes ==
  ASSUME NEW d, AreLeaves(d)
  PROVE  AreHashes(d)
BY HashesAreSized DEF AreLeaves, AreHashes

\* So are all roots in a tree over hashes.
LEMMA NodesAreSized ==
  ASSUME NEW T, NEW d \in Seq(T), AreHashes(d)
  PROVE  \A n \in 1 .. Len(d) : \A i \in 1 .. Len(d) - n + 1 : HashSized(Roots(d)[n][i])
<1> SUFFICES ASSUME NEW n \in 1 .. Len(d), NEW i \in 1 .. Len(d) - n + 1
             PROVE  HashSized(Roots(d)[n][i])
  OBVIOUS
<1> DEFINE k == LargestPowerOfTwoBelow(n)
<1>1. Roots(d)[n][i] = IF n = 1 THEN d[i] ELSE NodeHash(Roots(d)[k][i], Roots(d)[n - k][i + k])
  BY RunRoot
<1> HIDE DEF k
<1>2. i \in 1 .. Len(d)
  OBVIOUS
<1>4. HashSized(d[i])
  BY <1>2 DEF AreHashes
<1>5. HashSized(NodeHash(Roots(d)[k][i], Roots(d)[n - k][i + k]))
  BY HashesAreSized
<1> QED BY <1>1, <1>4, <1>5

\* And hence the elements of a path, and the root.
LEMMA PathIsSized ==
  ASSUME NEW T, NEW d \in Seq(T), AreHashes(d), NEW m \in Nat, m < Len(d)
  PROVE  AllSized(Path(d, m)) /\ HashSized(Mth(d))
<1>1. ASSUME NEW z \in Nodes(d) PROVE HashSized(z)
  <2>1. PICK n \in 1 .. Len(d) : z \in {Roots(d)[n][i] : i \in 1 .. Len(d) - n + 1}
    BY DEF Nodes
  <2>2. PICK i \in 1 .. Len(d) - n + 1 : z = Roots(d)[n][i]
    BY <2>1
  <2> QED BY <2>2, NodesAreSized
<1>2. AllSized(Path(d, m))
  <2>1. Path(d, m) \in Seq(Nodes(d))
    BY PathIsList
  <2>2. \A i \in DOMAIN Path(d, m) : Path(d, m)[i] \in Nodes(d)
    BY <2>1
  <2> QED BY <1>1, <2>2 DEF AllSized
<1>3. HashSized(Mth(d))
  <2>1. Len(d) \in 1 .. Len(d) /\ 1 \in 1 .. Len(d) - Len(d) + 1
    OBVIOUS
  <2> QED BY <2>1, NodesAreSized DEF Mth
<1> QED BY <1>2, <1>3

\* The inclusion verifier accepts the path of the leaf at that place, and nothing else.
InclusionIsDecided(d, leaf, index, proof) ==
  VerifyInclusion(leaf, index, Len(d), proof, Mth(d)) <=>
    (proof = Path(d, index) /\ leaf = d[index + 1])

\* Whatever the tree, the place, the leaf hash and the proof.
LEMMA InclusionDecides ==
  ASSUME NEW T, NEW d \in Seq(T), AreHashes(d), NEW index \in Nat, index < Len(d),
         NEW leaf, HashSized(leaf), NEW A, NEW proof \in Seq(A)
  PROVE  InclusionIsDecided(d, leaf, index, proof)
<1> DEFINE end == InclusionWalk(On(index, Len(d) - 1, leaf, TRUE), proof)
           far == WalkFrom(d, index, leaf, leaf, proof)
<1>1. VerifyInclusion(leaf, index, Len(d), proof, Mth(d)) <=>
        (end.ok /\ end.sn = 0 /\ end.r = Mth(d))
  <2>1. HashSized(Mth(d))
    BY PathIsSized
  <2>2. 0 <= index
    OBVIOUS
  <2> QED BY <2>1, <2>2, Zenon DEF VerifyInclusion, On
<1>2. Together(end, far, AllSized(proof))
  <2>1. PICK sn \in Nat : sn = Len(d) - 1
    OBVIOUS
  <2> QED BY <2>1, WalksTogether DEF WalkFrom
<1> HIDE DEF end, far
<1>3. PICK a \in Nat, b \in Nat : \E x, y : \E o \in BOOLEAN :
        end = On(a, b, x, o) /\ (AllSized(proof) => far = At(a, b, y, x, o))
        /\ (o => AllSized(proof))
  BY <1>2, Zenon DEF Together
<1>4. PICK x, y : \E o \in BOOLEAN :
        end = On(a, b, x, o) /\ (AllSized(proof) => far = At(a, b, y, x, o))
        /\ (o => AllSized(proof))
  BY <1>3, Zenon
<1>5. PICK o \in BOOLEAN :
        end = On(a, b, x, o) /\ (AllSized(proof) => far = At(a, b, y, x, o))
        /\ (o => AllSized(proof))
  BY <1>4, Zenon
<1>6. end.ok = o /\ end.sn = b /\ end.r = x
  BY <1>5 DEF On
<1>7. WalkDecides(d, index, leaf, leaf, proof)
  <2>1. index \in 0 .. Len(d) - 1 /\ Len(d) \in Nat
    OBVIOUS
  <2> QED BY <2>1, WalkDecidesAlways, Zenon
<1>8. CASE AllSized(proof)
  <2>1. far.ok = o /\ far.sn = b /\ far.sr = x
    BY <1>5, <1>8 DEF At
  <2>2. ReachesRoot(d, index, leaf, leaf, proof) <=> (o /\ b = 0 /\ x = Mth(d))
    BY <2>1, Zenon DEF ReachesRoot, far
  <2> QED BY <1>1, <1>6, <1>7, <2>2, Zenon DEF InclusionIsDecided, WalkDecides
<1>9. CASE ~ AllSized(proof)
  <2>1. ~ end.ok
    BY <1>5, <1>6, <1>9
  <2>2. proof # Path(d, index)
    BY <1>9, PathIsSized
  <2> QED BY <1>1, <2>1, <2>2, Zenon DEF InclusionIsDecided
<1> QED BY <1>8, <1>9

\* The leaf hashes of a list of entry hashes.
LEMMA LeafHashesType ==
  ASSUME NEW T, NEW D \in Seq(T)
  PROVE  /\ LeafHashes(D) \in Seq({LeafHash(x) : x \in T})
         /\ Len(LeafHashes(D)) = Len(D) /\ AreLeaves(LeafHashes(D))
         /\ \A i \in 1 .. Len(D) : LeafHashes(D)[i] = LeafHash(D[i])
<1>1. LeafHashes(D) = [i \in 1 .. Len(D) |-> LeafHash(D[i])]
  BY DEF LeafHashes
<1>2. LeafHashes(D) \in Seq({LeafHash(x) : x \in T}) /\ Len(LeafHashes(D)) = Len(D)
  BY <1>1
<1>3. \A i \in 1 .. Len(D) : LeafHashes(D)[i] = LeafHash(D[i])
  BY <1>1
<1> QED BY <1>2, <1>3 DEF AreLeaves

\* A leaf hash determines its entry hash.
LEMMA LeafHashInjective ==
  ASSUME NEW x, NEW y, LeafHash(x) = LeafHash(y)
  PROVE  x = y
<1>1. LeafHash(x).of = x /\ LeafHash(y).of = y
  BY DEF LeafHash
<1> QED BY <1>1

\* merkle.go:125-155: the verifier of inclusion proofs accepts, for an entry hash at a place of
\* a log, the proof InclusionProof makes for it there, and refuses every other entry hash and
\* every other proof.
THEOREM InclusionProofsDecide ==
  ASSUME NEW T, NEW D \in Seq(T), NEW index \in 0 .. Len(D) - 1, NEW e, NEW A,
         NEW proof \in Seq(A)
  PROVE  VerifyInclusion(LeafHash(e), index, Len(D), proof, MerkleRoot(D)) <=>
           (proof = InclusionProof(D, index) /\ e = D[index + 1])
<1> DEFINE d == LeafHashes(D)
<1>1. /\ d \in Seq({LeafHash(x) : x \in T}) /\ Len(d) = Len(D) /\ AreLeaves(d)
      /\ \A i \in 1 .. Len(D) : d[i] = LeafHash(D[i])
  BY LeafHashesType
<1>2. index \in Nat /\ index < Len(D) /\ index + 1 \in 1 .. Len(D) /\ D # <<>>
  OBVIOUS
<1>3. MerkleRoot(D) = Mth(d) /\ InclusionProof(D, index) = Path(d, index)
  BY <1>2 DEF MerkleRoot, InclusionProof
<1>4. d[index + 1] = LeafHash(D[index + 1])
  BY <1>1, <1>2
<1> HIDE DEF d
<1>5. InclusionIsDecided(d, LeafHash(e), index, proof)
  <2>1. HashSized(LeafHash(e))
    BY HashesAreSized
  <2>2. AreHashes(d)
    BY <1>1, LeavesAreHashes
  <2> QED BY <1>1, <1>2, <2>1, <2>2, InclusionDecides
<1>6. LeafHash(e) = d[index + 1] <=> e = D[index + 1]
  BY <1>4, LeafHashInjective
<1> QED BY <1>1, <1>3, <1>5, <1>6, Zenon DEF InclusionIsDecided

\* An audit path is a list.
LEMMA InclusionProofIsList ==
  ASSUME NEW T, NEW D \in Seq(T), NEW index \in 0 .. Len(D) - 1
  PROVE  \E B : InclusionProof(D, index) \in Seq(B)
<1> DEFINE d == LeafHashes(D)
<1>1. d \in Seq({LeafHash(x) : x \in T}) /\ Len(d) = Len(D)
  BY LeafHashesType
<1>2. index \in Nat /\ index < Len(d)
  BY <1>1
<1> HIDE DEF d
<1>3. Path(d, index) \in Seq(Nodes(d))
  BY <1>1, <1>2, PathIsList
<1> QED BY <1>3 DEF InclusionProof, d

-----------------------------------------------------------------------------
(* The shared subtree of two trees *)

\* The nodes the walk starts with, one shared subtree and the proof, of an honest proof that
\* the tree over d extends its first m nodes.
Shared(d, m) == SharedNodes(Mth(FirstOf(d, m)), m, SubProof(d, m))

\* The first nodes of a tree.
LEMMA FirstNodes ==
  ASSUME NEW T, NEW d \in Seq(T), NEW m \in 1 .. Len(d)
  PROVE  /\ FirstOf(d, m) \in Seq(T) /\ Len(FirstOf(d, m)) = m
         /\ \A i \in 1 .. m : FirstOf(d, m)[i] = d[i]
BY DEF FirstOf

\* Half of the first nodes, when they are even in number, are the first of the half.
LEMMA FirstHalved ==
  ASSUME NEW T, NEW d \in Seq(T), NEW m \in Nat, NEW p \in Nat, m = 2 * p, p > 0, m <= Len(d)
  PROVE  FirstOf(Halved(d), p) = Halved(FirstOf(d, m))
<1> DEFINE O == FirstOf(d, m)
<1>1. O \in Seq(T) /\ Len(O) = m /\ \A i \in 1 .. m : O[i] = d[i]
  <2>1. m \in 1 .. Len(d)
    OBVIOUS
  <2> QED BY <2>1, FirstNodes
<1> HIDE DEF O
<1>2. PICK n \in Nat : n = Len(d) /\ m <= n
  OBVIOUS
<1>3. (m + 1) \div 2 = p /\ p <= (n + 1) \div 2 /\ (n + 1) \div 2 \in Nat
  BY <1>2
<1>4. PICK E : Halved(d) \in Seq(E) /\ Len(Halved(d)) = (n + 1) \div 2
  BY <1>2, HalvedType
<1>5. PICK F : Halved(O) \in Seq(F) /\ Len(Halved(O)) = p
  BY <1>1, <1>3, HalvedType
<1>6. /\ FirstOf(Halved(d), p) \in Seq(E) /\ Len(FirstOf(Halved(d), p)) = p
      /\ \A i \in 1 .. p : FirstOf(Halved(d), p)[i] = Halved(d)[i]
  <2>1. p \in 1 .. Len(Halved(d))
    BY <1>3, <1>4
  <2> QED BY <1>4, <2>1, FirstNodes
<1>7. ASSUME NEW i \in 1 .. p PROVE Halved(d)[i] = Halved(O)[i]
  <2>1. /\ ~ (2 * i > n) /\ ~ (2 * i > m) /\ i \in 1 .. (n + 1) \div 2
        /\ 2 * i - 1 \in 1 .. m /\ 2 * i \in 1 .. m
    BY <1>2, <1>3
  <2>2. Halved(d)[i] = NodeHash(d[2 * i - 1], d[2 * i])
    BY <1>2, <2>1, HalvedType
  <2>3. Halved(O)[i] = NodeHash(O[2 * i - 1], O[2 * i])
    <3>1. Halved(O)[i] = IF 2 * i > Len(O) THEN O[2 * i - 1] ELSE NodeHash(O[2 * i - 1], O[2 * i])
      <4>1. i \in 1 .. (Len(O) + 1) \div 2
        BY <1>1, <1>3
      <4> QED BY <1>1, <4>1, HalvedType
    <3> QED BY <1>1, <2>1, <3>1
  <2> QED BY <1>1, <2>1, <2>2, <2>3
<1>8. FirstOf(Halved(d), p) = Halved(O)
  BY <1>5, <1>6, <1>7
<1> QED BY <1>8 DEF O

\* What is shared with an even number of nodes is what the level above shares.
LEMMA SharedEven ==
  ASSUME NEW T, NEW d \in Seq(T), NEW m \in Nat, NEW p \in Nat, m = 2 * p, p > 0, m < Len(d)
  PROVE  /\ Shared(d, m) = Shared(Halved(d), p)
         /\ SubProof(d, m) = SubProof(Halved(d), p)
         /\ Mth(FirstOf(d, m)) = Mth(FirstOf(Halved(d), p))
         /\ IsPowerOfTwo(m) <=> IsPowerOfTwo(p)
<1>1. SubProof(d, m) = SubProof(Halved(d), p)
  <2>1. m > 0 /\ m <= Len(d)
    OBVIOUS
  <2> QED BY <2>1, HalvedSubProof
<1>2. Mth(FirstOf(d, m)) = Mth(FirstOf(Halved(d), p))
  <2>1. m \in 1 .. Len(d) /\ m <= Len(d)
    OBVIOUS
  <2>2. FirstOf(d, m) \in Seq(T) /\ FirstOf(d, m) # <<>>
    <3>1. FirstOf(d, m) \in Seq(T) /\ Len(FirstOf(d, m)) = m
      BY <2>1, FirstNodes
    <3> QED BY <2>1, <3>1
  <2>3. FirstOf(Halved(d), p) = Halved(FirstOf(d, m))
    BY <2>1, FirstHalved
  <2>4. Mth(Halved(FirstOf(d, m))) = Mth(FirstOf(d, m))
    BY <2>2, HalvedRoot
  <2> QED BY <2>3, <2>4
<1>3. IsPowerOfTwo(m) <=> IsPowerOfTwo(p)
  BY PowersHalve
<1> QED BY <1>1, <1>2, <1>3, Zenon DEF Shared, SharedNodes

\* What is shared with an odd number of nodes is the last of them, and its path.
LEMMA SharedOdd ==
  ASSUME NEW T, NEW d \in Seq(T), NEW m \in Nat, NEW p \in Nat, m = 2 * p + 1, m < Len(d)
  PROVE  /\ Shared(d, m) = <<d[m]>> \o Path(d, m - 1)
         /\ IF m = 1 THEN IsPowerOfTwo(m) /\ SubProof(d, m) = Path(d, m - 1)
            ELSE ~ IsPowerOfTwo(m) /\ SubProof(d, m) = Shared(d, m)
<1>1. SubProof(d, m) = BeforePath(d, m) \o Path(d, m - 1)
  BY OddSubProof
<1>2. CASE m = 1
  <2>1. BeforePath(d, m) = <<>>
    BY <1>2 DEF BeforePath
  <2>2. Path(d, m - 1) \in Seq(Nodes(d))
    <3>1. m - 1 \in Nat /\ m - 1 < Len(d)
      OBVIOUS
    <3> QED BY <3>1, PathIsList
  <2>3. SubProof(d, m) = Path(d, m - 1)
    BY <1>1, <2>1, <2>2
  <2>4. Mth(FirstOf(d, m)) = d[m]
    <3> DEFINE O == FirstOf(d, m)
    <3>1. O \in Seq(T) /\ Len(O) = 1 /\ O[1] = d[1]
      <4>1. m \in 1 .. Len(d) /\ 1 \in 1 .. m
        BY <1>2
      <4> QED BY <1>2, <4>1, FirstNodes
    <3> HIDE DEF O
    <3>2. 1 \in 1 .. Len(O) /\ 1 \in 1 .. Len(O) - 1 + 1
      BY <3>1
    <3>3. Roots(O)[1][1] = O[1]
      BY <3>1, <3>2, RunRoot
    <3> QED BY <1>2, <3>1, <3>3 DEF Mth, O
  <2>5. IsPowerOfTwo(m)
    BY <1>2, OneIsPower
  <2> QED BY <1>2, <2>3, <2>4, <2>5, Zenon DEF Shared, SharedNodes
<1>3. CASE m # 1
  <2>1. BeforePath(d, m) = <<d[m]>>
    BY <1>3 DEF BeforePath
  <2>2. ~ IsPowerOfTwo(m)
    <3>1. p > 0
      BY <1>3
    <3> QED BY <3>1, PowersHalve
  <2> QED BY <1>1, <1>3, <2>1, <2>2, Zenon DEF Shared, SharedNodes
<1> QED BY <1>2, <1>3

\* Where the walk starts after the shifts.
SkipsTo(fn, sn, c, bit, a, b) == Skip(At(fn, sn, c, c, TRUE), bit) = At(a, b, c, c, TRUE)

\* Where they lead.
LEMMA SkipOfBoth ==
  ASSUME NEW fn, NEW sn, NEW c, NEW bit, NEW a, NEW b,
         Shifted[fn][sn][bit] = [fn |-> a, sn |-> b]
  PROVE  SkipsTo(fn, sn, c, bit, a, b)
<1>1. \A ok : Skip(At(fn, sn, c, c, ok), bit) = At(a, b, c, c, ok)
  BY SkipAt
<1> QED BY <1>1, Zenon DEF SkipsTo

\* The walk over both trees, from an honest or any other start.
BothReach(d, m, nodes) ==
  LET e == WalkOfBoth(m, Len(d), nodes) IN e.ok /\ e.sn = 0 /\ e.sr = Mth(d)

\* It gets to the root of the tree with the nodes that are shared and nothing else, and then
\* it gets to the root of the old tree as well.
BothDecide(d, m, nodes) ==
  /\ BothReach(d, m, nodes) <=> nodes = Shared(d, m)
  /\ nodes = Shared(d, m) => WalkOfBoth(m, Len(d), nodes).fr = Mth(FirstOf(d, m))

\* From an odd number of nodes the walk starts at the last of them.
LEMMA BothOdd ==
  ASSUME NEW T, NEW d \in Seq(T), NEW m \in Nat, NEW p \in Nat, m = 2 * p + 1, m < Len(d),
         NEW A, NEW nodes \in Seq(A), nodes # <<>>
  PROVE  BothDecide(d, m, nodes)
<1> DEFINE c == nodes[1]
           P == Path(d, m - 1)
<1>1. PICK k \in Nat : k = m - 1 /\ k = 2 * p /\ k < Len(d) /\ k % 2 # 1 /\ k + 1 = m
  OBVIOUS
<1>2. PICK sn \in Nat : sn = Len(d) - 1
  OBVIOUS
<1>3. WalkOfBoth(m, Len(d), nodes) = WalkFrom(d, k, c, c, Tail(nodes))
  <2>1. 1 \in 0 .. 1
    OBVIOUS
  <2>2. Shifted[k][sn][1] = [fn |-> k, sn |-> sn]
    BY <1>1, <2>1, ShiftedDef
  <2>3. Skip(At(k, sn, c, c, TRUE), 1) = At(k, sn, c, c, TRUE)
    <3> HIDE DEF c
    <3>1. SkipsTo(k, sn, c, 1, k, sn)
      BY <2>2, SkipOfBoth
    <3> QED BY <3>1 DEF SkipsTo
  <2>4. WalkOfBoth(m, Len(d), nodes) =
          ConsistencyWalk(Skip(At(m - 1, Len(d) - 1, c, c, TRUE), 1), Tail(nodes))
    BY DEF WalkOfBoth, At
  <2> QED BY <1>1, <1>2, <2>3, <2>4 DEF WalkFrom
<1>4. Shared(d, m) = <<d[m]>> \o P
  BY SharedOdd
<1>5. P \in Seq(Nodes(d)) /\ P = Path(d, k)
  BY <1>1, PathIsList
<1>6. Tail(nodes) \in Seq(A)
  OBVIOUS
<1>7. Behind(d[m], P, nodes)
  <2> HIDE DEF P
  <2> QED BY <1>5, ConsIs
<1> HIDE DEF P
<1>8. WalkDecides(d, k, c, c, Tail(nodes))
  <2>1. k \in 0 .. Len(d) - 1 /\ Len(d) \in Nat
    BY <1>1
  <2> HIDE DEF c
  <2> QED BY <1>6, <2>1, WalkDecidesAlways, Zenon
<1>9. BothReach(d, m, nodes) <=> ReachesRoot(d, k, c, c, Tail(nodes))
  <2> HIDE DEF c
  <2> QED BY <1>3, Zenon DEF BothReach, ReachesRoot
<1>10. BothReach(d, m, nodes) <=> nodes = Shared(d, m)
  <2>1. BothReach(d, m, nodes) <=> Tail(nodes) = P /\ c = d[m]
    <3> HIDE DEF c
    <3> QED BY <1>1, <1>5, <1>8, <1>9 DEF WalkDecides
  <2> QED BY <1>4, <1>7, <2>1, Zenon DEF Behind
<1>11. ASSUME nodes = Shared(d, m)
       PROVE  WalkOfBoth(m, Len(d), nodes).fr = Mth(FirstOf(d, m))
  <2> DEFINE O == FirstOf(d, m)
  <2>1. c = d[m] /\ Tail(nodes) = P
    BY <1>4, <1>7, <1>11, Zenon DEF Behind
  <2>2. m \in 1 .. Len(d) /\ m \in 1 .. m
    OBVIOUS
  <2>3. O \in Seq(T) /\ Len(O) = m /\ \A i \in 1 .. m : O[i] = d[i]
    BY <2>2, FirstNodes
  <2> HIDE DEF O, c
  <2>4. EndsAt(O, d, k)
    BY <1>1, <2>3 DEF EndsAt
  <2>5. OldRootFollows(d, k, O, c)
    <3>1. k \in 0 .. Len(d) - 1 /\ Len(d) \in Nat
      BY <1>1
    <3> QED BY <2>4, <3>1, OldRootAlways, Zenon
  <2>6. WalkFrom(d, k, O[k + 1], c, Path(d, k)).fr = Mth(O)
    BY <2>5 DEF OldRootFollows
  <2>7. O[k + 1] = c
    BY <1>1, <2>1, <2>2, <2>3
  <2>8. WalkFrom(d, k, c, c, Tail(nodes)).fr = Mth(O)
    BY <1>5, <2>1, <2>6, <2>7
  <2> QED BY <1>3, <2>8 DEF O, c
<1> QED BY <1>10, <1>11 DEF BothDecide

\* From an even number it is the walk from half as many in the level above.
LEMMA BothEven ==
  ASSUME NEW T, NEW d \in Seq(T), NEW m \in Nat, NEW p \in Nat, m = 2 * p, p > 0, m < Len(d),
         NEW nodes, BothDecide(Halved(d), p, nodes)
  PROVE  BothDecide(d, m, nodes)
<1> DEFINE c == nodes[1]
           H == Halved(d)
<1>1. PICK n \in Nat : n = Len(d) /\ n > 1
  OBVIOUS
<1>2. PICK k \in Nat : k = m - 1
  OBVIOUS
<1>11. PICK sn \in Nat : sn = n - 1
  BY <1>1
<1>12. PICK f \in Nat : f = p - 1
  OBVIOUS
<1>13. PICK g \in Nat : g = sn \div 2
  OBVIOUS
<1>3. k # 0 /\ k % 2 = 1 /\ k \div 2 = f /\ g = (n + 1) \div 2 - 1 /\ 1 \in 0 .. 1
  BY <1>1, <1>2, <1>11, <1>12, <1>13
<1>4. Len(H) = (n + 1) \div 2
  BY <1>1, HalvedType
<1>5. PICK a \in Nat, b \in Nat : Shifted[f][g][1] = [fn |-> a, sn |-> b]
  <2>1. \A x, y \in Nat : \E a, b \in Nat : Shifted[x][y][1] = [fn |-> a, sn |-> b]
    <3>1. 1 \in 0 .. 1
      OBVIOUS
    <3> QED BY <3>1, ShiftedType
  <2> QED BY <2>1
<1>6. Shifted[k][sn][1] = [fn |-> a, sn |-> b]
  <2>1. Shifted[k][sn][1] = IF k # 0 /\ k % 2 = 1 THEN Shifted[k \div 2][sn \div 2][1]
                            ELSE [fn |-> k, sn |-> sn]
    <3>1. 1 \in 0 .. 1
      OBVIOUS
    <3> QED BY <3>1, ShiftedDef
  <2> QED BY <1>3, <1>5, <1>13, <2>1
<1>7. WalkOfBoth(m, Len(d), nodes) = WalkOfBoth(p, Len(H), nodes)
  <2>1. WalkOfBoth(m, Len(d), nodes) =
          ConsistencyWalk(Skip(At(k, sn, c, c, TRUE), 1), Tail(nodes))
    BY <1>1, <1>2, <1>11 DEF WalkOfBoth, At
  <2>2. WalkOfBoth(p, Len(H), nodes) =
          ConsistencyWalk(Skip(At(f, g, c, c, TRUE), 1), Tail(nodes))
    BY <1>3, <1>4, <1>12 DEF WalkOfBoth, At
  <2>3. Skip(At(k, sn, c, c, TRUE), 1) = At(a, b, c, c, TRUE)
    <3> HIDE DEF c
    <3>1. SkipsTo(k, sn, c, 1, a, b)
      BY <1>6, SkipOfBoth
    <3> QED BY <3>1 DEF SkipsTo
  <2>4. Skip(At(f, g, c, c, TRUE), 1) = At(a, b, c, c, TRUE)
    <3> HIDE DEF c
    <3>1. SkipsTo(f, g, c, 1, a, b)
      BY <1>5, SkipOfBoth
    <3> QED BY <3>1 DEF SkipsTo
  <2> QED BY <2>1, <2>2, <2>3, <2>4
<1>8. Shared(d, m) = Shared(H, p) /\ Mth(FirstOf(d, m)) = Mth(FirstOf(H, p))
  BY SharedEven
<1>9. Mth(H) = Mth(d)
  <2>1. d # <<>>
    BY <1>1
  <2> QED BY <2>1, HalvedRoot
<1>10. BothDecide(H, p, nodes)
  OBVIOUS
<1> HIDE DEF H
<1> QED BY <1>7, <1>8, <1>9, <1>10, Zenon DEF BothDecide, BothReach

-----------------------------------------------------------------------------
(* The walk decides both roots *)

\* A number is even or odd, and half of it is smaller.
LEMMA EvenOrOdd ==
  ASSUME NEW m \in Nat, m > 0
  PROVE  \E p \in Nat : m = 2 * p + 1 \/ (m = 2 * p /\ p > 0 /\ p < m)
<1>1. m \div 2 \in Nat /\ (m = 2 * (m \div 2) + 1 \/ m = 2 * (m \div 2))
  OBVIOUS
<1>2. PICK p \in Nat : m = 2 * p + 1 \/ m = 2 * p
  BY <1>1
<1> QED BY <1>2

\* Of the even number of nodes and the level above.
LEMMA AboveIsLarger ==
  ASSUME NEW T, NEW d \in Seq(T), NEW m \in Nat, NEW p \in Nat, m = 2 * p, m < Len(d)
  PROVE  (\E E : Halved(d) \in Seq(E)) /\ p < Len(Halved(d))
<1>1. PICK n \in Nat : n = Len(d) /\ m < n
  OBVIOUS
<1>2. Len(Halved(d)) = (n + 1) \div 2 /\ \E E : Halved(d) \in Seq(E)
  BY <1>1, HalvedType
<1>3. p < (n + 1) \div 2
  BY <1>1
<1> QED BY <1>2, <1>3

\* The walk over both trees always decides.
LEMMA BothDecideAlways ==
  ASSUME NEW A, NEW nodes \in Seq(A), nodes # <<>>
  PROVE  \A m \in Nat \ {0} : \A T : \A d \in Seq(T) : m < Len(d) => BothDecide(d, m, nodes)
<1> DEFINE Good(m) == \A T : \A d \in Seq(T) : m < Len(d) => BothDecide(d, m, nodes)
           Bad == {m \in Nat \ {0} : ~ Good(m)}
<1>1. SUFFICES ASSUME Bad # {} PROVE FALSE
  OBVIOUS
<1>2. PICK m \in Bad : \A x \in Bad : m <= x
  <2>1. Bad \subseteq Nat
    OBVIOUS
  <2> HIDE DEF Bad
  <2> QED BY <1>1, <2>1, Least
<1>3. m \in Nat /\ m > 0 /\ ~ Good(m)
  OBVIOUS
<1>4. PICK p \in Nat : m = 2 * p + 1 \/ (m = 2 * p /\ p > 0 /\ p < m)
  BY <1>3, EvenOrOdd
<1>5. ASSUME NEW T, NEW d \in Seq(T), m < Len(d) PROVE BothDecide(d, m, nodes)
  <2>1. CASE m = 2 * p + 1
    BY <1>3, <1>5, <2>1, BothOdd
  <2>2. CASE m = 2 * p /\ p > 0 /\ p < m
    <3>1. PICK E : Halved(d) \in Seq(E)
      BY HalvedType
    <3>2. p < Len(Halved(d))
      BY <1>3, <1>5, <2>2, AboveIsLarger
    <3>3. Good(p)
      <4>1. p \notin Bad
        <5>1. ~ (m <= p)
          BY <1>3, <2>2
        <5> HIDE DEF Bad
        <5> QED BY <1>2, <5>1
      <4> QED BY <2>2, <4>1
    <3>4. BothDecide(Halved(d), p, nodes)
      BY <3>1, <3>2, <3>3, Zenon
    <3> QED BY <1>3, <1>5, <2>2, <3>4, BothEven
  <2> QED BY <1>4, <2>1, <2>2
<1> QED BY <1>3, <1>5, Zenon

\* A generated consistency proof is a list of hashes, and not an empty one where the reader
\* cannot know the first subtree.
IsProof(d, m) ==
  /\ \E B : SubProof(d, m) \in Seq(B)
  /\ AllSized(SubProof(d, m))
  /\ IsPowerOfTwo(m) \/ SubProof(d, m) # <<>>

\* From an odd number of nodes.
LEMMA ProofOdd ==
  ASSUME NEW T, NEW d \in Seq(T), AreHashes(d), NEW m \in Nat, NEW p \in Nat,
         m = 2 * p + 1, m < Len(d)
  PROVE  IsProof(d, m)
<1> DEFINE P == Path(d, m - 1)
<1>1. P \in Seq(Nodes(d)) /\ AllSized(P)
  <2>1. m - 1 \in Nat /\ m - 1 < Len(d)
    OBVIOUS
  <2> QED BY <2>1, PathIsList, PathIsSized
<1>2. HashSized(d[m])
  <2>1. m \in 1 .. Len(d)
    OBVIOUS
  <2> QED BY <2>1 DEF AreHashes
<1>3. /\ Shared(d, m) = <<d[m]>> \o P
      /\ IF m = 1 THEN IsPowerOfTwo(m) /\ SubProof(d, m) = P
         ELSE ~ IsPowerOfTwo(m) /\ SubProof(d, m) = Shared(d, m)
  BY SharedOdd
<1> HIDE DEF P
<1>4. CASE m = 1
  BY <1>1, <1>3, <1>4 DEF IsProof
<1>5. CASE m # 1
  <2> DEFINE q == <<d[m]>> \o P
             B == Nodes(d) \cup {d[m]}
  <2>1. SubProof(d, m) = q
    BY <1>3, <1>5
  <2>2. q \in Seq(B) /\ q # <<>>
    <3>1. <<d[m]>> \in Seq(B) /\ P \in Seq(B)
      BY <1>1
    <3>2. q \in Seq(B)
      <4> HIDE DEF B
      <4> QED BY <3>1
    <3> QED BY <1>1, <3>2, ConsIsNotEmpty
  <2>3. AllSized(q)
    <3>1. ASSUME NEW i \in 1 .. Len(P) + 1 PROVE HashSized(q[i])
      <4>1. Len(P) \in Nat /\ DOMAIN P = 1 .. Len(P)
        BY <1>1
      <4>2. CASE i = 1
        <5>1. q[1] = d[m]
          BY <1>1
        <5> QED BY <1>2, <4>2, <5>1
      <4>3. CASE i # 1
        <5>1. PICK j \in 1 .. Len(P) : i = j + 1
          BY <4>1, <4>3
        <5>2. q[j + 1] = P[j]
          BY <1>1
        <5> QED BY <1>1, <4>1, <5>1, <5>2 DEF AllSized
      <4> QED BY <4>2, <4>3
    <3>2. DOMAIN q = 1 .. Len(P) + 1
      BY <1>1
    <3> HIDE DEF q
    <3> QED BY <3>1, <3>2 DEF AllSized
  <2> HIDE DEF q, B
  <2> QED BY <2>1, <2>2, <2>3 DEF IsProof
<1> QED BY <1>4, <1>5

\* The level above is a list of hashes, too.
LEMMA HalvedAreHashes ==
  ASSUME NEW T, NEW d \in Seq(T), AreHashes(d)
  PROVE  AreHashes(Halved(d))
<1>1. PICK n \in Nat : n = Len(d)
  OBVIOUS
<1>2. Len(Halved(d)) = (n + 1) \div 2
  BY <1>1, HalvedType
<1>3. ASSUME NEW i \in 1 .. (n + 1) \div 2 PROVE HashSized(Halved(d)[i])
  <2>1. Halved(d)[i] = IF 2 * i > n THEN d[2 * i - 1] ELSE NodeHash(d[2 * i - 1], d[2 * i])
    BY <1>1, HalvedType
  <2>2. 2 * i - 1 \in 1 .. n
    BY <1>1
  <2>3. HashSized(d[2 * i - 1])
    BY <1>1, <2>2 DEF AreHashes
  <2>4. HashSized(NodeHash(d[2 * i - 1], d[2 * i]))
    BY HashesAreSized
  <2> QED BY <2>1, <2>3, <2>4
<1> QED BY <1>2, <1>3 DEF AreHashes

\* From any number.
LEMMA ProofAlways ==
  \A m \in Nat \ {0} : \A T : \A d \in Seq(T) : AreHashes(d) /\ m < Len(d) => IsProof(d, m)
<1> DEFINE Good(m) == \A T : \A d \in Seq(T) : AreHashes(d) /\ m < Len(d) => IsProof(d, m)
           Bad == {m \in Nat \ {0} : ~ Good(m)}
<1>1. SUFFICES ASSUME Bad # {} PROVE FALSE
  OBVIOUS
<1>2. PICK m \in Bad : \A x \in Bad : m <= x
  <2>1. Bad \subseteq Nat
    OBVIOUS
  <2> HIDE DEF Bad
  <2> QED BY <1>1, <2>1, Least
<1>3. m \in Nat /\ m > 0 /\ ~ Good(m)
  OBVIOUS
<1>4. PICK p \in Nat : m = 2 * p + 1 \/ (m = 2 * p /\ p > 0 /\ p < m)
  BY <1>3, EvenOrOdd
<1>5. ASSUME NEW T, NEW d \in Seq(T), AreHashes(d), m < Len(d) PROVE IsProof(d, m)
  <2>1. CASE m = 2 * p + 1
    BY <1>3, <1>5, <2>1, ProofOdd
  <2>2. CASE m = 2 * p /\ p > 0 /\ p < m
    <3>1. PICK E : Halved(d) \in Seq(E)
      BY HalvedType
    <3>2. p < Len(Halved(d)) /\ AreHashes(Halved(d))
      BY <1>3, <1>5, <2>2, AboveIsLarger, HalvedAreHashes
    <3>3. Good(p)
      <4>1. p \notin Bad
        <5>1. ~ (m <= p)
          BY <1>3, <2>2
        <5> HIDE DEF Bad
        <5> QED BY <1>2, <5>1
      <4> QED BY <2>2, <4>1
    <3>4. IsProof(Halved(d), p)
      BY <3>1, <3>2, <3>3, Zenon
    <3>5. SubProof(d, m) = SubProof(Halved(d), p) /\ (IsPowerOfTwo(m) <=> IsPowerOfTwo(p))
      BY <1>3, <1>5, <2>2, SharedEven
    <3> QED BY <3>4, <3>5 DEF IsProof
  <2> QED BY <1>4, <2>1, <2>2
<1> QED BY <1>3, <1>5, Zenon

\* The verifier of consistency proofs accepts the root of the first m nodes with the proof
\* generated for it, and nothing else.
ConsistencyIsDecided(d, m, oldRoot, proof) ==
  VerifyConsistency(oldRoot, m, Mth(d), Len(d), proof) <=>
    (proof = SubProof(d, m) /\ oldRoot = Mth(FirstOf(d, m)))

\* Whatever the tree, the number of nodes, the old root and the proof.
LEMMA ConsistencyDecides ==
  ASSUME NEW T, NEW d \in Seq(T), AreHashes(d), NEW m \in Nat, m > 0, m < Len(d),
         NEW oldRoot, HashSized(oldRoot), NEW A, NEW proof \in Seq(A)
  PROVE  ConsistencyIsDecided(d, m, oldRoot, proof)
<1> DEFINE nodes == SharedNodes(oldRoot, m, proof)
           end == WalkOfBoth(m, Len(d), nodes)
           O == FirstOf(d, m)
<1>1. IsProof(d, m)
  BY ProofAlways
<1>2. VerifyConsistency(oldRoot, m, Mth(d), Len(d), proof) <=>
        /\ AllSized(proof) /\ nodes # <<>>
        /\ end.ok /\ end.sn = 0 /\ end.fr = oldRoot /\ end.sr = Mth(d)
  <2>1. HashSized(Mth(d))
    BY PathIsSized
  <2>2. 1 <= m /\ m <= Len(d) /\ m # Len(d)
    OBVIOUS
  <2> QED BY <2>1, <2>2, Zenon DEF VerifyConsistency, AllSized
<1>3. ASSUME nodes # <<>> PROVE BothDecide(d, m, nodes)
  <2>1. \E B : nodes \in Seq(B)
    <3>1. CASE IsPowerOfTwo(m)
      <4>1. nodes = <<oldRoot>> \o proof
        BY <3>1 DEF SharedNodes
      <4> DEFINE B == A \cup {oldRoot}
      <4>2. <<oldRoot>> \in Seq(B) /\ proof \in Seq(B)
        OBVIOUS
      <4>3. nodes \in Seq(B)
        <5> HIDE DEF B, nodes
        <5> QED BY <4>1, <4>2
      <4> QED BY <4>3
    <3>2. CASE ~ IsPowerOfTwo(m)
      <4>1. nodes = proof
        BY <3>2 DEF SharedNodes
      <4> QED BY <4>1
    <3> QED BY <3>1, <3>2
  <2>2. m \in Nat \ {0}
    OBVIOUS
  <2> HIDE DEF nodes
  <2> QED BY <1>3, <2>1, <2>2, BothDecideAlways, Zenon
<1>4. /\ nodes = Shared(d, m) /\ oldRoot = Mth(O) <=> proof = SubProof(d, m) /\ oldRoot = Mth(O)
      /\ nodes = Shared(d, m) => proof = SubProof(d, m)
      /\ nodes = Shared(d, m) => nodes # <<>>
  <2> DEFINE q == SubProof(d, m)
  <2>1. PICK B : q \in Seq(B) /\ (IsPowerOfTwo(m) \/ q # <<>>)
    BY <1>1 DEF IsProof
  <2> HIDE DEF q, O
  <2>2. CASE IsPowerOfTwo(m)
    <3>1. nodes = <<oldRoot>> \o proof
      BY <2>2 DEF SharedNodes
    <3>2. Shared(d, m) = <<Mth(O)>> \o q
      BY <2>2 DEF Shared, SharedNodes, q, O
    <3>3. Tail(nodes) = proof /\ nodes # <<>>
      <4>1. <<oldRoot>> \o proof # <<>> /\ Tail(<<oldRoot>> \o proof) = proof
        OBVIOUS
      <4> HIDE DEF nodes
      <4> QED BY <3>1, <4>1
    <3>4. Tail(<<Mth(O)>> \o q) = q
      BY <2>1
    <3>5. nodes = Shared(d, m) => proof = q
      <4> HIDE DEF nodes
      <4> QED BY <3>2, <3>3, <3>4
    <3>6. proof = q /\ oldRoot = Mth(O) => nodes = Shared(d, m)
      BY <3>1, <3>2
    <3> HIDE DEF nodes
    <3> QED BY <3>3, <3>5, <3>6 DEF q
  <2>3. CASE ~ IsPowerOfTwo(m)
    <3>1. nodes = proof
      BY <2>3 DEF SharedNodes
    <3>2. Shared(d, m) = q
      BY <2>3 DEF Shared, SharedNodes, q
    <3> HIDE DEF nodes
    <3> QED BY <2>1, <2>3, <3>1, <3>2 DEF q
  <2> QED BY <2>2, <2>3
<1>5. AllSized(SubProof(d, m))
  BY <1>1 DEF IsProof
<1> HIDE DEF nodes, O
<1>6. ASSUME VerifyConsistency(oldRoot, m, Mth(d), Len(d), proof)
      PROVE  proof = SubProof(d, m) /\ oldRoot = Mth(O)
  <2>1. nodes # <<>> /\ end.ok /\ end.sn = 0 /\ end.fr = oldRoot /\ end.sr = Mth(d)
    BY <1>2, <1>6
  <2>2. BothDecide(d, m, nodes)
    BY <1>3, <2>1
  <2>3. nodes = Shared(d, m) /\ end.fr = Mth(O)
    BY <2>1, <2>2, Zenon DEF BothDecide, BothReach, O
  <2> QED BY <1>4, <2>1, <2>3
<1>7. ASSUME proof = SubProof(d, m), oldRoot = Mth(O)
      PROVE  VerifyConsistency(oldRoot, m, Mth(d), Len(d), proof)
  <2>1. nodes = Shared(d, m) /\ nodes # <<>>
    BY <1>4, <1>7
  <2>2. BothDecide(d, m, nodes)
    BY <1>3, <2>1
  <2>3. end.ok /\ end.sn = 0 /\ end.sr = Mth(d) /\ end.fr = Mth(O)
    BY <2>1, <2>2, Zenon DEF BothDecide, BothReach, O
  <2> QED BY <1>2, <1>5, <1>7, <2>1, <2>3
<1> QED BY <1>6, <1>7, Zenon DEF ConsistencyIsDecided, O

-----------------------------------------------------------------------------
(* Consistency proofs *)

\* The leaf hashes of the first entries are the first leaf hashes.
LEMMA FirstLeafHashes ==
  ASSUME NEW T, NEW D \in Seq(T), NEW m \in 1 .. Len(D)
  PROVE  /\ LeafHashes(FirstOf(D, m)) = FirstOf(LeafHashes(D), m)
         /\ MerkleRoot(FirstOf(D, m)) = Mth(FirstOf(LeafHashes(D), m))
<1> DEFINE d == LeafHashes(D)
           L == {LeafHash(x) : x \in T}
           F == FirstOf(D, m)
<1>1. d \in Seq(L) /\ Len(d) = Len(D) /\ \A i \in 1 .. Len(D) : d[i] = LeafHash(D[i])
  BY LeafHashesType
<1>2. F \in Seq(T) /\ Len(F) = m /\ \A i \in 1 .. m : F[i] = D[i]
  BY FirstNodes
<1> HIDE DEF d, F, L
<1>3. LeafHashes(F) \in Seq(L) /\ Len(LeafHashes(F)) = m
      /\ \A i \in 1 .. m : LeafHashes(F)[i] = LeafHash(F[i])
  BY <1>2, LeafHashesType DEF L
<1>4. FirstOf(d, m) \in Seq(L) /\ Len(FirstOf(d, m)) = m
      /\ \A i \in 1 .. m : FirstOf(d, m)[i] = d[i]
  BY <1>1, FirstNodes
<1>5. ASSUME NEW i \in 1 .. m PROVE LeafHashes(F)[i] = FirstOf(d, m)[i]
  <2>1. i \in 1 .. Len(D)
    OBVIOUS
  <2> QED BY <1>1, <1>2, <1>3, <1>4, <2>1
<1>6. LeafHashes(F) = FirstOf(d, m)
  BY <1>3, <1>4, <1>5
<1>7. F # <<>>
  BY <1>2
<1>8. MerkleRoot(F) = Mth(LeafHashes(F))
  BY <1>7 DEF MerkleRoot
<1> QED BY <1>6, <1>8 DEF F, d

\* The root of a log that is not empty is a hash.
LEMMA MerkleRootIsSized ==
  ASSUME NEW T, NEW D \in Seq(T), D # <<>>
  PROVE  HashSized(MerkleRoot(D))
<1> DEFINE d == LeafHashes(D)
<1>1. d \in Seq({LeafHash(x) : x \in T}) /\ Len(d) = Len(D) /\ AreLeaves(d)
  BY LeafHashesType
<1>2. 0 \in Nat /\ 0 < Len(D)
  OBVIOUS
<1>3. MerkleRoot(D) = Mth(d)
  BY DEF MerkleRoot
<1> HIDE DEF d
<1>4. AreHashes(d)
  BY <1>1, LeavesAreHashes
<1> QED BY <1>1, <1>2, <1>3, <1>4, PathIsSized

\* The verifier of consistency proofs, for the trees over the first m and n entries of a log.
ProofsDecide(D, m, n, oldRoot, proof) ==
  VerifyConsistency(oldRoot, m, MerkleRoot(FirstOf(D, n)), n, proof) <=>
    (proof = ConsistencyProof(D, m, n) /\ oldRoot = MerkleRoot(FirstOf(D, m)))

\* merkle.go:190-238: the verifier of consistency proofs accepts, as an older tree of a log,
\* the one over its first m entries with the proof ConsistencyProof makes for it, and refuses
\* every other old root and every other proof.
THEOREM ConsistencyProofsDecide ==
  ASSUME NEW T, NEW D \in Seq(T), NEW n \in 1 .. Len(D), NEW m \in 1 .. n, NEW oldRoot,
         NEW A, NEW proof \in Seq(A)
  PROVE  ProofsDecide(D, m, n, oldRoot, proof)
<1> DEFINE F == FirstOf(D, n)
           d == LeafHashes(F)
           G == FirstOf(D, m)
<1>1. F \in Seq(T) /\ Len(F) = n /\ (\A i \in 1 .. n : F[i] = D[i])
  BY FirstNodes
<1>2. m \in 1 .. Len(D) /\ G \in Seq(T) /\ Len(G) = m /\ (\A i \in 1 .. m : G[i] = D[i])
  <2>1. m \in 1 .. Len(D)
    OBVIOUS
  <2> QED BY <2>1, FirstNodes
<1> HIDE DEF F, G
<1>3. F # <<>> /\ G # <<>> /\ m \in 1 .. Len(F)
  BY <1>1, <1>2
<1>4. FirstOf(F, m) = G
  <2>1. FirstOf(F, m) \in Seq(T) /\ Len(FirstOf(F, m)) = m
        /\ (\A i \in 1 .. m : FirstOf(F, m)[i] = F[i])
    BY <1>1, <1>3, FirstNodes
  <2>2. ASSUME NEW i \in 1 .. m PROVE FirstOf(F, m)[i] = G[i]
    <3>1. i \in 1 .. n
      OBVIOUS
    <3> QED BY <1>1, <1>2, <2>1, <3>1
  <2> QED BY <1>2, <2>1, <2>2
<1>5. d \in Seq({LeafHash(x) : x \in T}) /\ Len(d) = n /\ AreLeaves(d)
  BY <1>1, LeafHashesType
<1>6. MerkleRoot(F) = Mth(d) /\ MerkleRoot(G) = Mth(FirstOf(d, m))
  <2>1. MerkleRoot(F) = Mth(d)
    BY <1>3 DEF MerkleRoot
  <2>2. MerkleRoot(FirstOf(F, m)) = Mth(FirstOf(d, m))
    BY <1>1, <1>3, FirstLeafHashes
  <2> QED BY <1>4, <2>1, <2>2
<1>7. HashSized(MerkleRoot(F)) /\ HashSized(MerkleRoot(G))
  BY <1>1, <1>2, <1>3, MerkleRootIsSized
<1> HIDE DEF d
<1>8. CASE m = n
  <2>1. F = G
    BY <1>8 DEF F, G
  <2>2. ConsistencyProof(D, m, n) = <<>>
    BY <1>8 DEF ConsistencyProof
  <2>3. 1 <= m /\ m <= n
    OBVIOUS
  <2>4. VerifyConsistency(oldRoot, m, MerkleRoot(F), n, proof) <=>
          (HashSized(oldRoot) /\ proof = <<>> /\ oldRoot = MerkleRoot(F))
    BY <1>7, <1>8, <2>3, Zenon DEF VerifyConsistency
  <2> QED BY <1>7, <2>1, <2>2, <2>4, Zenon DEF ProofsDecide, F, G
<1>9. CASE m # n
  <2>1. ConsistencyProof(D, m, n) = SubProof(d, m)
    BY <1>9 DEF ConsistencyProof, d, F
  <2>2. CASE HashSized(oldRoot)
    <3>1. m \in Nat /\ m > 0 /\ m < Len(d)
      BY <1>5, <1>9
    <3>2. AreHashes(d)
      BY <1>5, LeavesAreHashes
    <3>3. ConsistencyIsDecided(d, m, oldRoot, proof)
      BY <1>5, <2>2, <3>1, <3>2, ConsistencyDecides
    <3> QED BY <1>5, <1>6, <2>1, <3>3, Zenon DEF ConsistencyIsDecided, ProofsDecide, F, G
  <2>3. CASE ~ HashSized(oldRoot)
    <3>1. oldRoot # MerkleRoot(G)
      BY <1>7, <2>3
    <3>2. ~ VerifyConsistency(oldRoot, m, MerkleRoot(F), n, proof)
      BY <2>3 DEF VerifyConsistency
    <3> QED BY <3>1, <3>2, Zenon DEF ProofsDecide, F, G
  <2> QED BY <2>2, <2>3
<1> QED BY <1>8, <1>9

\* Whoever accepts a consistency proof from an older tree holds the new log to the same first
\* entries as that tree had, with any proof at all.
THEOREM ConsistencyProofsCommit ==
  ASSUME NEW T, NEW D \in Seq(T), NEW E \in Seq(T), NEW n \in 1 .. Len(D), NEW m \in 1 .. n,
         m <= Len(E), NEW A, NEW proof \in Seq(A),
         VerifyConsistency(MerkleRoot(FirstOf(E, m)), m, MerkleRoot(FirstOf(D, n)), n, proof)
  PROVE  FirstOf(E, m) = FirstOf(D, m)
<1>1. ProofsDecide(D, m, n, MerkleRoot(FirstOf(E, m)), proof)
  BY ConsistencyProofsDecide
<1>2. MerkleRoot(FirstOf(E, m)) = MerkleRoot(FirstOf(D, m))
  BY <1>1, Zenon DEF ProofsDecide
<1>3. m \in 1 .. Len(D) /\ m \in 1 .. Len(E)
  OBVIOUS
<1>4. FirstOf(E, m) \in Seq(T) /\ FirstOf(D, m) \in Seq(T)
  BY <1>3, FirstNodes
<1> QED BY <1>2, <1>4, RootsCommit

\* A consistency proof is a list.
LEMMA ConsistencyProofIsList ==
  ASSUME NEW T, NEW D \in Seq(T), NEW n \in 1 .. Len(D), NEW m \in 1 .. n
  PROVE  \E B : ConsistencyProof(D, m, n) \in Seq(B)
<1>1. CASE m = n
  <2>1. ConsistencyProof(D, m, n) = <<>>
    BY <1>1 DEF ConsistencyProof
  <2>2. <<>> \in Seq({})
    OBVIOUS
  <2> QED BY <2>1, <2>2
<1>2. CASE m # n
  <2> DEFINE F == FirstOf(D, n)
             d == LeafHashes(F)
  <2>1. F \in Seq(T) /\ Len(F) = n
    BY FirstNodes
  <2>2. d \in Seq({LeafHash(x) : x \in T}) /\ Len(d) = n /\ AreLeaves(d)
    BY <2>1, LeafHashesType
  <2>3. ConsistencyProof(D, m, n) = SubProof(d, m)
    BY <1>2 DEF ConsistencyProof
  <2> HIDE DEF d
  <2>4. m \in Nat \ {0} /\ m < Len(d)
    BY <1>2, <2>2
  <2>5. AreHashes(d)
    BY <2>2, LeavesAreHashes
  <2>6. IsProof(d, m)
    BY <2>2, <2>4, <2>5, ProofAlways
  <2> QED BY <2>3, <2>6 DEF IsProof
<1> QED BY <1>1, <1>2

-----------------------------------------------------------------------------
(* Frontiers *)

\* A frontier with these parts.
Frontier(roots, sizes, size) == [roots |-> roots, sizes |-> sizes, size |-> size]

IsFrontier(f) ==
  /\ f = Frontier(f.roots, f.sizes, f.size)
  /\ \E A : f.roots \in Seq(A)
  /\ f.sizes \in Seq(Nat) /\ f.size \in Nat
  /\ Len(f.sizes) = Len(f.roots)

\* off[j] is the place of the first leaf of the j-th subtree; the last entry is the place of
\* the next leaf.
Cut(f, off) ==
  LET k == Len(f.roots)
  IN  /\ off \in [1 .. k + 1 -> Nat]
      /\ off[1] = 1 /\ off[k + 1] = f.size + 1
      /\ \A j \in 1 .. k : off[j + 1] = off[j] + f.sizes[j]

\* Each subtree is perfect and its root is that of its run of D; at most as many leaves as it
\* has are to its right.
Perfect(f, D, off) ==
  /\ f.size <= Len(D)
  /\ \A j \in 1 .. Len(f.roots) :
       /\ f.sizes[j] >= 1 /\ IsPowerOfTwo(f.sizes[j])
       /\ off[j] >= 1 /\ off[j + 1] <= f.size + 1
       /\ f.roots[j] = Roots(D)[f.sizes[j]][off[j]]
       /\ f.size + 1 - off[j + 1] <= f.sizes[j]

\* The two subtrees at the right end are not of one size.
Settled(f) ==
  LET k == Len(f.roots) IN ~ (k >= 2 /\ f.sizes[k] = f.sizes[k - 1])

\* The frontier stands for the first leaves of D.
Covers(f, D) == IsFrontier(f) /\ Settled(f) /\ \E off : Cut(f, off) /\ Perfect(f, D, off)

\* What a subtree is, read off.
PerfectAt(f, D, off, j) ==
  /\ f.sizes[j] >= 1 /\ f.sizes[j] \in Nat /\ IsPowerOfTwo(f.sizes[j])
  /\ off[j] \in Nat /\ off[j] >= 1 /\ off[j + 1] \in Nat /\ off[j + 1] <= f.size + 1
  /\ off[j + 1] = off[j] + f.sizes[j]
  /\ f.roots[j] = Roots(D)[f.sizes[j]][off[j]]
  /\ f.size + 1 - off[j + 1] <= f.sizes[j]

\* The parts of a frontier's cover are numbers.
LEMMA ReadPerfect ==
  ASSUME NEW f, NEW D, NEW off, IsFrontier(f), Cut(f, off), Perfect(f, D, off),
         NEW j \in 1 .. Len(f.roots)
  PROVE  PerfectAt(f, D, off, j)
<1>1. PICK k \in Nat : k = Len(f.roots) /\ Len(f.sizes) = k /\ f.sizes \in Seq(Nat)
  BY DEF IsFrontier
<1>2. f.sizes[j] \in Nat
  BY <1>1
<1>3. off[j] \in Nat /\ off[j + 1] \in Nat /\ off[j + 1] = off[j] + f.sizes[j]
  <2>1. j \in 1 .. k + 1 /\ j + 1 \in 1 .. k + 1
    BY <1>1
  <2> QED BY <1>1, <2>1 DEF Cut
<1> QED BY <1>2, <1>3 DEF Perfect, PerfectAt

\* A new frontier stands for no leaves.
LEMMA NewFrontierCovers ==
  ASSUME NEW D, Len(D) \in Nat
  PROVE  Covers(NewFrontier, D)
<1> DEFINE f == NewFrontier
           off == [j \in 1 .. 1 |-> 1]
<1>1. f.roots = <<>> /\ f.sizes = <<>> /\ f.size = 0 /\ f = Frontier(<<>>, <<>>, 0)
  BY DEF NewFrontier, Frontier
<1>2. Len(<<>>) = 0 /\ <<>> \in Seq({}) /\ <<>> \in Seq(Nat) /\ 0 \in Nat
  OBVIOUS
<1>3. off \in [1 .. 0 + 1 -> Nat] /\ off[1] = 1 /\ off[0 + 1] = 0 + 1
  OBVIOUS
<1> HIDE DEF f, off
<1>4. IsFrontier(f)
  BY <1>1, <1>2 DEF IsFrontier
<1>5. Cut(f, off)
  BY <1>1, <1>2, <1>3 DEF Cut
<1>6. Perfect(f, D, off)
  BY <1>1, <1>2 DEF Perfect
<1>7. Settled(f)
  BY <1>1, <1>2 DEF Settled
<1> QED BY <1>4, <1>5, <1>6, <1>7 DEF Covers, f

\* It stands for the same leaves of another tree that has them.
LEMMA CoversOfSame ==
  ASSUME NEW T, NEW D \in Seq(T), NEW E \in Seq(T), NEW f, Covers(f, D), f.size <= Len(E),
         \A i \in 1 .. f.size : D[i] = E[i]
  PROVE  Covers(f, E)
<1>1. IsFrontier(f) /\ f.size \in Nat
  BY DEF Covers, IsFrontier
<1>2. PICK off : Cut(f, off) /\ Perfect(f, D, off)
  BY DEF Covers
<1>3. f.size <= Len(D)
  BY <1>2 DEF Perfect
<1>4. ASSUME NEW j \in 1 .. Len(f.roots)
      PROVE  Roots(D)[f.sizes[j]][off[j]] = Roots(E)[f.sizes[j]][off[j]]
  <2>1. PerfectAt(f, D, off, j)
    BY <1>1, <1>2, ReadPerfect
  <2>2. PICK n \in Nat, i \in Nat : n = f.sizes[j] /\ i = off[j] /\ n >= 1 /\ i >= 1
                                    /\ i + n <= f.size + 1
    BY <2>1 DEF PerfectAt
  <2>3. n \in Nat \ {0} /\ i \in 1 .. Len(D) - n + 1 /\ i \in 1 .. Len(E) - n + 1
    <3>1. PICK s \in Nat, x \in Nat, y \in Nat :
            s = f.size /\ x = Len(D) /\ y = Len(E) /\ s <= x /\ s <= y
      BY <1>1, <1>3
    <3>2. i + n <= s + 1
      BY <2>2, <3>1
    <3>3. n \in Nat \ {0} /\ i \in 1 .. x - n + 1 /\ i \in 1 .. y - n + 1
      <4>1. n >= 1 /\ i >= 1
        BY <2>2
      <4>2. s <= x /\ s <= y
        BY <3>1
      <4> QED BY <3>2, <4>1, <4>2
    <3> QED BY <3>1, <3>3
  <2>4. SameLeaves(D, E, n, n, i, i)
    <3>1. ASSUME NEW t \in 0 .. n - 1 PROVE D[i + t] = E[i + t]
      <4>1. i + t \in 1 .. f.size
        <5>1. PICK s \in Nat : s = f.size
          BY <1>1
        <5>2. i + n <= s + 1
          BY <2>2, <5>1
        <5>3. i >= 1
          BY <2>2
        <5>4. i + t \in 1 .. s
          BY <5>2, <5>3
        <5> QED BY <5>1, <5>4
      <4> QED BY <4>1
    <3> QED BY <3>1 DEF SameLeaves
  <2>5. Roots(D)[n][i] = Roots(E)[n][i]
    BY <2>3, <2>4, RootsOfSameLeaves
  <2> QED BY <2>2, <2>5
<1>5. Perfect(f, E, off)
  BY <1>2, <1>4 DEF Perfect
<1> QED BY <1>2, <1>5 DEF Covers

\* A leaf pushed as a subtree of its own.
Pushed(f, h) == Frontier(Append(f.roots, h), Append(f.sizes, 1), f.size + 1)

\* What a frontier may be while it merges: not yet settled.
Merging(f, D) == IsFrontier(f) /\ \E off : Cut(f, off) /\ Perfect(f, D, off)

\* After a settled frontier takes a leaf in, it may have to merge.
LEMMA PushedMerges ==
  ASSUME NEW T, NEW D \in Seq(T), NEW f, IsFrontier(f), NEW off, Cut(f, off), Perfect(f, D, off),
         \A j \in 1 .. Len(f.roots) : f.size + 1 - off[j + 1] < f.sizes[j],
         f.size < Len(D), NEW h, D[f.size + 1] = h
  PROVE  Merging(Pushed(f, h), D) /\ Len(Pushed(f, h).roots) = Len(f.roots) + 1
<1> DEFINE g == Pushed(f, h)
<1>1. PICK A : f.roots \in Seq(A)
  BY DEF IsFrontier
<1>2. f.sizes \in Seq(Nat) /\ f.size \in Nat /\ Len(f.sizes) = Len(f.roots)
  BY DEF IsFrontier
<1>3. PICK k \in Nat : k = Len(f.roots) /\ k = Len(f.sizes)
  BY <1>1, <1>2
<1>4. g.roots = Append(f.roots, h) /\ g.sizes = Append(f.sizes, 1) /\ g.size = f.size + 1
      /\ g = Frontier(g.roots, g.sizes, g.size)
  BY DEF Pushed, Frontier
<1> HIDE DEF g
<1>5. /\ g.roots \in Seq(A \cup {h}) /\ Len(g.roots) = k + 1
      /\ g.roots[k + 1] = h /\ \A j \in 1 .. k : g.roots[j] = f.roots[j]
  <2> DEFINE C == A \cup {h}
  <2>1. f.roots \in Seq(C) /\ h \in C
    BY <1>1
  <2> HIDE DEF C
  <2>2. PICK q : q = f.roots
    OBVIOUS
  <2>3. q \in Seq(C) /\ Len(q) = k
    BY <1>3, <2>1, <2>2
  <2>4. Append(q, h) \in Seq(C) /\ Len(Append(q, h)) = k + 1
        /\ Append(q, h)[k + 1] = h /\ \A j \in 1 .. k : Append(q, h)[j] = q[j]
    BY <2>1, <2>3
  <2>5. g.roots \in Seq(C) /\ Len(g.roots) = k + 1
        /\ g.roots[k + 1] = h /\ \A j \in 1 .. k : g.roots[j] = f.roots[j]
    BY <1>4, <2>2, <2>4
  <2> QED BY <2>5 DEF C
<1>6. /\ g.sizes \in Seq(Nat) /\ Len(g.sizes) = k + 1
      /\ g.sizes[k + 1] = 1 /\ \A j \in 1 .. k : g.sizes[j] = f.sizes[j]
  BY <1>2, <1>3, <1>4
<1>7. IsFrontier(g)
  BY <1>2, <1>4, <1>5, <1>6 DEF IsFrontier
<1> DEFINE to == [j \in 1 .. k + 2 |-> IF j = k + 2 THEN f.size + 2 ELSE off[j]]
<1>8. \A j \in 1 .. k : PerfectAt(f, D, off, j)
  BY <1>3, ReadPerfect
<1>9. off \in [1 .. k + 1 -> Nat] /\ off[1] = 1 /\ off[k + 1] = f.size + 1
  BY <1>3 DEF Cut
<1>10. /\ to \in [1 .. k + 2 -> Nat] /\ to[k + 2] = f.size + 2 /\ to[k + 1] = f.size + 1
       /\ to[1] = 1 /\ \A j \in 1 .. k + 1 : to[j] = off[j]
  <2>1. \A j \in 1 .. k + 1 : j # k + 2 /\ j \in 1 .. k + 2
    BY <1>3
  <2>2. k + 2 \in 1 .. k + 2 /\ k + 1 \in 1 .. k + 1 /\ 1 \in 1 .. k + 1
    BY <1>3
  <2>3. \A j \in 1 .. k + 1 : to[j] = off[j]
    BY <2>1
  <2>4. ASSUME NEW j \in 1 .. k + 2 PROVE to[j] \in Nat
    <3>1. j = k + 2 \/ j \in 1 .. k + 1
      BY <1>3
    <3>2. CASE j = k + 2
      <4>1. f.size + 2 \in Nat
        BY <1>2
      <4> QED BY <3>2, <4>1
    <3>3. CASE j # k + 2
      <4>1. off[j] \in Nat
        BY <1>9, <3>1, <3>3
      <4> QED BY <3>3, <4>1
    <3> QED BY <3>2, <3>3
  <2> QED BY <1>9, <2>2, <2>3, <2>4
<1> HIDE DEF to
<1>11. Cut(g, to)
  <2>1. ASSUME NEW j \in 1 .. k + 1 PROVE to[j + 1] = to[j] + g.sizes[j]
    <3>1. CASE j = k + 1
      <4>1. j + 1 = k + 2 /\ f.size + 2 = f.size + 1 + 1
        BY <1>2, <1>3, <3>1
      <4> QED BY <1>6, <1>10, <3>1, <4>1
    <3>2. CASE j # k + 1
      <4>1. j \in 1 .. k /\ j \in 1 .. k + 1 /\ j + 1 \in 1 .. k + 1
        BY <1>3, <3>2
      <4>2. off[j + 1] = off[j] + f.sizes[j]
        BY <1>8, <4>1 DEF PerfectAt
      <4> QED BY <1>6, <1>10, <4>1, <4>2
    <3> QED BY <3>1, <3>2
  <2>2. k + 1 + 1 = k + 2 /\ g.size + 1 = f.size + 2
    BY <1>2, <1>3, <1>4
  <2> QED BY <1>5, <1>10, <2>1, <2>2 DEF Cut
<1>12. Perfect(g, D, to)
  <2>1. g.size <= Len(D)
    BY <1>2, <1>4
  <2>2. ASSUME NEW j \in 1 .. k + 1
        PROVE  /\ g.sizes[j] >= 1 /\ IsPowerOfTwo(g.sizes[j])
               /\ to[j] >= 1 /\ to[j + 1] <= g.size + 1
               /\ g.roots[j] = Roots(D)[g.sizes[j]][to[j]]
               /\ g.size + 1 - to[j + 1] <= g.sizes[j]
    <3>1. CASE j = k + 1
      <4>1. g.sizes[j] = 1 /\ to[j] = f.size + 1 /\ to[j + 1] = f.size + 2 /\ g.roots[j] = h
        <5>1. j + 1 = k + 2
          BY <1>3, <3>1
        <5> QED BY <1>5, <1>6, <1>10, <3>1, <5>1
      <4>2. Roots(D)[1][f.size + 1] = h
        <5>1. 1 \in 1 .. Len(D) /\ f.size + 1 \in 1 .. Len(D) - 1 + 1
          BY <1>2
        <5> QED BY <5>1, RunRoot
      <4>3. f.size + 1 >= 1 /\ f.size + 2 <= g.size + 1 /\ g.size + 1 - (f.size + 2) <= 1
        BY <1>2, <1>4
      <4> QED BY <4>1, <4>2, <4>3, OneIsPower
    <3>2. CASE j # k + 1
      <4>1. j \in 1 .. k /\ j \in 1 .. k + 1 /\ j + 1 \in 1 .. k + 1
        BY <1>3, <3>2
      <4>2. /\ g.sizes[j] = f.sizes[j] /\ to[j] = off[j] /\ to[j + 1] = off[j + 1]
            /\ g.roots[j] = f.roots[j]
        BY <1>5, <1>6, <1>10, <4>1
      <4>3. PerfectAt(f, D, off, j)
        BY <1>8, <4>1
      <4>4. f.size + 1 - off[j + 1] < f.sizes[j]
        BY <1>3, <4>1
      <4>5. off[j + 1] <= g.size + 1 /\ g.size + 1 - off[j + 1] <= f.sizes[j]
        <5>1. PICK s \in Nat, o \in Nat, z \in Nat :
                s = f.size /\ o = off[j + 1] /\ z = f.sizes[j] /\ o <= s + 1 /\ s + 1 - o < z
          BY <1>2, <4>3, <4>4 DEF PerfectAt
        <5>2. o <= s + 1 + 1 /\ s + 1 + 1 - o <= z
          BY <5>1
        <5> QED BY <1>4, <5>1, <5>2
      <4> QED BY <4>2, <4>3, <4>5 DEF PerfectAt
    <3> QED BY <3>1, <3>2
  <2> QED BY <1>5, <2>1, <2>2 DEF Perfect
<1> QED BY <1>3, <1>5, <1>7, <1>11, <1>12 DEF Merging, g

-----------------------------------------------------------------------------
(* Merging subtrees *)

\* Fewer leaves than a subtree has are to its right.
StrictAt(f, off, j) == f.size + 1 - off[j + 1] < f.sizes[j]

\* The i-th place from the right.
LEMMA Mirrored ==
  ASSUME NEW k \in Nat, NEW i \in 1 .. k
  PROVE  /\ k + 1 - i \in 1 .. k /\ k + 1 - (i - 1) = (k + 1 - i) + 1
         /\ k + 1 - (k + 1 - i) = i /\ i \in 0 .. k /\ i # 0
OBVIOUS

\* Once no two equal subtrees are left at the right end, that is so of every subtree.
LEMMA SettledIsStrict ==
  ASSUME NEW D, NEW f, IsFrontier(f), NEW off, Cut(f, off), Perfect(f, D, off), Settled(f)
  PROVE  \A j \in 1 .. Len(f.roots) : StrictAt(f, off, j)
<1>1. PICK k \in Nat, s \in Nat : k = Len(f.roots) /\ s = f.size
  BY DEF IsFrontier
<1>2. off[k + 1] = s + 1
  BY <1>1 DEF Cut
<1>3. \A j \in 1 .. k : PerfectAt(f, D, off, j)
  BY <1>1, ReadPerfect
\* Counted from the right.
<1> DEFINE S == {i \in 0 .. k : i = 0 \/ StrictAt(f, off, k + 1 - i)}
<1>4. 0 \in S
  BY <1>1
<1>5. ASSUME NEW i \in 1 .. k, i - 1 \in S PROVE i \in S
  <2>1. PICK j \in 1 .. k : j = k + 1 - i /\ k + 1 - (i - 1) = j + 1
    <3>1. /\ k + 1 - i \in 1 .. k /\ k + 1 - (i - 1) = (k + 1 - i) + 1
      BY Mirrored
    <3> HIDE DEF S
    <3> QED BY <3>1
  <2>2. PICK a \in Nat, x \in Nat : a = f.sizes[j] /\ x = off[j + 1]
    BY <1>3 DEF PerfectAt
  <2>3. a >= 1 /\ IsPowerOfTwo(a) /\ x <= s + 1 /\ s + 1 - x <= a
    BY <1>1, <1>3, <2>2 DEF PerfectAt
  <2>4. s + 1 - x < a
    <3>1. CASE j = k
      <4>1. x = s + 1
        BY <1>2, <2>2, <3>1
      <4> QED BY <2>3, <4>1
    <3>2. CASE j # k
      <4>1. j + 1 \in 1 .. k
        BY <1>1, <3>2
      <4>2. PICK b \in Nat, y \in Nat : b = f.sizes[j + 1] /\ y = off[j + 1 + 1]
        BY <1>3, <4>1 DEF PerfectAt
      <4>3. b >= 1 /\ IsPowerOfTwo(b) /\ y = x + b /\ y <= s + 1
        BY <1>1, <1>3, <2>2, <4>1, <4>2 DEF PerfectAt
      <4>4. s + 1 - y < b
        <5>1. i - 1 # 0
          BY <2>1, <4>1
        <5>2. StrictAt(f, off, j + 1)
          BY <1>5, <2>1, <5>1
        <5> QED BY <1>1, <4>2, <5>2 DEF StrictAt
      <4>5. ASSUME s + 1 - x = a PROVE FALSE
        <5>1. b <= a
          BY <4>3, <4>5
        <5>2. CASE b = a
          <6>1. y = s + 1
            BY <4>3, <4>5, <5>2
          <6>2. j + 1 = k
            <7>1. ASSUME j + 1 # k PROVE FALSE
              <8>1. j + 1 + 1 \in 1 .. k
                BY <1>1, <4>1, <7>1
              <8>2. PICK c \in Nat, z \in Nat : c = f.sizes[j + 1 + 1] /\ z = off[j + 1 + 1 + 1]
                BY <1>3, <8>1 DEF PerfectAt
              <8>3. c >= 1 /\ z = y + c /\ z <= s + 1
                BY <1>1, <1>3, <4>2, <8>1, <8>2 DEF PerfectAt
              <8> QED BY <6>1, <8>3
            <7> QED BY <7>1
          <6>3. k >= 2 /\ k - 1 = j /\ f.sizes[k] = f.sizes[k - 1]
            <7>1. k >= 2 /\ k - 1 = j
              BY <1>1, <6>2
            <7> QED BY <2>2, <4>2, <5>2, <6>2, <7>1
          <6> QED BY <1>1, <6>3 DEF Settled
        <5>3. CASE b # a
          <6>1. 2 * b <= a
            <7>1. b < a
              BY <5>1, <5>3
            <7> QED BY <2>3, <4>3, <7>1, PowersApart
          <6> QED BY <4>3, <4>4, <4>5, <6>1
        <5> QED BY <5>2, <5>3
      <4> QED BY <2>3, <4>5
    <3> QED BY <3>1, <3>2
  <2>5. StrictAt(f, off, j)
    BY <1>1, <2>2, <2>4 DEF StrictAt
  <2>6. i \in 0 .. k
    BY Mirrored
  <2> QED BY <2>1, <2>5, <2>6
<1>6. ASSUME NEW j \in 1 .. k PROVE StrictAt(f, off, j)
  <2>1. PICK i \in 1 .. k : i = k + 1 - j /\ k + 1 - i = j
    <3>1. k + 1 - j \in 1 .. k /\ k + 1 - (k + 1 - j) = j
      BY Mirrored
    <3> HIDE DEF S
    <3> QED BY <3>1
  <2>2. 0 .. k \subseteq S
    <3> HIDE DEF S
    <3> QED BY <1>1, <1>4, <1>5, IntervalInduction
  <2>3. i \in S /\ i # 0
    <3>1. i \in 0 .. k /\ i # 0
      BY Mirrored
    <3> HIDE DEF S
    <3> QED BY <2>2, <3>1
  <2> QED BY <2>1, <2>3
<1> QED BY <1>1, <1>6

-----------------------------------------------------------------------------

\* The parts of a frontier replaced.
Parted(f, r, z) == [f EXCEPT !.roots = r, !.sizes = z]

\* That gives a frontier with these parts.
LEMMA PartsReplaced ==
  ASSUME NEW roots, NEW sizes, NEW size, NEW r, NEW z
  PROVE  Parted(Frontier(roots, sizes, size), r, z) = Frontier(r, z, size)
<1> DEFINE f == Frontier(roots, sizes, size)
           t == [f EXCEPT !.roots = r]
<1>1. t = Frontier(r, sizes, size)
  BY DEF Frontier
<1>2. [t EXCEPT !.sizes = z] = Frontier(r, z, size)
  <2> HIDE DEF t
  <2> QED BY <1>1 DEF Frontier
<1>3. [f EXCEPT !.roots = r, !.sizes = z] = [t EXCEPT !.sizes = z]
  <2> HIDE DEF f
  <2> QED OBVIOUS
<1> QED BY <1>2, <1>3 DEF Parted

\* The merge of the last two subtrees, spelt out.
MergedTo(f, n) ==
  Frontier(Append(SubSeq(f.roots, 1, n - 2), NodeHash(f.roots[n - 1], f.roots[n])),
           Append(SubSeq(f.sizes, 1, n - 2), 2 * f.sizes[n - 1]), f.size)

\* Merged is that, or leaves a settled frontier alone.
LEMMA MergedIs ==
  ASSUME NEW f, IsFrontier(f)
  PROVE  Merged(f) = IF Settled(f) THEN f ELSE MergedTo(f, Len(f.roots))
<1> DEFINE n == Len(f.roots)
           r == Append(SubSeq(f.roots, 1, n - 2), NodeHash(f.roots[n - 1], f.roots[n]))
           z == Append(SubSeq(f.sizes, 1, n - 2), 2 * f.sizes[n - 1])
<1>1. f = Frontier(f.roots, f.sizes, f.size)
  BY DEF IsFrontier
<1>2. CASE Settled(f)
  BY <1>2, Zenon DEF Settled, Merged
<1>3. CASE ~ Settled(f)
  <2>1. Merged(f) = Parted(f, r, z)
    BY <1>3 DEF Settled, Merged, Parted
  <2> HIDE DEF r, z, n
  <2>2. Parted(f, r, z) = Frontier(r, z, f.size)
    <3>1. Parted(Frontier(f.roots, f.sizes, f.size), r, z) = Frontier(r, z, f.size)
      BY PartsReplaced
    <3> QED BY <1>1, <3>1
  <2> QED BY <1>3, <2>1, <2>2 DEF MergedTo, r, z, n
<1> QED BY <1>2, <1>3

\* p is the list q, of n elements of A, with x for the last two.
LastTwoAre(p, q, A, n, x) ==
  /\ p \in Seq(A \cup {x}) /\ Len(p) = n - 1
  /\ p[n - 1] = x /\ \A j \in 1 .. n - 2 : p[j] = q[j]

\* A list with its last two elements made one.
LEMMA LastTwo ==
  ASSUME NEW A, NEW q, q \in Seq(A), NEW n \in Nat, n >= 2, Len(q) = n, NEW x
  PROVE  LastTwoAre(Append(SubSeq(q, 1, n - 2), x), q, A, n, x)
<1> DEFINE C == A \cup {x}
           s == SubSeq(q, 1, n - 2)
<1>1. q \in Seq(C) /\ x \in C
  OBVIOUS
<1> HIDE DEF C
<1>2. s \in Seq(C) /\ Len(s) = n - 2 /\ \A j \in 1 .. n - 2 : s[j] = q[j]
  BY <1>1
<1> HIDE DEF s
<1>3. /\ Append(s, x) \in Seq(C) /\ Len(Append(s, x)) = n - 1
      /\ Append(s, x)[n - 1] = x /\ \A j \in 1 .. n - 2 : Append(s, x)[j] = s[j]
  BY <1>1, <1>2
<1> QED BY <1>2, <1>3 DEF C, s, LastTwoAre

\* A frontier stays one when it merges, with one subtree less.
LEMMA MergedMerges ==
  ASSUME NEW T, NEW D \in Seq(T), NEW f, Merging(f, D), ~ Settled(f)
  PROVE  /\ Merging(Merged(f), D) /\ Len(Merged(f).roots) = Len(f.roots) - 1
         /\ Merged(f).size = f.size
<1> DEFINE g == Merged(f)
<1>1. IsFrontier(f)
  BY DEF Merging
<1>2. PICK off : Cut(f, off) /\ Perfect(f, D, off)
  BY DEF Merging
<1>3. PICK A : f.roots \in Seq(A)
  BY <1>1 DEF IsFrontier
<1>4. PICK k \in Nat, s \in Nat : k = Len(f.roots) /\ s = f.size /\ Len(f.sizes) = k
                                  /\ f.sizes \in Seq(Nat)
  BY <1>1 DEF IsFrontier
<1>5. k >= 2 /\ f.sizes[k] = f.sizes[k - 1]
  BY <1>4 DEF Settled
<1>6. \A j \in 1 .. k : PerfectAt(f, D, off, j)
  BY <1>1, <1>2, <1>4, ReadPerfect
<1>7. PICK i \in Nat : i = k - 1 /\ i \in 1 .. k /\ i + 1 = k /\ i - 1 = k - 2
  BY <1>5
<1>8. PICK a \in Nat, x \in Nat : a = f.sizes[i] /\ x = off[i]
  BY <1>6, <1>7 DEF PerfectAt
<1>9. /\ a >= 1 /\ IsPowerOfTwo(a) /\ x >= 1 /\ off[k] = x + a /\ off[k + 1] = x + 2 * a
      /\ x + 2 * a = s + 1
  <2>1. PerfectAt(f, D, off, i) /\ PerfectAt(f, D, off, i + 1)
    BY <1>6, <1>7
  <2>2. a >= 1 /\ IsPowerOfTwo(a) /\ x >= 1 /\ off[k] = x + a
    BY <1>7, <1>8, <2>1 DEF PerfectAt
  <2>3. off[k + 1] = off[k] + a
    BY <1>5, <1>7, <1>8, <2>1 DEF PerfectAt
  <2>4. off[k + 1] = s + 1
    BY <1>2, <1>4 DEF Cut
  <2> QED BY <2>2, <2>3, <2>4
<1>10. s <= Len(D) /\ Len(D) \in Nat
  BY <1>2, <1>4 DEF Perfect
<1> DEFINE h == NodeHash(f.roots[k - 1], f.roots[k])
<1>11. h = Roots(D)[2 * a][x]
  <2>1. f.roots[k - 1] = Roots(D)[a][x] /\ f.roots[k] = Roots(D)[a][x + a]
    <3>1. PerfectAt(f, D, off, i) /\ PerfectAt(f, D, off, i + 1)
      BY <1>6, <1>7
    <3> QED BY <1>5, <1>7, <1>8, <1>9, <3>1 DEF PerfectAt
  <2>2. PICK n \in Nat : n = 2 * a
    OBVIOUS
  <2>3. n \in 1 .. Len(D) /\ x \in 1 .. Len(D) - n + 1 /\ n # 1 /\ n - a = a
    BY <1>9, <1>10, <2>2
  <2>4. LargestPowerOfTwoBelow(n) = a
    BY <1>9, <2>2, PowersDouble
  <2>5. Roots(D)[n][x] = NodeHash(Roots(D)[a][x], Roots(D)[n - a][x + a])
    BY <2>3, <2>4, RunRoot
  <2> QED BY <2>1, <2>2, <2>3, <2>5
<1>12. g = Frontier(Append(SubSeq(f.roots, 1, k - 2), h),
                    Append(SubSeq(f.sizes, 1, k - 2), 2 * a), s)
  <2>1. g = MergedTo(f, k)
    BY <1>1, <1>4, MergedIs
  <2>2. f.sizes[k - 1] = a
    BY <1>7, <1>8
  <2> QED BY <1>4, <2>1, <2>2 DEF MergedTo
<1> HIDE DEF h, g
<1>13. /\ g.roots = Append(SubSeq(f.roots, 1, k - 2), h)
       /\ g.sizes = Append(SubSeq(f.sizes, 1, k - 2), 2 * a)
       /\ g.size = s /\ g = Frontier(g.roots, g.sizes, g.size)
  BY <1>12 DEF Frontier
<1>14. /\ g.roots \in Seq(A \cup {h}) /\ Len(g.roots) = i
       /\ g.roots[i] = h /\ \A j \in 1 .. i - 1 : g.roots[j] = f.roots[j]
  <2>1. LastTwoAre(g.roots, f.roots, A, k, h)
    <3>1. LastTwoAre(Append(SubSeq(f.roots, 1, k - 2), h), f.roots, A, k, h)
      BY <1>3, <1>4, <1>5, LastTwo
    <3> QED BY <1>13, <3>1
  <2> QED BY <1>7, <2>1 DEF LastTwoAre
<1>15. /\ g.sizes \in Seq(Nat) /\ Len(g.sizes) = i
       /\ g.sizes[i] = 2 * a /\ \A j \in 1 .. i - 1 : g.sizes[j] = f.sizes[j]
  <2>1. PICK z \in Nat : z = 2 * a
    OBVIOUS
  <2>2. LastTwoAre(g.sizes, f.sizes, Nat, k, z)
    <3>1. LastTwoAre(Append(SubSeq(f.sizes, 1, k - 2), z), f.sizes, Nat, k, z)
      BY <1>4, <1>5, LastTwo
    <3> QED BY <1>13, <2>1, <3>1
  <2>3. Nat \cup {z} = Nat
    OBVIOUS
  <2> QED BY <1>7, <2>1, <2>2, <2>3 DEF LastTwoAre
<1>16. IsFrontier(g)
  BY <1>4, <1>13, <1>14, <1>15 DEF IsFrontier
<1> DEFINE to == [j \in 1 .. k |-> IF j = k THEN s + 1 ELSE off[j]]
<1>17. to \in [1 .. k -> Nat] /\ to[k] = s + 1 /\ to[1] = 1 /\ \A j \in 1 .. i : to[j] = off[j]
  <2>1. off \in [1 .. k + 1 -> Nat] /\ off[1] = 1
    BY <1>2, <1>4 DEF Cut
  <2>2. k \in 1 .. k /\ 1 \in 1 .. k /\ 1 # k
    BY <1>5
  <2>3. ASSUME NEW j \in 1 .. k PROVE to[j] \in Nat
    <3>1. j \in 1 .. k + 1
      OBVIOUS
    <3> QED BY <2>1, <3>1
  <2>4. \A j \in 1 .. i : j \in 1 .. k /\ j # k
    BY <1>7
  <2> QED BY <2>1, <2>2, <2>3, <2>4
<1> HIDE DEF to
<1>18. Cut(g, to)
  <2>1. ASSUME NEW j \in 1 .. i PROVE to[j + 1] = to[j] + g.sizes[j]
    <3>1. CASE j = i
      BY <1>7, <1>8, <1>9, <1>15, <1>17, <3>1
    <3>2. CASE j # i
      <4>1. j \in 1 .. i - 1 /\ j + 1 \in 1 .. i /\ j \in 1 .. k
        BY <1>7, <3>2
      <4>2. off[j + 1] = off[j] + f.sizes[j]
        BY <1>6, <4>1 DEF PerfectAt
      <4> QED BY <1>15, <1>17, <4>1, <4>2
    <3> QED BY <3>1, <3>2
  <2> QED BY <1>7, <1>13, <1>14, <1>17, <2>1 DEF Cut
<1>19. Perfect(g, D, to)
  <2>1. ASSUME NEW j \in 1 .. i
        PROVE  /\ g.sizes[j] >= 1 /\ IsPowerOfTwo(g.sizes[j])
               /\ to[j] >= 1 /\ to[j + 1] <= g.size + 1
               /\ g.roots[j] = Roots(D)[g.sizes[j]][to[j]]
               /\ g.size + 1 - to[j + 1] <= g.sizes[j]
    <3>1. CASE j = i
      <4>1. g.sizes[j] = 2 * a /\ to[j] = x /\ to[j + 1] = s + 1 /\ g.roots[j] = h
        BY <1>7, <1>8, <1>14, <1>15, <1>17, <3>1
      <4>2. PICK z \in Nat : z = 2 * a
        OBVIOUS
      <4>3. z >= 1 /\ s + 1 - (s + 1) <= z /\ s + 1 <= s + 1
        BY <1>9, <4>2
      <4>4. IsPowerOfTwo(z)
        BY <1>9, <4>2, PowersDouble
      <4>5. g.sizes[j] = z /\ g.roots[j] = Roots(D)[z][x] /\ x >= 1 /\ g.size = s
        BY <1>9, <1>11, <1>13, <4>1, <4>2
      <4> HIDE DEF h
      <4> QED BY <4>1, <4>3, <4>4, <4>5
    <3>2. CASE j # i
      <4>1. j \in 1 .. i - 1 /\ j + 1 \in 1 .. i /\ j \in 1 .. k
        BY <1>7, <3>2
      <4>2. /\ g.sizes[j] = f.sizes[j] /\ to[j] = off[j] /\ to[j + 1] = off[j + 1]
            /\ g.roots[j] = f.roots[j] /\ g.size = f.size
        BY <1>4, <1>13, <1>14, <1>15, <1>17, <4>1
      <4>3. PerfectAt(f, D, off, j)
        BY <1>6, <4>1
      <4> QED BY <4>2, <4>3 DEF PerfectAt
    <3> QED BY <3>1, <3>2
  <2> QED BY <1>10, <1>13, <1>14, <2>1 DEF Perfect
<1> QED BY <1>4, <1>7, <1>13, <1>14, <1>16, <1>18, <1>19 DEF Merging, g

-----------------------------------------------------------------------------
(* What a frontier recomputes *)

\* The merges of a frontier, p at first, one by one.
IsCarry(c, p, N) == c = [i \in 0 .. N |-> IF i = 0 THEN p ELSE Merged(c[i - 1])]

\* There are as many as wanted.
LEMMA CarriesExist ==
  ASSUME NEW p, NEW N \in Nat
  PROVE  \E c : IsCarry(c, p, N)
<1> DEFINE S == {M \in 0 .. N : \E c : IsCarry(c, p, M)}
<1>1. 0 \in S
  <2> DEFINE c == [i \in 0 .. 0 |-> p]
             v == [i \in 0 .. 0 |-> IF i = 0 THEN p ELSE Merged(c[i - 1])]
  <2>1. c = v
    OBVIOUS
  <2>2. IsCarry(c, p, 0)
    BY <2>1, Zenon DEF IsCarry
  <2> QED BY <2>2
<1>2. ASSUME NEW M \in 1 .. N, M - 1 \in S PROVE M \in S
  <2>1. PICK b : IsCarry(b, p, M - 1)
    BY <1>2
  <2> DEFINE c == [i \in 0 .. M |-> IF i = 0 THEN p ELSE Merged(b[i - 1])]
  <2>2. \A i \in 0 .. M - 1 : c[i] = b[i]
    BY <2>1 DEF IsCarry
  <2> DEFINE v == [i \in 0 .. M |-> IF i = 0 THEN p ELSE Merged(c[i - 1])]
  <2>3. ASSUME NEW i \in 0 .. M, i # 0 PROVE Merged(c[i - 1]) = Merged(b[i - 1])
    <3>1. i - 1 \in 0 .. M - 1
      BY <2>3
    <3>2. c[i - 1] = b[i - 1]
      BY <2>2, <3>1
    <3> QED BY <3>2
  <2>4. c = v
    <3>1. \A i \in 0 .. M : c[i] = v[i]
      BY <2>3
    <3> QED BY <3>1
  <2> HIDE DEF c
  <2>5. IsCarry(c, p, M)
    BY <2>4, Zenon DEF IsCarry
  <2> QED BY <2>5
<1>3. N \in S
  <2> HIDE DEF S
  <2>1. 0 .. N \subseteq S
    BY <1>1, <1>2, IntervalInduction
  <2> QED BY <2>1
<1> QED BY <1>3

\* FrontierAppend pushes the leaf and merges as often as there were subtrees.
LEMMA AppendIs ==
  ASSUME NEW f, IsFrontier(f), NEW e
  PROVE  \E c : /\ IsCarry(c, Pushed(f, LeafHash(e)), Len(f.roots))
                /\ FrontierAppend(f, e) = c[Len(f.roots)]
<1> DEFINE p == Pushed(f, LeafHash(e))
           N == Len(f.roots)
           C == CHOOSE c : IsCarry(c, p, N)
<1>1. IsCarry(C, p, N)
  <2>1. N \in Nat
    BY DEF IsFrontier
  <2> QED BY <2>1, CarriesExist
<1>2. FrontierAppend(f, e) = C[N]
  BY DEF FrontierAppend, IsCarry, Pushed, Frontier
<1> QED BY <1>1, <1>2

\* After i merges either two different subtrees are at the right end, or i subtrees are gone.
CarryAt(c, D, p, N, i) ==
  /\ Merging(c[i], D) /\ c[i].size = p.size
  /\ Settled(c[i]) \/ Len(c[i].roots) = N + 1 - i

\* One merge for each old subtree settles the frontier.
LEMMA CarrySettles ==
  ASSUME NEW T, NEW D \in Seq(T), NEW N \in Nat, NEW p, Merging(p, D), Len(p.roots) = N + 1,
         NEW c, IsCarry(c, p, N)
  PROVE  Merging(c[N], D) /\ c[N].size = p.size /\ Settled(c[N])
<1> DEFINE S == {i \in 0 .. N : CarryAt(c, D, p, N, i)}
<1>1. c[0] = p /\ \A i \in 1 .. N : c[i] = Merged(c[i - 1])
  BY DEF IsCarry
<1>2. 0 \in S
  <2>1. CarryAt(c, D, p, N, 0)
    BY <1>1 DEF CarryAt
  <2> QED BY <2>1
<1>3. ASSUME NEW i \in 1 .. N, i - 1 \in S PROVE i \in S
  <2>1. PICK f : f = c[i - 1]
    OBVIOUS
  <2>2. /\ Merging(f, D) /\ f.size = p.size /\ c[i] = Merged(f)
        /\ Settled(f) \/ Len(f.roots) = N + 1 - (i - 1)
    BY <1>1, <1>3, <2>1 DEF CarryAt
  <2>3. IsFrontier(f)
    BY <2>2 DEF Merging
  <2>4. CarryAt(c, D, p, N, i)
    <3>1. CASE Settled(f)
      <4>1. Merged(f) = f
        BY <2>3, <3>1, MergedIs
      <4> QED BY <2>2, <3>1, <4>1 DEF CarryAt
    <3>2. CASE ~ Settled(f)
      <4>1. /\ Merging(Merged(f), D) /\ Len(Merged(f).roots) = Len(f.roots) - 1
            /\ Merged(f).size = f.size
        BY <2>2, <3>2, MergedMerges
      <4>2. Len(f.roots) - 1 = N + 1 - i
        <5>1. Len(f.roots) = N + 1 - (i - 1)
          BY <2>2, <3>2
        <5>2. N + 1 - (i - 1) - 1 = N + 1 - i
          OBVIOUS
        <5> QED BY <5>1, <5>2
      <4> QED BY <2>2, <4>1, <4>2 DEF CarryAt
    <3> QED BY <3>1, <3>2
  <2>5. i \in 0 .. N
    BY Mirrored
  <2> QED BY <2>4, <2>5
<1>4. CarryAt(c, D, p, N, N)
  <2>1. 0 .. N \subseteq S
    <3> HIDE DEF S
    <3> QED BY <1>2, <1>3, IntervalInduction
  <2>2. N \in 0 .. N
    OBVIOUS
  <2>3. N \in S
    <3> HIDE DEF S
    <3> QED BY <2>1, <2>2
  <2> QED BY <2>3
<1>5. Settled(c[N])
  <2>1. N + 1 - N = 1
    OBVIOUS
  <2>2. CASE Len(c[N].roots) = 1
    BY <2>2 DEF Settled
  <2> QED BY <1>4, <2>1, <2>2 DEF CarryAt
<1> QED BY <1>4, <1>5 DEF CarryAt

\* A frontier that stands for the first leaves of a tree and takes the next one in stands for
\* one leaf more.
LEMMA AppendCovers ==
  ASSUME NEW T, NEW D \in Seq(T), NEW f, Covers(f, D), f.size < Len(D), NEW e,
         D[f.size + 1] = LeafHash(e)
  PROVE  Covers(FrontierAppend(f, e), D) /\ FrontierAppend(f, e).size = f.size + 1
<1> DEFINE p == Pushed(f, LeafHash(e))
<1>1. IsFrontier(f) /\ Settled(f) /\ Len(f.roots) \in Nat
  BY DEF Covers, IsFrontier
<1>2. PICK off : Cut(f, off) /\ Perfect(f, D, off)
  BY DEF Covers
<1>3. \A j \in 1 .. Len(f.roots) : f.size + 1 - off[j + 1] < f.sizes[j]
  BY <1>1, <1>2, SettledIsStrict DEF StrictAt
<1>4. Merging(p, D) /\ Len(p.roots) = Len(f.roots) + 1
  <2>1. PICK h : h = LeafHash(e)
    OBVIOUS
  <2>2. Merging(Pushed(f, h), D) /\ Len(Pushed(f, h).roots) = Len(f.roots) + 1
    BY <1>1, <1>2, <1>3, <2>1, PushedMerges
  <2> QED BY <2>1, <2>2
<1>5. p.size = f.size + 1
  BY DEF Pushed, Frontier
<1> HIDE DEF p
<1>6. PICK c : IsCarry(c, p, Len(f.roots)) /\ FrontierAppend(f, e) = c[Len(f.roots)]
  BY <1>1, AppendIs DEF p
<1>7. PICK N \in Nat : N = Len(f.roots)
  BY <1>1
<1>8. Merging(c[N], D) /\ c[N].size = p.size /\ Settled(c[N])
  BY <1>4, <1>6, <1>7, CarrySettles
<1> QED BY <1>5, <1>6, <1>7, <1>8 DEF Merging, Covers

-----------------------------------------------------------------------------

\* The fold of FrontierRoot.
IsFold(acc, f) ==
  acc = [i \in DOMAIN f.roots |->
           IF i = Len(f.roots) THEN f.roots[i] ELSE NodeHash(f.roots[i], acc[i + 1])]

\* The root of the leaves from the place o on.
RunFrom(D, s, o) == Roots(D)[s + 1 - o][o]

\* What the fold from the right has at the i-th subtree: the root of it and all to its right.
LEMMA FoldStep ==
  ASSUME NEW T, NEW D \in Seq(T), NEW f, IsFrontier(f), Settled(f),
         NEW off, Cut(f, off), Perfect(f, D, off), NEW i \in 1 .. Len(f.roots)
  PROVE  RunFrom(D, f.size, off[i]) =
           IF i = Len(f.roots) THEN f.roots[i]
           ELSE NodeHash(f.roots[i], RunFrom(D, f.size, off[i + 1]))
<1>1. PICK k \in Nat, s \in Nat : k = Len(f.roots) /\ s = f.size
  BY DEF IsFrontier
<1>2. PerfectAt(f, D, off, i)
  BY ReadPerfect
<1>3. PICK a \in Nat, x \in Nat : a = f.sizes[i] /\ x = off[i]
  BY <1>2 DEF PerfectAt
<1>4. /\ a >= 1 /\ x >= 1 /\ off[i + 1] = x + a /\ x + a <= s + 1
      /\ IsPowerOfTwo(a) /\ f.roots[i] = Roots(D)[a][x]
  BY <1>1, <1>2, <1>3 DEF PerfectAt
<1>5. s <= Len(D) /\ Len(D) \in Nat
  BY <1>1 DEF Perfect
<1>6. CASE i = k
  <2>1. off[k + 1] = s + 1
    BY <1>1 DEF Cut
  <2>2. s + 1 - x = a
    BY <1>4, <1>6, <2>1
  <2> QED BY <1>1, <1>3, <1>4, <1>6, <2>2 DEF RunFrom
<1>7. CASE i # k
  <2>1. i + 1 \in 1 .. k
    BY <1>1, <1>7
  <2>2. PICK b \in Nat : b = f.sizes[i + 1] /\ b >= 1 /\ x + a + b <= s + 1
    <3>1. PerfectAt(f, D, off, i + 1)
      BY <1>1, <2>1, ReadPerfect
    <3>2. f.sizes[i + 1] \in Nat /\ f.sizes[i + 1] >= 1
          /\ x + a + f.sizes[i + 1] <= s + 1
      BY <1>1, <1>4, <3>1 DEF PerfectAt
    <3> QED BY <3>2
  <2>3. s + 1 - (x + a) < a
    <3>1. StrictAt(f, off, i)
      BY SettledIsStrict
    <3> QED BY <1>1, <1>3, <1>4, <3>1 DEF StrictAt
  <2>4. PICK n \in Nat : n = s + 1 - x
    BY <1>4
  <2>5. /\ n \in 1 .. Len(D) /\ x \in 1 .. Len(D) - n + 1 /\ n # 1
        /\ n - a = s + 1 - (x + a) /\ a <= n - 1 /\ n - 1 < 2 * a /\ n - 1 \in Nat
    <3>1. PICK N \in Nat : N = Len(D)
      BY <1>5
    <3>2. s <= N /\ x >= 1 /\ a >= 1 /\ b >= 1 /\ x + a + b <= s + 1 /\ n = s + 1 - x
      BY <1>4, <1>5, <2>2, <2>4, <3>1
    <3>3. n \in 1 .. N /\ x \in 1 .. N - n + 1
      BY <3>2
    <3>4. n # 1 /\ n - a = s + 1 - (x + a) /\ a <= n - 1 /\ n - 1 \in Nat
      BY <3>2
    <3>5. n - 1 < 2 * a
      BY <2>3, <3>2
    <3> QED BY <3>1, <3>3, <3>4, <3>5
  <2>6. LargestPowerOfTwoBelow(n) = a
    BY <1>4, <2>5, TopBitUnique DEF LargestPowerOfTwoBelow, IsPowerOfTwo
  <2>7. Roots(D)[n][x] = NodeHash(Roots(D)[a][x], Roots(D)[n - a][x + a])
    BY <2>5, <2>6, RunRoot
  <2>8. RunFrom(D, s, off[i + 1]) = Roots(D)[n - a][x + a]
    BY <1>4, <2>5 DEF RunFrom
  <2>9. RunFrom(D, s, off[i]) = Roots(D)[n][x]
    BY <1>3, <2>4 DEF RunFrom
  <2> QED BY <1>1, <1>4, <1>7, <2>7, <2>8, <2>9
<1> QED BY <1>6, <1>7

\* The fold's value at the i-th subtree.
FoldAt(acc, D, f, off, i) == acc[i] = RunFrom(D, f.size, off[i])

\* The root of a frontier is the root of the leaves it stands for.
LEMMA CoversRoot ==
  ASSUME NEW T, NEW D \in Seq(T), NEW f, Covers(f, D), f.size > 0
  PROVE  FrontierRoot(f) = Roots(D)[f.size][1]
<1>1. IsFrontier(f) /\ Settled(f)
  BY DEF Covers
<1>2. PICK off : Cut(f, off) /\ Perfect(f, D, off)
  BY DEF Covers
<1>3. PICK k \in Nat, s \in Nat : k = Len(f.roots) /\ s = f.size
  BY <1>1 DEF IsFrontier
<1>4. off[1] = 1 /\ off[k + 1] = s + 1 /\ DOMAIN f.roots = 1 .. k
  BY <1>1, <1>2, <1>3 DEF Cut, IsFrontier
<1>5. k >= 1
  BY <1>3, <1>4
<1> DEFINE g == [i \in 1 .. k |-> RunFrom(D, s, off[i])]
           A == CHOOSE acc : IsFold(acc, f)
<1>6. IsFold(A, f)
  <2> DEFINE v == [i \in 1 .. k |-> IF i = k THEN f.roots[i] ELSE NodeHash(f.roots[i], g[i + 1])]
  <2>1. ASSUME NEW i \in 1 .. k PROVE g[i] = v[i]
    <3>1. g[i] = IF i = k THEN f.roots[i]
                 ELSE NodeHash(f.roots[i], RunFrom(D, s, off[i + 1]))
      BY <1>1, <1>2, <1>3, FoldStep
    <3>2. i # k => i + 1 \in 1 .. k
      BY <1>3
    <3>3. i # k => g[i + 1] = RunFrom(D, s, off[i + 1])
      BY <3>2
    <3> HIDE DEF g
    <3> QED BY <3>1, <3>3
  <2>2. g = v
    BY <2>1
  <2> HIDE DEF g
  <2>3. IsFold(g, f)
    BY <1>3, <1>4, <2>2, Zenon DEF IsFold
  <2> QED BY <2>3
<1> HIDE DEF A, g
<1>7. \A i \in 1 .. k : A[i] = IF i = k THEN f.roots[i] ELSE NodeHash(f.roots[i], A[i + 1])
  BY <1>3, <1>4, <1>6 DEF IsFold
\* Counted from the right.
<1> DEFINE S == {i \in 0 .. k : i = 0 \/ FoldAt(A, D, f, off, k + 1 - i)}
<1>8. 0 \in S
  BY <1>3
<1>9. ASSUME NEW i \in 1 .. k, i - 1 \in S PROVE i \in S
  <2>1. PICK j \in 1 .. k : j = k + 1 - i /\ k + 1 - (i - 1) = j + 1
    <3>1. k + 1 - i \in 1 .. k /\ k + 1 - (i - 1) = (k + 1 - i) + 1
      BY Mirrored
    <3> HIDE DEF S
    <3> QED BY <3>1
  <2>2. RunFrom(D, s, off[j]) =
          IF j = k THEN f.roots[j] ELSE NodeHash(f.roots[j], RunFrom(D, s, off[j + 1]))
    BY <1>1, <1>2, <1>3, FoldStep
  <2>3. j # k => A[j + 1] = RunFrom(D, s, off[j + 1])
    <3>1. j # k => i - 1 # 0
      BY <2>1
    <3>2. i - 1 = 0 \/ FoldAt(A, D, f, off, j + 1)
      BY <1>9, <2>1
    <3> QED BY <1>3, <3>1, <3>2 DEF FoldAt
  <2>4. FoldAt(A, D, f, off, j)
    BY <1>3, <1>7, <2>2, <2>3 DEF FoldAt
  <2>5. i \in 0 .. k
    BY Mirrored
  <2> QED BY <2>1, <2>4, <2>5
<1>10. A[1] = RunFrom(D, s, 1)
  <2>1. 0 .. k \subseteq S
    <3> HIDE DEF S
    <3> QED BY <1>3, <1>8, <1>9, IntervalInduction
  <2>2. k \in 0 .. k /\ k # 0 /\ k + 1 - k = 1
    BY <1>5
  <2>3. k \in S
    <3> HIDE DEF S
    <3> QED BY <2>1, <2>2
  <2>4. FoldAt(A, D, f, off, 1)
    BY <2>2, <2>3
  <2> QED BY <1>3, <1>4, <2>4 DEF FoldAt
<1>11. FrontierRoot(f) = A[1]
  <2>1. f.roots # <<>>
    BY <1>3, <1>5
  <2> QED BY <2>1 DEF FrontierRoot, IsFold, A
<1>12. s + 1 - 1 = s
  OBVIOUS
<1> QED BY <1>3, <1>10, <1>11, <1>12 DEF RunFrom

\* merkle.go:254-287: the frontier of a log recomputes the root of the tree over the entries it
\* has taken in.
LEMMA FrontierIsRoot ==
  ASSUME NEW T, NEW L \in Seq(T), NEW f, Covers(f, LeafHashes(L))
  PROVE  /\ f.size \in 0 .. Len(L)
         /\ FrontierRoot(f) = MerkleRoot(FirstOf(L, f.size))
<1> DEFINE d == LeafHashes(L)
           H == {LeafHash(x) : x \in T}
<1>1. d \in Seq(H) /\ Len(d) = Len(L)
  BY LeafHashesType
<1> HIDE DEF d, H
<1>2. Covers(f, d)
  BY DEF d
<1>3. PICK off : Cut(f, off) /\ Perfect(f, d, off)
  BY <1>2 DEF Covers
<1>4. PICK s \in Nat, k \in Nat : s = f.size /\ k = Len(f.roots) /\ s <= Len(L)
  BY <1>1, <1>2, <1>3 DEF Covers, IsFrontier, Perfect
<1>5. s \in 0 .. Len(L)
  BY <1>4
<1>6. CASE s = 0
  <2>1. k = 0
    <3>1. ASSUME k # 0 PROVE FALSE
      <4>1. 1 \in 1 .. k
        BY <3>1
      <4>2. PerfectAt(f, d, off, 1)
        BY <1>2, <1>3, <1>4, <4>1, ReadPerfect DEF Covers
      <4>3. off[1] = 1 /\ f.sizes[1] >= 1 /\ f.sizes[1] \in Nat
            /\ off[1 + 1] = off[1] + f.sizes[1] /\ off[1 + 1] <= f.size + 1
        BY <1>3, <4>2 DEF PerfectAt, Cut
      <4> QED BY <1>4, <1>6, <4>3
    <3> QED BY <3>1
  <2>2. f.roots = <<>>
    <3>1. PICK A : f.roots \in Seq(A)
      BY <1>2 DEF Covers, IsFrontier
    <3>2. PICK q : q = f.roots
      OBVIOUS
    <3>3. q \in Seq(A) /\ Len(q) = 0
      BY <1>4, <2>1, <3>1, <3>2
    <3>4. q = <<>>
      BY <3>3
    <3> QED BY <3>2, <3>4
  <2>3. FirstOf(L, 0) = <<>>
    BY DEF FirstOf
  <2> QED BY <1>4, <1>5, <1>6, <2>2, <2>3 DEF FrontierRoot, MerkleRoot
<1>7. CASE s # 0
  <2>1. s \in 1 .. Len(L) /\ s \in 1 .. Len(d) /\ s \in Nat \ {0} /\ f.size > 0
    BY <1>1, <1>4, <1>7
  <2>2. FrontierRoot(f) = Roots(d)[s][1]
    BY <1>1, <1>2, <1>4, <2>1, CoversRoot
  <2> DEFINE e == FirstOf(d, s)
  <2>3. e \in Seq(H) /\ Len(e) = s /\ \A i \in 1 .. s : e[i] = d[i]
    BY <1>1, <2>1, FirstNodes
  <2>4. MerkleRoot(FirstOf(L, s)) = Roots(e)[s][1]
    <3>1. MerkleRoot(FirstOf(L, s)) = Mth(e)
      BY <2>1, FirstLeafHashes DEF d
    <3> QED BY <2>3, <3>1 DEF Mth
  <2> HIDE DEF e
  <2>5. SameLeaves(d, e, s, s, 1, 1)
    <3>1. ASSUME NEW t \in 0 .. s - 1 PROVE d[1 + t] = e[1 + t]
      <4>1. 1 + t \in 1 .. s
        OBVIOUS
      <4> QED BY <2>3, <4>1
    <3> QED BY <3>1 DEF SameLeaves
  <2>6. 1 \in 1 .. Len(d) - s + 1 /\ 1 \in 1 .. Len(e) - s + 1
    BY <1>1, <2>1, <2>3
  <2>7. Roots(d)[s][1] = Roots(e)[s][1]
    BY <1>1, <2>1, <2>3, <2>5, <2>6, RootsOfSameLeaves
  <2> QED BY <1>4, <1>5, <2>2, <2>4, <2>7
<1> QED BY <1>6, <1>7

\* A frontier of a log is one of the log that goes on.
LEMMA CoversOfLonger ==
  ASSUME NEW T, NEW L \in Seq(T), NEW x \in T, NEW f, Covers(f, LeafHashes(L))
  PROVE  Covers(f, LeafHashes(Append(L, x)))
<1> DEFINE M == Append(L, x)
           H == {LeafHash(y) : y \in T}
           D == LeafHashes(L)
           E == LeafHashes(M)
<1>1. M \in Seq(T) /\ Len(M) = Len(L) + 1 /\ \A i \in 1 .. Len(L) : M[i] = L[i]
  OBVIOUS
<1> HIDE DEF M
<1>2. D \in Seq(H) /\ Len(D) = Len(L) /\ \A i \in 1 .. Len(L) : D[i] = LeafHash(L[i])
  BY LeafHashesType
<1>3. E \in Seq(H) /\ Len(E) = Len(M) /\ \A i \in 1 .. Len(M) : E[i] = LeafHash(M[i])
  BY <1>1, LeafHashesType
<1>4. f.size \in 0 .. Len(L)
  BY FrontierIsRoot
<1> HIDE DEF D, E, H
<1>5. f.size <= Len(E)
  BY <1>1, <1>3, <1>4
<1>6. ASSUME NEW i \in 1 .. f.size PROVE D[i] = E[i]
  <2>1. i \in 1 .. Len(L) /\ i \in 1 .. Len(M)
    BY <1>1, <1>4
  <2> QED BY <1>1, <1>2, <1>3, <2>1
<1>7. Covers(f, D)
  BY DEF D
<1>8. Covers(f, E)
  BY <1>2, <1>3, <1>5, <1>6, <1>7, CoversOfSame
<1> QED BY <1>8 DEF E, M
=============================================================================
