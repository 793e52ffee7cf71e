--------------------- MODULE ProofOfLiabilities_proofs ----------------------
(***************************************************************************)
(* What an accepted liability proof establishes, for trees of any size and  *)
(* paths of any length: proofs of two different leaves under one root share *)
(* its total, and under the root of a built tree only its own leaves        *)
(* verify.  The second then holds throughout: for any accounts, splits and  *)
(* orders of the leaves, and whatever documents are made of them.           *)
(*                                                                         *)
(* And what an honest operator publishes is accepted: the generated path of *)
(* each leaf verifies in a tree of any shape, a split adds up to the        *)
(* balance whatever the weights, the shuffle moves nothing between          *)
(* accounts, and so each document counts the balance of its reader.         *)
(*                                                                         *)
(* And however many different leaves are shown, and to however many         *)
(* readers, what they hold fits into the published total, up to the         *)
(* rounding of one amount to canonical units per leaf after the first.      *)
(***************************************************************************)
EXTENDS ProofOfLiabilities, IntervalLemmas, FiniteSetTheorems

-----------------------------------------------------------------------------
(* Amounts *)

\* Division with remainder.
LEMMA DivBounds ==
  ASSUME NEW x \in Int, NEW d \in Nat, d > 0
  PROVE  /\ x \div d \in Int
         /\ d * (x \div d) <= x
         /\ x < d * (x \div d) + d
OBVIOUS

\* Amounts that round to the same canonical value are less than one unit apart.
LEMMA SameCanonicalIsClose ==
  ASSUME NEW x \in Nat, NEW y \in Nat, CanonicalAmount(x) = CanonicalAmount(y)
  PROVE  x - y <= SubScale - 1
<1> DEFINE qx == (2 * x + SubScale) \div (2 * SubScale)
           qy == (2 * y + SubScale) \div (2 * SubScale)
           d  == 2 * SubScale
<1>1. SubScale \in Nat /\ SubScale > 0
  BY ScaleAssumption
<1>2. CanonicalAmount(x) = SubScale * qx /\ CanonicalAmount(y) = SubScale * qy
  BY SentinelAssumption DEF CanonicalAmount, RoundQuo
<1>3. qx \in Int /\ d * qx <= 2 * x + SubScale /\ 2 * x + SubScale < d * qx + d
  <2>1. 2 * x + SubScale \in Int /\ d \in Nat /\ d > 0
    BY <1>1
  <2> QED BY <2>1, DivBounds
<1>4. qy \in Int /\ d * qy <= 2 * y + SubScale /\ 2 * y + SubScale < d * qy + d
  <2>1. 2 * y + SubScale \in Int /\ d \in Nat /\ d > 0
    BY <1>1
  <2> QED BY <2>1, DivBounds
<1> HIDE DEF qx, qy
<1>5. d * qx = d * qy
  <2>1. SubScale * qx = SubScale * qy
    BY <1>2
  <2>2. d * qx = 2 * (SubScale * qx) /\ d * qy = 2 * (SubScale * qy)
    BY <1>1, <1>3, <1>4
  <2> QED BY <2>1, <2>2
<1>6. d * qx \in Int /\ d * qy \in Int /\ d \in Int
  BY <1>1, <1>3, <1>4
<1> DEFINE m == d * qx
<1>7. m = d * qy /\ m \in Int
  BY <1>5, <1>6
<1>8. 2 * x + SubScale < m + d /\ m <= 2 * y + SubScale
  BY <1>3, <1>4, <1>7
<1> HIDE DEF m
<1>9. 2 * x - 2 * y < 2 * SubScale
  BY <1>1, <1>7, <1>8
<1> QED BY <1>1, <1>9

-----------------------------------------------------------------------------
(* Walks *)

IsWalk(w, leaf, steps, n) ==
  /\ w = [i \in 0 .. n |-> w[i]]
  /\ w[0] = LeafNode(leaf)
  /\ \A i \in 1 .. n : w[i] = Climbed(w[i - 1], steps[i])

\* The recursion of Walk has a solution.
LEMMA WalkExists ==
  ASSUME NEW leaf, NEW steps, NEW N \in Nat
  PROVE  \E w : IsWalk(w, leaf, steps, N)
<1> DEFINE S == {n \in 0 .. N : \E w : IsWalk(w, leaf, steps, n)}
<1>1. 0 \in S
  <2> DEFINE w == [i \in 0 .. 0 |-> LeafNode(leaf)]
  <2>1. IsWalk(w, leaf, steps, 0)
    BY DEF IsWalk
  <2> QED BY <2>1
<1>2. ASSUME NEW n \in 1 .. N, n - 1 \in S PROVE n \in S
  <2>1. PICK v : IsWalk(v, leaf, steps, n - 1)
    BY <1>2
  <2> DEFINE w == [i \in 0 .. n |-> IF i = n THEN Climbed(v[n - 1], steps[n]) ELSE v[i]]
  <2>2. w = [i \in 0 .. n |-> w[i]]
    OBVIOUS
  <2>3. w[0] = LeafNode(leaf)
    BY <2>1 DEF IsWalk
  <2>4. ASSUME NEW i \in 1 .. n PROVE w[i] = Climbed(w[i - 1], steps[i])
    <3>1. i \in 0 .. n /\ i - 1 \in 0 .. n /\ i - 1 # n
      OBVIOUS
    <3>2. w[i - 1] = v[i - 1]
      BY <3>1
    <3>3. CASE i = n
      BY <3>1, <3>2, <3>3
    <3>4. CASE i # n
      <4>1. i \in 1 .. n - 1 /\ w[i] = v[i]
        BY <3>1, <3>4
      <4>2. v[i] = Climbed(v[i - 1], steps[i])
        BY <2>1, <4>1 DEF IsWalk
      <4> QED BY <3>2, <4>1, <4>2
    <3> QED BY <3>3, <3>4
  <2>5. IsWalk(w, leaf, steps, n)
    <3> HIDE DEF w
    <3> QED BY <2>2, <2>3, <2>4 DEF IsWalk
  <2>6. n \in 0 .. N
    OBVIOUS
  <2> HIDE DEF w
  <2> QED BY <2>5, <2>6
<1>3. N \in S
  <2> HIDE DEF S
  <2>1. N \in 0 .. N
    OBVIOUS
  <2> QED BY <1>1, <1>2, <2>1, IntervalInduction
<1> QED BY <1>3

\* Walk satisfies its recursion.
LEMMA WalkDef ==
  ASSUME NEW leaf, NEW steps, Len(steps) \in Nat
  PROVE  IsWalk(Walk(leaf, steps), leaf, steps, Len(steps))
<1> DEFINE N == Len(steps)
           P(w) == w = [i \in 0 .. N |-> IF i = 0 THEN LeafNode(leaf)
                                         ELSE Climbed(w[i - 1], steps[i])]
<1>1. PICK v : IsWalk(v, leaf, steps, N)
  BY WalkExists
<1>2. P(v)
  <2>1. ASSUME NEW i \in 0 .. N
        PROVE  v[i] = IF i = 0 THEN LeafNode(leaf) ELSE Climbed(v[i - 1], steps[i])
    <3>1. i # 0 => i \in 1 .. N
      OBVIOUS
    <3> QED BY <1>1, <3>1 DEF IsWalk
  <2>2. v = [i \in 0 .. N |-> v[i]]
    BY <1>1 DEF IsWalk
  <2> QED BY <2>1, <2>2
<1>3. Walk(leaf, steps) = CHOOSE w : P(w)
  BY DEF Walk
<1> DEFINE w == Walk(leaf, steps)
<1>4. P(w)
  <2> HIDE DEF P, w
  <2>1. w = CHOOSE u : P(u)
    BY <1>3 DEF w
  <2> QED BY <1>2, <2>1
<1> HIDE DEF w
<1>5. w[0] = LeafNode(leaf)
  BY <1>4
<1>6. ASSUME NEW i \in 1 .. N PROVE w[i] = Climbed(w[i - 1], steps[i])
  <2>1. i \in 0 .. N /\ i # 0
    OBVIOUS
  <2> QED BY <1>4, <2>1
<1>7. w = [i \in 0 .. N |-> w[i]]
  BY <1>4
<1> QED BY <1>5, <1>6, <1>7 DEF IsWalk, w

\* A path as a document decodes to: amounts are whole, hashes are drawn from some set.
Steps(Hashes) == [sum : Int, hash : Hashes, isLeft : BOOLEAN]

ProofSteps(Hashes) == Seq(Steps(Hashes))

\* What is known of one step of a path.
LEMMA StepOfPath ==
  ASSUME NEW Hashes, NEW steps \in ProofSteps(Hashes), NEW i \in 1 .. Len(steps)
  PROVE  i \in DOMAIN steps /\ steps[i].sum \in Int /\ steps[i].isLeft \in BOOLEAN
<1>1. i \in DOMAIN steps /\ steps[i] \in Steps(Hashes)
  BY DEF ProofSteps
<1> QED BY <1>1 DEF Steps

\* On the way up an accepted path no sum is negative and none shrinks.
LEMMA SumsClimb ==
  ASSUME NEW Hashes, NEW leaf, leaf.balance \in Int, NEW steps \in ProofSteps(Hashes),
         NEW root, NEW total, WellFormedProof(leaf, steps, root, total)
  PROVE  \A i \in 0 .. Len(steps) :
           /\ Walk(leaf, steps)[i].sum \in Nat
           /\ leaf.balance <= Walk(leaf, steps)[i].sum
<1> DEFINE N == Len(steps)
           w == Walk(leaf, steps)
           S == {i \in 0 .. N : w[i].sum \in Nat /\ leaf.balance <= w[i].sum}
<1>1. N \in Nat
  BY DEF ProofSteps
<1>2. IsWalk(w, leaf, steps, N)
  BY <1>1, WalkDef
<1> HIDE DEF w
<1>3. 0 \in S
  <2>1. w[0].sum = leaf.balance
    BY <1>2 DEF IsWalk, LeafNode
  <2>2. leaf.balance >= 0
    BY DEF WellFormedProof, LeafOk
  <2> QED BY <1>1, <2>1, <2>2
<1>4. ASSUME NEW i \in 1 .. N, i - 1 \in S PROVE i \in S
  <2>1. i \in 0 .. N
    OBVIOUS
  <2>2. steps[i].sum \in Int /\ steps[i].sum >= 0
    BY StepOfPath DEF WellFormedProof
  <2>3. w[i].sum = w[i - 1].sum + steps[i].sum \/ w[i].sum = steps[i].sum + w[i - 1].sum
    <3>1. w[i] = Climbed(w[i - 1], steps[i])
      BY <1>2 DEF IsWalk
    <3> QED BY <3>1 DEF Climbed, Parent
  <2>4. w[i - 1].sum \in Nat /\ leaf.balance <= w[i - 1].sum
    BY <1>4
  <2>5. w[i].sum \in Nat /\ leaf.balance <= w[i].sum
    BY <2>2, <2>3, <2>4
  <2> QED BY <2>1, <2>5
<1>5. 0 .. N \subseteq S
  <2> HIDE DEF S, N
  <2> QED BY <1>1, <1>3, <1>4, IntervalInduction
<1> QED BY <1>5 DEF w

-----------------------------------------------------------------------------
(* Hashes *)

\* The hash of a node commits to the canonical sums and the hashes of both children.
LEMMA NodeHashTells ==
  ASSUME NEW sumL, NEW hashL, NEW sumR, NEW hashR, NEW sumM, NEW hashM, NEW sumS, NEW hashS,
         LiabilityNodeHash(sumL, hashL, sumR, hashR) = LiabilityNodeHash(sumM, hashM, sumS, hashS)
  PROVE  /\ CanonicalAmount(sumL) = CanonicalAmount(sumM) /\ hashL = hashM
         /\ CanonicalAmount(sumR) = CanonicalAmount(sumS) /\ hashR = hashS
BY DEF LiabilityNodeHash

\* No node can pass for a leaf.
LEMMA NoNodeIsALeaf ==
  ASSUME NEW leaf, NEW sumL, NEW hashL, NEW sumR, NEW hashR
  PROVE  LiabilityLeafHash(leaf) # LiabilityNodeHash(sumL, hashL, sumR, hashR)
BY DEF LiabilityLeafHash, LiabilityNodeHash

-----------------------------------------------------------------------------
(* Two proofs under one root *)

\* No liability hides behind another (sumtree.go:13-23): of two leaves that verify under one
\* root and total, however the tree was built and whatever sums the two proofs declare, the
\* balances fit into the total together, up to the digits below the canonical scale.  Both
\* walks are followed down from the root.  While they agree they see nodes of the same hash;
\* where they part, the one's sibling is the other's own node, so that its sum was counted;
\* and they do part, for a leaf is no node, and the leaves differ.
THEOREM TwoLeavesFit ==
  ASSUME NEW Hashes, NEW root, NEW total \in Int,
         NEW leafA, leafA.balance \in Int, NEW stepsA \in ProofSteps(Hashes),
         NEW leafB, leafB.balance \in Int, NEW stepsB \in ProofSteps(Hashes),
         VerifyLiabilityProof(leafA, stepsA, root, total),
         VerifyLiabilityProof(leafB, stepsB, root, total),
         LiabilityLeafHash(leafA) # LiabilityLeafHash(leafB)
  PROVE  leafA.balance + leafB.balance <= total + SubScale - 1
<1> DEFINE p == Len(stepsA)
           q == Len(stepsB)
           a == Walk(leafA, stepsA)
           b == Walk(leafB, stepsB)
           M == IF p <= q THEN p ELSE q
           S == {j \in 0 .. M : a[p - j].hash = b[q - j].hash /\ a[p - j].sum <= total}
<1>1. p \in Nat /\ q \in Nat /\ M \in Nat /\ M <= p /\ M <= q
  BY DEF ProofSteps
<1>2. IsWalk(a, leafA, stepsA, p) /\ IsWalk(b, leafB, stepsB, q)
  BY <1>1, WalkDef
<1>3. /\ WellFormedProof(leafA, stepsA, root, total)
      /\ WellFormedProof(leafB, stepsB, root, total)
      /\ a[p] = [sum |-> total, hash |-> root]
      /\ b[q] = [sum |-> total, hash |-> root]
  BY DEF VerifyLiabilityProof
<1>4. /\ \A i \in 0 .. p : a[i].sum \in Nat /\ leafA.balance <= a[i].sum
      /\ \A i \in 0 .. q : b[i].sum \in Nat /\ leafB.balance <= b[i].sum
  BY <1>3, SumsClimb
<1>5. SUFFICES ASSUME ~ (leafA.balance + leafB.balance <= total + SubScale - 1)
               PROVE  FALSE
  OBVIOUS
<1>6. SubScale \in Nat
  BY ScaleAssumption
<1> HIDE DEF a, b
<1>7. 0 \in S
  <2>1. a[p - 0] = a[p] /\ b[q - 0] = b[q]
    BY <1>1
  <2> QED BY <1>1, <1>3, <2>1
<1>8. ASSUME NEW j \in 1 .. M, j - 1 \in S PROVE j \in S
  <2> DEFINE i == p - (j - 1)
             k == q - (j - 1)
             sa == stepsA[i]
             sb == stepsB[k]
             u == a[i - 1]
             v == b[k - 1]
  <2>1. /\ j \in 0 .. M /\ p - j = i - 1 /\ q - j = k - 1
        /\ i \in 1 .. p /\ k \in 1 .. q /\ i - 1 \in 0 .. p /\ k - 1 \in 0 .. q
        /\ i \in 0 .. p /\ k \in 0 .. q
    BY <1>1
  <2>2. a[i].hash = b[k].hash /\ a[i].sum <= total
    BY <1>8
  <2>3. a[i] = Climbed(u, sa) /\ b[k] = Climbed(v, sb)
    BY <1>2, <2>1 DEF IsWalk
  <2>4. /\ sa.isLeft \in BOOLEAN /\ sb.isLeft \in BOOLEAN
        /\ sa.sum \in Nat /\ sb.sum \in Nat
    <3>1. i \in DOMAIN stepsA /\ sa.sum \in Int /\ sa.isLeft \in BOOLEAN
      BY <2>1, StepOfPath
    <3>2. k \in DOMAIN stepsB /\ sb.sum \in Int /\ sb.isLeft \in BOOLEAN
      BY <2>1, StepOfPath
    <3>3. sa.sum >= 0 /\ sb.sum >= 0
      BY <1>3, <3>1, <3>2 DEF WellFormedProof
    <3> QED BY <3>1, <3>2, <3>3
  <2>5. /\ u.sum \in Nat /\ leafA.balance <= u.sum
        /\ v.sum \in Nat /\ leafB.balance <= v.sum
    BY <1>4, <2>1
  <2> HIDE DEF u, v, sa, sb, i, k
  <2>6. a[i].sum = u.sum + sa.sum
    <3>1. a[i].sum = u.sum + sa.sum \/ a[i].sum = sa.sum + u.sum
      BY <2>3 DEF Climbed, Parent
    <3> QED BY <2>4, <2>5, <3>1
  <2>7. CASE sa.isLeft = sb.isLeft
    <3>1. u.hash = v.hash
      <4>1. CASE sa.isLeft
        <5>1. LiabilityNodeHash(sa.sum, sa.hash, u.sum, u.hash)
                = LiabilityNodeHash(sb.sum, sb.hash, v.sum, v.hash)
          BY <2>2, <2>3, <2>7, <4>1 DEF Climbed, Parent
        <5> QED BY <5>1, NodeHashTells
      <4>2. CASE ~ sa.isLeft
        <5>1. LiabilityNodeHash(u.sum, u.hash, sa.sum, sa.hash)
                = LiabilityNodeHash(v.sum, v.hash, sb.sum, sb.hash)
          BY <2>2, <2>3, <2>7, <4>2 DEF Climbed, Parent
        <5> QED BY <5>1, NodeHashTells
      <4> QED BY <4>1, <4>2
    <3>2. u.sum <= total
      BY <2>2, <2>4, <2>5, <2>6
    <3>3. a[p - j] = u /\ b[q - j] = v
      BY <2>1 DEF u, v
    <3> QED BY <2>1, <3>1, <3>2, <3>3
  <2>8. CASE sa.isLeft # sb.isLeft
    <3>1. CanonicalAmount(v.sum) = CanonicalAmount(sa.sum)
      <4>1. CASE sa.isLeft
        <5>1. ~ sb.isLeft
          BY <2>4, <2>8, <4>1
        <5>2. LiabilityNodeHash(sa.sum, sa.hash, u.sum, u.hash)
                = LiabilityNodeHash(v.sum, v.hash, sb.sum, sb.hash)
          BY <2>2, <2>3, <4>1, <5>1 DEF Climbed, Parent
        <5> QED BY <5>2, NodeHashTells
      <4>2. CASE ~ sa.isLeft
        <5>1. sb.isLeft
          BY <2>4, <2>8, <4>2
        <5>2. LiabilityNodeHash(u.sum, u.hash, sa.sum, sa.hash)
                = LiabilityNodeHash(sb.sum, sb.hash, v.sum, v.hash)
          BY <2>2, <2>3, <4>2, <5>1 DEF Climbed, Parent
        <5> QED BY <5>2, NodeHashTells
      <4> QED BY <4>1, <4>2
    <3>2. v.sum - sa.sum <= SubScale - 1
      BY <2>4, <2>5, <3>1, SameCanonicalIsClose
    <3>3. u.sum + v.sum <= total + SubScale - 1
      BY <1>6, <2>2, <2>4, <2>5, <2>6, <3>2
    <3> QED BY <1>5, <1>6, <2>5, <3>3
  <2> QED BY <2>7, <2>8
<1>9. M \in S
  <2>1. M \in 0 .. M
    BY <1>1
  <2> HIDE DEF S, M
  <2> QED BY <1>1, <1>7, <1>8, <2>1, IntervalInduction
<1>10. a[p - M].hash = b[q - M].hash
  BY <1>9
<1>11. a[0].hash = LiabilityLeafHash(leafA) /\ b[0].hash = LiabilityLeafHash(leafB)
  BY <1>2 DEF IsWalk, LeafNode
<1>12. CASE p = q
  <2>1. p - M = 0 /\ q - M = 0
    BY <1>1, <1>12
  <2> QED BY <1>10, <1>11, <2>1
<1>13. CASE p < q
  <2>1. p - M = 0 /\ q - M \in 1 .. q
    BY <1>1, <1>13
  <2>2. b[q - M] = Climbed(b[(q - M) - 1], stepsB[q - M])
    BY <1>2, <2>1 DEF IsWalk
  <2>3. b[q - M].hash # LiabilityLeafHash(leafA)
    BY <2>2, NoNodeIsALeaf DEF Climbed, Parent
  <2> QED BY <1>10, <1>11, <2>1, <2>3
<1>14. CASE q < p
  <2>1. q - M = 0 /\ p - M \in 1 .. p
    BY <1>1, <1>14
  <2>2. a[p - M] = Climbed(a[(p - M) - 1], stepsA[p - M])
    BY <1>2, <2>1 DEF IsWalk
  <2>3. a[p - M].hash # LiabilityLeafHash(leafB)
    BY <2>2, NoNodeIsALeaf DEF Climbed, Parent
  <2> QED BY <1>10, <1>11, <2>1, <2>3
<1> QED BY <1>1, <1>12, <1>13, <1>14

-----------------------------------------------------------------------------
(* The built tree *)

\* A function on 1 .. m is a sequence of length m.
LEMMA LenOfFunction ==
  ASSUME NEW m \in Nat, NEW f, f = [i \in 1 .. m |-> f[i]]
  PROVE  Len(f) = m /\ DOMAIN f = 1 .. m
<1> DEFINE T == {f[i] : i \in 1 .. m}
<1>1. f \in [1 .. m -> T]
  OBVIOUS
<1>2. f \in Seq(T)
  BY <1>1
<1>3. DOMAIN f = 1 .. m
  BY <1>1
<1> HIDE DEF T
<1>4. Len(f) \in Nat /\ DOMAIN f = 1 .. Len(f)
  BY <1>2
<1>5. Len(f) = m
  <2>1. 1 .. m = 1 .. Len(f)
    BY <1>3, <1>4
  <2>2. m <= Len(f)
    BY <1>4, <2>1
  <2>3. Len(f) <= m
    BY <1>4, <2>1
  <2> QED BY <1>4, <2>2, <2>3
<1> QED BY <1>3, <1>5

IsLevels(level, ls, n) ==
  /\ level = [d \in 0 .. n |-> level[d]]
  /\ level[0] = LeafLevel(ls)
  /\ \A d \in 1 .. n : level[d] = NextLevel(level[d - 1])

\* The recursion of LevelsOver has a solution.
LEMMA LevelsExist ==
  ASSUME NEW ls, NEW N \in Nat
  PROVE  \E level : IsLevels(level, ls, N)
<1> DEFINE S == {n \in 0 .. N : \E level : IsLevels(level, ls, n)}
<1>1. 0 \in S
  <2> DEFINE level == [d \in 0 .. 0 |-> LeafLevel(ls)]
  <2>1. IsLevels(level, ls, 0)
    BY DEF IsLevels
  <2> QED BY <2>1
<1>2. ASSUME NEW n \in 1 .. N, n - 1 \in S PROVE n \in S
  <2>1. PICK v : IsLevels(v, ls, n - 1)
    BY <1>2
  <2> DEFINE w == [d \in 0 .. n |-> IF d = n THEN NextLevel(v[n - 1]) ELSE v[d]]
  <2>2. w = [d \in 0 .. n |-> w[d]]
    OBVIOUS
  <2>3. w[0] = LeafLevel(ls)
    BY <2>1 DEF IsLevels
  <2>4. ASSUME NEW d \in 1 .. n PROVE w[d] = NextLevel(w[d - 1])
    <3>1. d \in 0 .. n /\ d - 1 \in 0 .. n /\ d - 1 # n
      OBVIOUS
    <3>2. w[d - 1] = v[d - 1]
      BY <3>1
    <3>3. CASE d = n
      BY <3>1, <3>2, <3>3
    <3>4. CASE d # n
      <4>1. d \in 1 .. n - 1 /\ w[d] = v[d]
        BY <3>1, <3>4
      <4>2. v[d] = NextLevel(v[d - 1])
        BY <2>1, <4>1 DEF IsLevels
      <4> QED BY <3>2, <4>1, <4>2
    <3> QED BY <3>3, <3>4
  <2>5. IsLevels(w, ls, n)
    <3> HIDE DEF w
    <3> QED BY <2>2, <2>3, <2>4 DEF IsLevels
  <2>6. n \in 0 .. N
    OBVIOUS
  <2> HIDE DEF w
  <2> QED BY <2>5, <2>6
<1>3. N \in S
  <2> HIDE DEF S
  <2>1. N \in 0 .. N
    OBVIOUS
  <2> QED BY <1>1, <1>2, <2>1, IntervalInduction
<1> QED BY <1>3

\* LevelsOver satisfies its recursion.
LEMMA LevelsDef ==
  ASSUME NEW ls, Len(ls) \in Nat
  PROVE  IsLevels(LevelsOver(ls), ls, Len(ls))
<1> DEFINE N == Len(ls)
           P(w) == w = [d \in 0 .. N |-> IF d = 0 THEN LeafLevel(ls)
                                         ELSE NextLevel(w[d - 1])]
<1>1. PICK v : IsLevels(v, ls, N)
  BY LevelsExist
<1>2. P(v)
  <2>1. ASSUME NEW d \in 0 .. N
        PROVE  v[d] = IF d = 0 THEN LeafLevel(ls) ELSE NextLevel(v[d - 1])
    <3>1. d # 0 => d \in 1 .. N
      OBVIOUS
    <3> QED BY <1>1, <3>1 DEF IsLevels
  <2>2. v = [d \in 0 .. N |-> v[d]]
    BY <1>1 DEF IsLevels
  <2> QED BY <2>1, <2>2
<1>3. LevelsOver(ls) = CHOOSE w : P(w)
  BY DEF LevelsOver
<1> DEFINE w == LevelsOver(ls)
<1>4. P(w)
  <2> HIDE DEF P, w
  <2>1. w = CHOOSE u : P(u)
    BY <1>3 DEF w
  <2> QED BY <1>2, <2>1
<1> HIDE DEF w
<1>5. w[0] = LeafLevel(ls)
  BY <1>4
<1>6. ASSUME NEW d \in 1 .. N PROVE w[d] = NextLevel(w[d - 1])
  <2>1. d \in 0 .. N /\ d # 0
    OBVIOUS
  <2> QED BY <1>4, <2>1
<1>7. w = [d \in 0 .. N |-> w[d]]
  BY <1>4
<1> QED BY <1>5, <1>6, <1>7 DEF IsLevels, w

\* Pairing halves a level, rounded up.
LEMMA HalvedLevel ==
  ASSUME NEW level, Len(level) \in Nat
  PROVE  /\ Len(NextLevel(level)) = (Len(level) + 1) \div 2
         /\ DOMAIN NextLevel(level) = 1 .. (Len(level) + 1) \div 2
<1> DEFINE m == (Len(level) + 1) \div 2
           f == NextLevel(level)
<1>1. m \in Nat
  OBVIOUS
<1>2. f = [i \in 1 .. m |-> f[i]]
  BY DEF NextLevel
<1> HIDE DEF m, f
<1> QED BY <1>1, <1>2, LenOfFunction DEF m, f

\* The k-th pair of m nodes starts at a node.
LEMMA PairInLevel ==
  ASSUME NEW m \in Nat, NEW k \in 1 .. (m + 1) \div 2
  PROVE  2 * k - 1 \in 1 .. m
<1>1. 2 * ((m + 1) \div 2) <= m + 1
  OBVIOUS
<1>2. k \in Int /\ k >= 1 /\ (m + 1) \div 2 \in Int /\ k <= (m + 1) \div 2
  OBVIOUS
<1> QED BY <1>1, <1>2

\* Every level has nodes, and pairing goes on until one is left.
LEMMA LevelsShrink ==
  ASSUME NEW Leaves, NEW ls \in Seq(Leaves), ls # <<>>
  PROVE  LET level == LevelsOver(ls)
         IN  /\ \A d \in 0 .. Len(ls) : Len(level[d]) \in Nat /\ Len(level[d]) >= 1
             /\ DOMAIN level[0] = DOMAIN ls
             /\ Depth(level) \in 0 .. Len(ls)
             /\ Len(level[Depth(level)]) = 1
<1> DEFINE n == Len(ls)
           level == LevelsOver(ls)
           S == {d \in 0 .. n : /\ Len(level[d]) \in Nat
                                /\ Len(level[d]) >= 1
                                /\ Len(level[d]) = 1 \/ Len(level[d]) <= n - d}
<1>1. n \in Nat /\ n >= 1 /\ DOMAIN ls = 1 .. n
  OBVIOUS
<1>2. IsLevels(level, ls, n)
  BY <1>1, LevelsDef
<1> HIDE DEF level, n
<1>3. Len(level[0]) = n /\ DOMAIN level[0] = 1 .. n
  <2> DEFINE f == level[0]
  <2>1. f = [i \in 1 .. n |-> LeafNode(ls[i])]
    BY <1>1, <1>2 DEF IsLevels, LeafLevel
  <2>2. f = [i \in 1 .. n |-> f[i]]
    BY <2>1
  <2> HIDE DEF f
  <2> QED BY <1>1, <2>2, LenOfFunction DEF f
<1>4. 0 \in S
  BY <1>1, <1>3
<1>5. ASSUME NEW d \in 1 .. n, d - 1 \in S PROVE d \in S
  <2> DEFINE m == Len(level[d - 1])
  <2>1. m \in Nat /\ m >= 1 /\ (m = 1 \/ m <= n - (d - 1))
    BY <1>5
  <2>2. level[d] = NextLevel(level[d - 1])
    BY <1>2 DEF IsLevels
  <2>3. Len(level[d]) = (m + 1) \div 2
    BY <2>1, <2>2, HalvedLevel
  <2> HIDE DEF m
  <2>4. /\ (m + 1) \div 2 \in Nat /\ (m + 1) \div 2 >= 1
        /\ (m + 1) \div 2 = 1 \/ (m + 1) \div 2 <= n - d
    BY <1>1, <2>1
  <2>5. d \in 0 .. n
    BY <1>1
  <2> QED BY <2>3, <2>4, <2>5
<1>6. 0 .. n \subseteq S
  <2> HIDE DEF S
  <2> QED BY <1>1, <1>4, <1>5, IntervalInduction
<1>7. Len(level[n]) = 1
  <2>1. n \in S
    BY <1>1, <1>6
  <2> QED BY <1>1, <2>1
<1> DEFINE D == {d \in DOMAIN level : Len(level[d]) = 1}
<1>8. DOMAIN level = 0 .. n
  BY <1>2 DEF IsLevels
<1>9. Depth(level) \in D
  <2>1. D # {} /\ D \subseteq Nat
    BY <1>1, <1>7, <1>8
  <2>2. Depth(level) = CHOOSE x \in D : \A y \in D : x <= y
    BY DEF Depth, Min
  <2> HIDE DEF D
  <2> QED BY <2>1, <2>2, Least
<1> QED BY <1>1, <1>3, <1>6, <1>8, <1>9 DEF level, n

\* The root of a built tree is the only node of the highest of its levels.
LEMMA RootOfBuilt ==
  ASSUME NEW Leaves, NEW ls \in Seq(Leaves), ls # <<>>
  PROVE  RootHash(BuildLiabilityTree(ls))
           = LevelsOver(ls)[Depth(LevelsOver(ls))][1].hash
<1> DEFINE level == LevelsOver(ls)
           m == Depth(level) + 1
           tree == BuildLiabilityTree(ls)
<1>1. m \in Nat /\ m >= 1
  BY LevelsShrink
<1>2. tree = [d \in 1 .. m |-> level[d - 1]]
  BY DEF BuildLiabilityTree
<1>3. tree = [d \in 1 .. m |-> tree[d]]
  BY <1>2
<1> HIDE DEF tree
<1>4. Len(tree) = m
  BY <1>1, <1>3, LenOfFunction
<1>5. tree[m] = level[m - 1]
  BY <1>1, <1>2
<1>6. m - 1 = Depth(level)
  BY LevelsShrink
<1> QED BY <1>4, <1>5, <1>6 DEF RootHash, Last, tree

\* Every accepted leaf is counted (sumtree.go:268-270): under the root of a built tree only the
\* tree's own leaves verify, whatever path, sums and total a proof declares.  The walk is
\* followed down from the root: a node that was promoted is the same one level below, and the
\* hash of a pair leaves the walk only its two nodes to have come from.
THEOREM OnlyCommittedLeaves ==
  ASSUME NEW Leaves, NEW ls \in Seq(Leaves), ls # <<>>,
         NEW leaf, NEW steps, Len(steps) \in Nat, NEW total,
         VerifyLiabilityProof(leaf, steps, RootHash(BuildLiabilityTree(ls)), total)
  PROVE  \E k \in DOMAIN ls : LiabilityLeafHash(leaf) = LiabilityLeafHash(ls[k])
<1> DEFINE N == Len(steps)
           n == Len(ls)
           w == Walk(leaf, steps)
           level == LevelsOver(ls)
           D == Depth(level)
           S == {j \in 0 .. D : \E i \in 0 .. N : \E k \in 1 .. Len(level[D - j]) :
                                  w[i].hash = level[D - j][k].hash}
<1>1. IsWalk(w, leaf, steps, N)
  BY WalkDef
<1>2. n \in Nat /\ DOMAIN ls = 1 .. n
  OBVIOUS
<1>3. IsLevels(level, ls, n)
  BY <1>2, LevelsDef
<1>4. /\ \A d \in 0 .. n : Len(level[d]) \in Nat /\ Len(level[d]) >= 1
      /\ D \in 0 .. n
      /\ Len(level[D]) = 1
  BY LevelsShrink
<1>5. w[N].hash = level[D][1].hash
  BY RootOfBuilt DEF VerifyLiabilityProof
<1> HIDE DEF w, level, D
<1>6. 0 \in S
  <2>1. D - 0 = D /\ 0 \in 0 .. D /\ N \in 0 .. N /\ 1 \in 1 .. Len(level[D])
    BY <1>2, <1>4
  <2> QED BY <1>5, <2>1
<1>7. ASSUME NEW j \in 1 .. D, j - 1 \in S PROVE j \in S
  <2> DEFINE lower == level[D - j]
             m == Len(lower)
  <2>1. /\ D - (j - 1) \in 1 .. n /\ (D - (j - 1)) - 1 = D - j
        /\ D - j \in 0 .. n /\ j \in 0 .. D
    BY <1>2, <1>4
  <2>2. level[D - (j - 1)] = NextLevel(lower)
    BY <1>3, <2>1 DEF IsLevels
  <2>3. m \in Nat /\ m >= 1
    BY <1>4, <2>1
  <2>4. PICK i \in 0 .. N, k \in 1 .. Len(NextLevel(lower)) :
          w[i].hash = NextLevel(lower)[k].hash
    BY <1>7, <2>2
  <2>5. k \in 1 .. (m + 1) \div 2
    BY <2>3, <2>4, HalvedLevel
  <2>6. \E ii \in 0 .. N : \E kk \in 1 .. m : w[ii].hash = lower[kk].hash
    <3>1. CASE 2 * k > m
      <4>1. NextLevel(lower)[k] = lower[2 * k - 1]
        BY <2>5, <3>1 DEF NextLevel
      <4>2. 2 * k - 1 \in 1 .. m
        BY <2>3, <2>5, PairInLevel
      <4> QED BY <2>4, <4>1, <4>2
    <3>2. CASE ~ (2 * k > m)
      <4> DEFINE l == lower[2 * k - 1]
                 r == lower[2 * k]
      <4>1. NextLevel(lower)[k] = Parent(l, r)
        BY <2>5, <3>2 DEF NextLevel
      <4>2. w[i].hash = LiabilityNodeHash(l.sum, l.hash, r.sum, r.hash)
        BY <2>4, <4>1 DEF Parent
      <4>3. i # 0
        <5>1. w[0].hash = LiabilityLeafHash(leaf)
          BY <1>1 DEF IsWalk, LeafNode
        <5> QED BY <4>2, <5>1, NoNodeIsALeaf
      <4>4. i \in 1 .. N /\ i - 1 \in 0 .. N
        BY <4>3
      <4>5. w[i] = Climbed(w[i - 1], steps[i])
        BY <1>1, <4>4 DEF IsWalk
      <4> HIDE DEF l, r
      <4>6. w[i - 1].hash = l.hash \/ w[i - 1].hash = r.hash
        <5> DEFINE u == w[i - 1]
                   s == steps[i]
        <5>1. CASE s.isLeft
          <6>1. LiabilityNodeHash(s.sum, s.hash, u.sum, u.hash)
                  = LiabilityNodeHash(l.sum, l.hash, r.sum, r.hash)
            BY <4>2, <4>5, <5>1 DEF Climbed, Parent
          <6> QED BY <6>1, NodeHashTells
        <5>2. CASE ~ s.isLeft
          <6>1. LiabilityNodeHash(u.sum, u.hash, s.sum, s.hash)
                  = LiabilityNodeHash(l.sum, l.hash, r.sum, r.hash)
            BY <4>2, <4>5, <5>2 DEF Climbed, Parent
          <6> QED BY <6>1, NodeHashTells
        <5> QED BY <5>1, <5>2
      <4>7. 2 * k - 1 \in 1 .. m /\ 2 * k \in 1 .. m
        BY <2>3, <2>5, <3>2
      <4> QED BY <4>4, <4>6, <4>7 DEF l, r
    <3> QED BY <3>1, <3>2
  <2> QED BY <2>1, <2>6
<1>8. D \in S
  <2>1. D \in Nat /\ D \in 0 .. D
    BY <1>2, <1>4
  <2> HIDE DEF S
  <2> QED BY <1>6, <1>7, <2>1, IntervalInduction
<1>9. PICK i \in 0 .. N, k \in 1 .. Len(level[0]) : w[i].hash = level[0][k].hash
  <2>1. D - D = 0
    BY <1>4
  <2> QED BY <1>8, <2>1
<1>10. level[0] = [x \in 1 .. n |-> LeafNode(ls[x])]
  BY <1>2, <1>3 DEF IsLevels, LeafLevel
<1>11. Len(level[0]) = n
  <2> DEFINE f == level[0]
  <2>1. f = [x \in 1 .. n |-> f[x]]
    BY <1>10
  <2> HIDE DEF f
  <2> QED BY <1>2, <2>1, LenOfFunction DEF f
<1>12. k \in DOMAIN ls /\ w[i].hash = LiabilityLeafHash(ls[k])
  BY <1>2, <1>9, <1>10, <1>11 DEF LeafNode
<1>13. i = 0
  <2>1. ASSUME i # 0 PROVE FALSE
    <3>1. i \in 1 .. N
      BY <2>1
    <3>2. w[i] = Climbed(w[i - 1], steps[i])
      BY <1>1, <3>1 DEF IsWalk
    <3> QED BY <1>12, <3>2, NoNodeIsALeaf DEF Climbed, Parent
  <2> QED BY <2>1
<1>14. w[0].hash = LiabilityLeafHash(leaf)
  BY <1>1 DEF IsWalk, LeafNode
<1> QED BY <1>12, <1>13, <1>14

-----------------------------------------------------------------------------
(* Sequences of whatever elements *)

IsSeq(s) == Len(s) \in Nat /\ s = [i \in 1 .. Len(s) |-> s[i]]

\* What belongs to some Seq is a sequence.
LEMMA SeqIsSeq ==
  ASSUME NEW T, NEW s \in Seq(T)
  PROVE  IsSeq(s)
BY DEF IsSeq

\* A sequence is one over the set of its elements.
LEMMA IsSeqTyped ==
  ASSUME NEW s, IsSeq(s)
  PROVE  s \in Seq({s[i] : i \in 1 .. Len(s)})
<1> DEFINE T == {s[i] : i \in 1 .. Len(s)}
           m == Len(s)
<1>1. m \in Nat /\ s = [i \in 1 .. m |-> s[i]]
  BY DEF IsSeq
<1>2. \A i \in 1 .. m : s[i] \in T
  OBVIOUS
<1> HIDE DEF T, m
<1>3. s \in [1 .. m -> T]
  BY <1>1, <1>2
<1>4. s \in Seq(T)
  BY <1>1, <1>3
<1> QED BY <1>4 DEF T, m

\* A function on 1 .. m is a sequence.
LEMMA FunctionIsSeq ==
  ASSUME NEW m \in Nat, NEW f, f = [i \in 1 .. m |-> f[i]]
  PROVE  IsSeq(f) /\ Len(f) = m
BY LenOfFunction DEF IsSeq

\* Concatenation makes a sequence.
LEMMA ConcatIsSeq ==
  ASSUME NEW s, NEW t, IsSeq(s), IsSeq(t)
  PROVE  IsSeq(s \o t) /\ Len(s \o t) = Len(s) + Len(t)
<1> DEFINE A == {s[i] : i \in 1 .. Len(s)}
           B == {t[i] : i \in 1 .. Len(t)}
<1>1. s \in Seq(A) /\ t \in Seq(B)
  BY IsSeqTyped
<1> HIDE DEF A, B
<1>2. s \in Seq(A \cup B) /\ t \in Seq(A \cup B)
  BY <1>1
<1>3. s \o t \in Seq(A \cup B) /\ Len(s \o t) = Len(s) + Len(t)
  BY <1>2
<1> QED BY <1>3, SeqIsSeq

\* Append makes a sequence.
LEMMA AppendIsSeq ==
  ASSUME NEW s, NEW e, IsSeq(s)
  PROVE  IsSeq(Append(s, e)) /\ Len(Append(s, e)) = Len(s) + 1
<1> DEFINE A == {s[i] : i \in 1 .. Len(s)}
<1>1. s \in Seq(A)
  BY IsSeqTyped
<1> HIDE DEF A
<1>2. s \in Seq(A \cup {e}) /\ e \in A \cup {e}
  BY <1>1
<1>3. Append(s, e) \in Seq(A \cup {e}) /\ Len(Append(s, e)) = Len(s) + 1
  BY <1>2
<1> QED BY <1>3, SeqIsSeq

\* Removing an element leaves a sequence.
LEMMA RemoveAtIsSeq ==
  ASSUME NEW s, IsSeq(s), NEW i \in DOMAIN s
  PROVE  IsSeq(RemoveAt(s, i))
<1> DEFINE A == {s[j] : j \in 1 .. Len(s)}
           n == Len(s)
<1>1. s \in Seq(A)
  BY IsSeqTyped
<1>2. n \in Nat /\ i \in 1 .. n
  <2>1. DOMAIN s = 1 .. n
    BY <1>1
  <2> QED BY <1>1, <2>1
<1> HIDE DEF A, n
<1>3. SubSeq(s, 1, i - 1) \in Seq(A)
  BY <1>1, <1>2 DEF n
<1>4. SubSeq(s, i + 1, n) \in Seq(A)
  BY <1>1, <1>2 DEF n
<1>5. IsSeq(SubSeq(s, 1, i - 1)) /\ IsSeq(SubSeq(s, i + 1, n))
  BY <1>3, <1>4, SeqIsSeq
<1> QED BY <1>5, ConcatIsSeq DEF RemoveAt, n

\* The empty sequence is one, and adds nothing in front.
LEMMA EmptyIsSeq ==
  ASSUME NEW s, IsSeq(s)
  PROVE  IsSeq(<<>>) /\ Len(<<>>) = 0 /\ <<>> \o s = s
<1>1. IsSeq(<<>>) /\ Len(<<>>) = 0
  BY DEF IsSeq
<1>2. <<>> \o s = s
  <2> DEFINE A == {s[i] : i \in 1 .. Len(s)}
  <2>1. s \in Seq(A)
    BY IsSeqTyped
  <2> HIDE DEF A
  <2> QED BY <2>1
<1> QED BY <1>1, <1>2

\* Flattening appends one sequence after the other.
LEMMA FlattenSteps ==
  ASSUME NEW m \in Nat, NEW ss, ss = [d \in 1 .. m |-> ss[d]],
         \A d \in 1 .. m : IsSeq(ss[d])
  PROVE  \E f : /\ f[0] = <<>> /\ f[m] = FlattenSeq(ss)
                /\ \A d \in 0 .. m : IsSeq(f[d])
                /\ \A d \in 1 .. m : f[d] = f[d - 1] \o ss[d]
<1>1. Len(ss) = m /\ IsSeq(ss)
  BY FunctionIsSeq
<1>2. CASE m = 0
  <2> DEFINE f == [d \in 0 .. 0 |-> <<>>]
  <2>1. ss = <<>>
    BY <1>1, <1>2 DEF IsSeq
  <2>2. FlattenSeq(ss) = <<>>
    BY <1>1, <1>2, <2>1 DEF FlattenSeq
  <2>3. f[0] = <<>> /\ IsSeq(<<>>) /\ 1 .. 0 = {} /\ 0 .. 0 = {0}
    BY DEF IsSeq
  <2> HIDE DEF f
  <2>4. /\ f[m] = FlattenSeq(ss) /\ \A d \in 0 .. m : IsSeq(f[d])
        /\ \A d \in 1 .. m : f[d] = f[d - 1] \o ss[d]
    BY <1>2, <2>2, <2>3
  <2> QED BY <2>3, <2>4
<1>3. CASE m > 0
  <2> DEFINE P(f) == f = [i \in 1 .. m |-> IF i = 1 THEN ss[i] ELSE f[i - 1] \o ss[i]]
             Flat(n, f) == /\ f = [i \in 1 .. n |-> f[i]]
                           /\ \A i \in 1 .. n :
                                f[i] = IF i = 1 THEN ss[i] ELSE f[i - 1] \o ss[i]
             S == {n \in 0 .. m : \E f : Flat(n, f)}
  <2>1. 0 \in S
    <3> DEFINE f == [i \in 1 .. 0 |-> i]
    <3>1. Flat(0, f)
      OBVIOUS
    <3>2. 0 \in 0 .. m
      OBVIOUS
    <3> HIDE DEF f, Flat
    <3> QED BY <3>1, <3>2
  <2>2. ASSUME NEW n \in 1 .. m, n - 1 \in S PROVE n \in S
    <3>1. PICK v : Flat(n - 1, v)
      BY <2>2
    <3> DEFINE f == [i \in 1 .. n |-> IF i = n THEN (IF n = 1 THEN ss[n] ELSE v[n - 1] \o ss[n])
                                      ELSE v[i]]
    <3>2. f = [i \in 1 .. n |-> f[i]]
      OBVIOUS
    <3>3. ASSUME NEW i \in 1 .. n
          PROVE  f[i] = IF i = 1 THEN ss[i] ELSE f[i - 1] \o ss[i]
      <4>1. i # 1 => i - 1 \in 1 .. n /\ i - 1 # n
        OBVIOUS
      <4>2. i # 1 => f[i - 1] = v[i - 1]
        BY <4>1
      <4>3. CASE i = n
        BY <4>2, <4>3
      <4>4. CASE i # n
        <5>1. i \in 1 .. n - 1
          BY <4>4
        <5>2. v[i] = IF i = 1 THEN ss[i] ELSE v[i - 1] \o ss[i]
          BY <3>1, <5>1
        <5> QED BY <4>2, <4>4, <5>2
      <4> QED BY <4>3, <4>4
    <3>4. Flat(n, f)
      <4> HIDE DEF f
      <4> QED BY <3>2, <3>3
    <3>5. n \in 0 .. m
      OBVIOUS
    <3> HIDE DEF f, Flat
    <3> QED BY <3>4, <3>5
  <2>3. m \in S
    <3>1. m \in 0 .. m
      OBVIOUS
    <3> HIDE DEF S
    <3> QED BY <2>1, <2>2, <3>1, IntervalInduction
  <2>4. PICK g : Flat(m, g)
    BY <2>3
  <2>5. P(g)
    BY <2>4
  <2> DEFINE f == CHOOSE h : P(h)
  <2>6. P(f)
    <3> HIDE DEF P
    <3> QED BY <2>5
  <2>7. FlattenSeq(ss) = f[m]
    BY <1>1, <1>3 DEF FlattenSeq
  <2> HIDE DEF f
  <2> DEFINE F == [d \in 0 .. m |-> IF d = 0 THEN <<>> ELSE f[d]]
             R == {i \in 0 .. m : IsSeq(F[i])}
  <2>8. F[0] = <<>> /\ F[m] = FlattenSeq(ss)
    BY <1>3, <2>7
  <2>9. ASSUME NEW i \in 1 .. m PROVE F[i] = F[i - 1] \o ss[i]
    <3>1. F[i] = f[i] /\ F[i - 1] = IF i = 1 THEN <<>> ELSE f[i - 1]
      OBVIOUS
    <3>2. f[i] = IF i = 1 THEN ss[i] ELSE f[i - 1] \o ss[i]
      BY <2>6
    <3>3. <<>> \o ss[i] = ss[i]
      BY EmptyIsSeq
    <3> HIDE DEF F
    <3>4. CASE i = 1
      BY <3>1, <3>2, <3>3, <3>4
    <3>5. CASE i # 1
      BY <3>1, <3>2, <3>5
    <3> QED BY <3>4, <3>5
  <2> HIDE DEF F
  <2>10. 0 \in R
    BY <2>8 DEF IsSeq
  <2>11. ASSUME NEW i \in 1 .. m, i - 1 \in R PROVE i \in R
    <3>1. IsSeq(F[i - 1]) /\ IsSeq(ss[i])
      BY <2>11
    <3>2. IsSeq(F[i])
      BY <2>9, <3>1, ConcatIsSeq
    <3> QED BY <3>2
  <2>12. 0 .. m \subseteq R
    <3> HIDE DEF R
    <3> QED BY <2>10, <2>11, IntervalInduction
  <2>13. \A d \in 0 .. m : IsSeq(F[d])
    BY <2>12
  <2> HIDE DEF P, R, S, Flat
  <2>14. /\ F[0] = <<>> /\ F[m] = FlattenSeq(ss) /\ \A d \in 0 .. m : IsSeq(F[d])
         /\ \A d \in 1 .. m : F[d] = F[d - 1] \o ss[d]
    BY <2>8, <2>9, <2>13
  <2> QED BY <2>14
<1>4. m = 0 \/ m > 0
  OBVIOUS
<1> QED BY <1>2, <1>3, <1>4, Zenon

\* Flattening a sequence of sequences gives a sequence.
LEMMA FlattenIsSeq ==
  ASSUME NEW m \in Nat, NEW ss, ss = [d \in 1 .. m |-> ss[d]],
         \A d \in 1 .. m : IsSeq(ss[d])
  PROVE  IsSeq(FlattenSeq(ss))
<1>1. m \in 0 .. m
  OBVIOUS
<1> QED BY <1>1, FlattenSteps

-----------------------------------------------------------------------------
(* Documents *)

\* The leaves as published: a list that is not empty.
LeavesOk == IsSeq(leaves) /\ leaves # <<>>

\* The leaves are a sequence over some set.
LEMMA LeavesTyped ==
  ASSUME LeavesOk
  PROVE  \E T : leaves \in Seq(T)
<1> DEFINE T == {leaves[i] : i \in 1 .. Len(leaves)}
<1>1. leaves \in Seq(T)
  BY IsSeqTyped DEF LeavesOk
<1> QED BY <1>1

\* What is served of a built tree has a path of some length.
LEMMA ServedIsSeq ==
  ASSUME LeavesOk, levels = BuildLiabilityTree(leaves), NEW i
  PROVE  IsSeq(Served(i).proof)
<1>1. PICK T : leaves \in Seq(T)
  BY LeavesTyped
<1> DEFINE m == Len(levels) - 1
           index == i - 1
           ss == [d \in 1 .. m |-> SiblingStep(levels[d], Positions(index, m)[d - 1])]
           steps == ProofFor(levels, index)
<1>2. m \in Nat
  <2>1. Depth(LevelsOver(leaves)) \in Nat
    BY <1>1, LevelsShrink DEF LeavesOk
  <2> DEFINE D == Depth(LevelsOver(leaves)) + 1
  <2>2. levels = [d \in 1 .. D |-> LevelsOver(leaves)[d - 1]]
    BY DEF BuildLiabilityTree
  <2>3. levels = [d \in 1 .. D |-> levels[d]]
    BY <2>2
  <2>4. D \in Nat /\ D >= 1
    BY <2>1
  <2> HIDE DEF D
  <2>5. Len(levels) = D
    BY <2>3, <2>4, FunctionIsSeq
  <2> QED BY <2>4, <2>5
<1>3. \A d \in 1 .. m : IsSeq(ss[d])
  <2>1. ASSUME NEW level, NEW pos PROVE IsSeq(SiblingStep(level, pos))
    <3>1. IsSeq(<<>>) /\ \A x : IsSeq(<<x>>)
      BY DEF IsSeq
    <3> QED BY <3>1 DEF SiblingStep
  <2> QED BY <2>1
<1>4. ss = [d \in 1 .. m |-> ss[d]]
  OBVIOUS
<1>5. steps = FlattenSeq(ss)
  BY DEF ProofFor
<1> HIDE DEF ss, m
<1>6. IsSeq(steps)
  BY <1>2, <1>3, <1>4, <1>5, FlattenIsSeq
<1> DEFINE f == Served(i).proof
<1>7. f = [j \in DOMAIN steps |-> [steps[j] EXCEPT !.sum = CanonicalAmount(@)]]
  BY DEF Served, NewLiabilityWireLeaf
<1> HIDE DEF steps, f
<1>8. DOMAIN steps = 1 .. Len(steps) /\ Len(steps) \in Nat
  BY <1>6 DEF IsSeq
<1>9. f = [j \in 1 .. Len(steps) |-> f[j]]
  BY <1>7, <1>8
<1>10. IsSeq(f)
  BY <1>8, <1>9, FunctionIsSeq
<1> QED BY <1>10 DEF f

\* And so has whatever a server makes of it.
LEMMA WiresAreSeqs ==
  ASSUME LeavesOk, levels = BuildLiabilityTree(leaves), NEW wire \in Wires
  PROVE  IsSeq(wire.proof)
<1>1. PICK i \in DOMAIN leaves :
        \/ wire = Served(i)
        \/ wire \in Redeclared(Served(i))
        \/ wire \in Altered(Served(i))
  BY DEF Wires
<1> DEFINE own0 == Served(i)
<1>2. IsSeq(own0.proof)
  BY ServedIsSeq
<1>3. own0 = [leaf |-> own0.leaf, proof |-> own0.proof]
  BY DEF Served, NewLiabilityWireLeaf
<1> HIDE DEF own0
<1>4. CASE wire = own0
  BY <1>2, <1>4
<1>5. CASE wire \in Redeclared(own0)
  <2> DEFINE n == Len(own0.proof)
             b == wire.proof
             sums == [j \in 1 .. n - 1 |-> own0.proof[j].sum]
             lies == {sums} \cup {[sums EXCEPT ![j] = s] : j \in 1 .. n - 1, s \in Sums}
             path(c, ss) == [j \in 1 .. n |-> [own0.proof[j] EXCEPT !.sum =
                               IF j < n THEN ss[j] ELSE Total(levels) - c - SumOfSeq(ss)]]
             claim(c, ss) == [leaf |-> [own0.leaf EXCEPT !.balance = c], proof |-> path(c, ss)]
  <2>1. wire \in {claim(c, ss) : c \in Sums, ss \in lies}
    BY <1>5 DEF Redeclared
  <2>2. \E c, ss : b = path(c, ss)
    <3> HIDE DEF lies, path
    <3> QED BY <2>1
  <2>3. n \in Nat
    BY <1>2 DEF IsSeq
  <2> HIDE DEF n, b
  <2>4. b = [j \in 1 .. n |-> b[j]]
    BY <2>2
  <2>5. IsSeq(b)
    BY <2>3, <2>4, FunctionIsSeq
  <2> QED BY <2>5 DEF b
<1>6. CASE wire \in Altered(own0)
  <2>1. \/ wire.proof = own0.proof
        \/ \E j \in DOMAIN own0.proof : wire = [own0 EXCEPT !.proof[j].isLeft = ~@]
        \/ \E j \in DOMAIN own0.proof : wire = [own0 EXCEPT !.proof = RemoveAt(@, j)]
    BY <1>3, <1>6 DEF Altered
  <2>2. CASE \E j \in DOMAIN own0.proof : wire = [own0 EXCEPT !.proof[j].isLeft = ~@]
    <3> DEFINE n == Len(own0.proof)
               b == wire.proof
    <3>1. PICK j \in DOMAIN own0.proof : wire = [own0 EXCEPT !.proof[j].isLeft = ~@]
      BY <2>2
    <3>2. b = [own0.proof EXCEPT ![j].isLeft = ~@]
      BY <1>3, <3>1
    <3>3. n \in Nat /\ own0.proof = [k \in 1 .. n |-> own0.proof[k]]
      BY <1>2 DEF IsSeq
    <3> HIDE DEF n, b
    <3>4. b = [k \in 1 .. n |-> b[k]]
      BY <3>2, <3>3
    <3>5. IsSeq(b)
      BY <3>3, <3>4, FunctionIsSeq
    <3> QED BY <3>5 DEF b
  <2>3. CASE \E j \in DOMAIN own0.proof : wire = [own0 EXCEPT !.proof = RemoveAt(@, j)]
    <3>1. PICK j \in DOMAIN own0.proof : wire = [own0 EXCEPT !.proof = RemoveAt(@, j)]
      BY <2>3
    <3>2. wire.proof = RemoveAt(own0.proof, j)
      BY <1>3, <3>1
    <3> QED BY <1>2, <3>2, RemoveAtIsSeq
  <2> QED BY <1>2, <2>1, <2>2, <2>3
<1> QED BY <1>1, <1>4, <1>5, <1>6 DEF own0

-----------------------------------------------------------------------------
(* The invariant *)

\* Leaves are only shown of a published tree; one without declared sums is the one built over
\* the leaves, and whatever was shown of it is among them.
CommittedInv ==
  /\ IsSeq(leaves)
  /\ stage \in {"shuffle", "build", "published"} => Len(leaves) >= 1
  /\ stage = "published" /\ ~forged => levels = BuildLiabilityTree(leaves)
  /\ shown # {} \/ verdict = "reading" => stage = "published"
  /\ CommittedLeavesOnly

\* Splitting one more account leaves a sequence of leaves that is not empty.
LEMMA SplitIsSeq ==
  ASSUME NEW k \in Nat \ {0}, NEW w, w \in [1 .. k -> Weights], NEW a, NEW total,
         IsSeq(leaves)
  PROVE  LET all == leaves \o Fragments(a, RandPartition(total, w))
         IN  IsSeq(all) /\ Len(all) >= 1
<1> DEFINE part == [i \in 1 .. k - 1 |-> FloorRatioShares(total * w[i], SumOfSeq(w))]
           parts == RandPartition(total, w)
           more == Fragments(a, parts)
<1>1. Len(w) = k
  <2>1. w = [i \in 1 .. k |-> w[i]]
    OBVIOUS
  <2> QED BY <2>1, LenOfFunction
<1>2. IsSeq(part) /\ Len(part) = k - 1
  <2>1. part = [i \in 1 .. k - 1 |-> part[i]]
    OBVIOUS
  <2>2. k - 1 \in Nat
    OBVIOUS
  <2> HIDE DEF part
  <2> QED BY <2>1, <2>2, FunctionIsSeq
<1>3. parts = Append(part, total - SumOfSeq(part))
  BY <1>1 DEF RandPartition
<1> HIDE DEF part
<1>4. IsSeq(parts) /\ Len(parts) = k
  BY <1>2, <1>3, AppendIsSeq
<1> HIDE DEF parts
<1>5. DOMAIN parts = 1 .. k
  BY <1>4 DEF IsSeq
<1>6. more = [j \in 1 .. k |-> more[j]]
  BY <1>5 DEF Fragments
<1> HIDE DEF more
<1>7. IsSeq(more) /\ Len(more) = k
  BY <1>6, FunctionIsSeq
<1>8. IsSeq(leaves \o more) /\ Len(leaves \o more) = Len(leaves) + k
  BY <1>7, ConcatIsSeq
<1>9. Len(leaves) \in Nat
  BY DEF IsSeq
<1> QED BY <1>8, <1>9 DEF more, parts

\* A leaf that the verifier accepts of a document is one of the tree's.
LEMMA AcceptedIsCommitted ==
  ASSUME LeavesOk, levels = BuildLiabilityTree(leaves), NEW wire \in Wires,
         WireLeafOk(wire, RootHash(levels), Total(levels))
  PROVE  \E k \in DOMAIN leaves : SameLeaf(DecodedLeaf(wire), leaves[k])
<1> DEFINE steps == DecodedProof(wire)
           leaf == DecodedLeaf(wire)
<1>1. PICK T : leaves \in Seq(T)
  BY LeavesTyped
<1>2. Len(steps) \in Nat
  <2>1. IsSeq(wire.proof)
    BY WiresAreSeqs
  <2>2. Len(wire.proof) \in Nat /\ DOMAIN wire.proof = 1 .. Len(wire.proof)
    BY <2>1 DEF IsSeq
  <2>3. steps = [i \in 1 .. Len(wire.proof) |-> steps[i]]
    BY <2>2 DEF DecodedProof
  <2> HIDE DEF steps
  <2> QED BY <2>2, <2>3, FunctionIsSeq
<1>3. VerifyLiabilityProof(leaf, steps, RootHash(BuildLiabilityTree(leaves)), Total(levels))
  BY DEF WireLeafOk
<1> HIDE DEF steps, leaf
<1>4. PICK k \in DOMAIN leaves : LiabilityLeafHash(leaf) = LiabilityLeafHash(leaves[k])
  BY <1>1, <1>2, <1>3, OnlyCommittedLeaves DEF LeavesOk
<1>5. SameLeaf(leaf, leaves[k])
  BY <1>4 DEF LiabilityLeafHash, SameLeaf
<1> QED BY <1>5 DEF leaf

\* There is no leaf and no tree at first.
LEMMA CommittedInvInit ==
  ASSUME Init
  PROVE  CommittedInv
<1>1. IsSeq(<<>>)
  BY DEF IsSeq
<1> QED BY <1>1 DEF Init, CommittedInv, CommittedLeavesOnly

\* Every step keeps the invariant.
LEMMA CommittedInvNext ==
  ASSUME CommittedInv, [Next]_vars
  PROVE  CommittedInv'
<1>1. CASE SplitAccount
  <2>1. SplitOf(place) \subseteq Nat \ {0}
    BY SplitAssumption DEF SplitOf
  <2>2. PICK k \in SplitOf(place) : \E w \in [1 .. k -> Weights] :
          leaves' = leaves \o Fragments(place, RandPartition(balances[place], w))
    BY <1>1 DEF SplitAccount
  <2>3. PICK w \in [1 .. k -> Weights] :
          leaves' = leaves \o Fragments(place, RandPartition(balances[place], w))
    BY <2>2
  <2>4. IsSeq(leaves') /\ Len(leaves') >= 1
    BY <2>1, <2>3, SplitIsSeq DEF CommittedInv
  <2>5. stage = "split" /\ stage' \in {"split", "shuffle"}
    BY <1>1 DEF SplitAccount
  <2>6. UNCHANGED <<shown, verdict, forged>>
    BY <1>1 DEF SplitAccount, docVars
  <2> QED BY <2>4, <2>5, <2>6 DEF CommittedInv, CommittedLeavesOnly
<1>2. CASE RefuseNegative \/ RandomnessFails
  <2>1. leaves' = <<>> /\ stage' = "refused" /\ stage # "published"
    BY <1>2 DEF RefuseNegative, RandomnessFails
  <2>2. UNCHANGED <<shown, verdict, forged>>
    BY <1>2 DEF RefuseNegative, RandomnessFails, docVars
  <2>3. IsSeq(<<>>)
    BY DEF IsSeq
  <2> QED BY <2>1, <2>2, <2>3 DEF CommittedInv, CommittedLeavesOnly
<1>3. CASE Shuffle
  <2>1. stage = "shuffle" /\ stage' \in {"shuffle", "build"}
    BY <1>3 DEF Shuffle
  <2>2. UNCHANGED <<shown, verdict, forged>>
    BY <1>3 DEF Shuffle, docVars
  <2>3. \/ leaves' = leaves
        \/ \E i, j, x, y : leaves' = [leaves EXCEPT ![i] = x, ![j] = y]
    BY <1>3 DEF Shuffle
  <2>4. IsSeq(leaves') /\ Len(leaves') = Len(leaves)
    <3>1. CASE leaves' = leaves
      BY <3>1 DEF CommittedInv
    <3>2. CASE \E i, j, x, y : leaves' = [leaves EXCEPT ![i] = x, ![j] = y]
      <4> DEFINE m == Len(leaves)
      <4>1. m \in Nat /\ leaves = [k \in 1 .. m |-> leaves[k]]
        BY DEF CommittedInv, IsSeq
      <4> HIDE DEF m
      <4>2. leaves' = [k \in 1 .. m |-> leaves'[k]]
        BY <3>2, <4>1
      <4>3. IsSeq(leaves') /\ Len(leaves') = m
        BY <4>1, <4>2, FunctionIsSeq
      <4> QED BY <4>3 DEF m
    <3> QED BY <2>3, <3>1, <3>2
  <2> QED BY <2>1, <2>2, <2>4 DEF CommittedInv, CommittedLeavesOnly
<1>4. CASE Publish \/ PublishForged
  <2>1. stage = "build" /\ stage' = "published" /\ leaves' = leaves
    BY <1>4 DEF Publish, PublishForged
  <2>2. ~forged' => levels' = BuildLiabilityTree(leaves)
    BY <1>4 DEF Publish, PublishForged
  <2>3. UNCHANGED <<shown, verdict>>
    BY <1>4 DEF Publish, PublishForged, docVars
  <2> QED BY <2>1, <2>2, <2>3 DEF CommittedInv, CommittedLeavesOnly
<1>5. CASE OpenDoc
  BY <1>5 DEF OpenDoc, treeVars, CommittedInv, CommittedLeavesOnly
<1>6. ASSUME NEW wire \in Wires, VerifyLeaf(wire) PROVE CommittedInv'
  <2>1. UNCHANGED <<leaves, stage, levels, forged>> /\ stage = "published"
    BY <1>6 DEF VerifyLeaf, Refuse, treeVars, CommittedInv
  <2>2. CASE shown' = {}
    BY <2>1, <2>2 DEF CommittedInv, CommittedLeavesOnly
  <2>3. CASE shown' # {}
    <3>1. /\ WireLeafOk(wire, RootHash(levels), Total(levels))
          /\ shown' = shown \cup {DecodedLeaf(wire)}
      BY <1>6, <2>3 DEF VerifyLeaf, Refuse
    <3>2. LeavesOk
      <4>1. Len(<<>>) = 0
        OBVIOUS
      <4> QED BY <2>1, <4>1 DEF LeavesOk, CommittedInv
    <3>3. ~forged => \E k \in DOMAIN leaves : SameLeaf(DecodedLeaf(wire), leaves[k])
      BY <2>1, <3>1, <3>2, AcceptedIsCommitted DEF CommittedInv
    <3>4. CommittedLeavesOnly'
      BY <2>1, <3>1, <3>3 DEF CommittedInv, CommittedLeavesOnly, SameLeaf
    <3> QED BY <2>1, <3>4 DEF CommittedInv
  <2> QED BY <2>2, <2>3
<1>7. ASSUME NEW claimed, EndOfDoc(claimed) PROVE CommittedInv'
  <2>1. UNCHANGED <<leaves, stage, levels, forged>> /\ shown' = {} /\ stage = "published"
    BY <1>7 DEF EndOfDoc, Refuse, treeVars, CommittedInv
  <2> QED BY <2>1 DEF CommittedInv, CommittedLeavesOnly
<1>8. CASE UNCHANGED vars
  BY <1>8 DEF vars, CommittedInv, CommittedLeavesOnly, SameLeaf
<1> QED BY <1>1, <1>2, <1>3, <1>4, <1>5, <1>6, <1>7, <1>8 DEF Next

\* Only leaves of the published tree verify under its root and total, in any number of
\* documents, whatever their servers make of them (LiabilityProofDoc.Verify).
THEOREM CommittedLeavesAlways == Spec => []CommittedLeavesOnly
<1>1. Init => CommittedInv
  BY CommittedInvInit
<1>2. CommittedInv /\ [Next]_vars => CommittedInv'
  BY CommittedInvNext
<1>3. CommittedInv => CommittedLeavesOnly
  BY DEF CommittedInv
<1> QED BY <1>1, <1>2, <1>3, PTL DEF Spec

-----------------------------------------------------------------------------
(* Whole canonical units *)

Whole(x) == x \in Int /\ \E k \in Int : x = SubScale * k

\* A whole number of canonical units is its own canonical form.
LEMMA WholeIsCanonical ==
  ASSUME NEW x \in Nat, Whole(x)
  PROVE  CanonicalAmount(x) = x
<1>1. PICK k \in Int : x = SubScale * k
  BY DEF Whole
<1>2. SubScale \in Nat \ {0}
  BY ScaleAssumption
<1>3. RoundQuo(x, SubScale) = k
  <2>1. (2 * x + SubScale) \div (2 * SubScale) = k
    <3> DEFINE w == 2 * SubScale
    <3>1. w \in Nat \ {0} /\ 0 <= SubScale /\ SubScale < w
      BY <1>2
    <3>2. 2 * x + SubScale = w * k + SubScale
      BY <1>1, <1>2
    <3> HIDE DEF w
    <3>3. (w * k + SubScale) \div w = k
      BY <1>2, <3>1
    <3> QED BY <3>2, <3>3 DEF w
  <2> QED BY <1>2, <2>1 DEF RoundQuo
<1>4. x # Absent
  BY SentinelAssumption
<1> QED BY <1>1, <1>3, <1>4 DEF CanonicalAmount

\* The canonical form of an amount is a number of units.
LEMMA RoundIsInt ==
  ASSUME NEW x \in Int
  PROVE  RoundQuo(x, SubScale) \in Int
<1> DEFINE d == 2 * SubScale
           y == 2 * x + SubScale
           z == 2 * (-x) + SubScale
<1>1. d \in Nat \ {0} /\ y \in Int /\ z \in Int
  BY ScaleAssumption
<1>2. y \div d \in Int /\ z \div d \in Int
  <2> HIDE DEF d, y, z
  <2> QED BY <1>1
<1>3. x < 0 => Abs(x) = -x
  BY DEF Abs
<1> QED BY <1>2, <1>3 DEF RoundQuo

\* The canonical form of an amount is an amount.
LEMMA CanonicalIsInt ==
  ASSUME NEW x \in Int
  PROVE  CanonicalAmount(x) \in Int
<1>1. SubScale \in Nat \ {0} /\ x # Absent
  BY ScaleAssumption, SentinelAssumption
<1>2. RoundQuo(x, SubScale) \in Int
  BY RoundIsInt
<1> QED BY <1>1, <1>2 DEF CanonicalAmount

\* What is its own canonical form is a whole number of units.
LEMMA CanonicalIsWhole ==
  ASSUME NEW x \in Int, CanonicalAmount(x) = x
  PROVE  Whole(x)
<1>1. SubScale \in Nat \ {0} /\ x # Absent
  BY ScaleAssumption, SentinelAssumption
<1>2. RoundQuo(x, SubScale) \in Int
  BY RoundIsInt
<1>3. x = SubScale * RoundQuo(x, SubScale)
  BY <1>1 DEF CanonicalAmount
<1> QED BY <1>2, <1>3 DEF Whole

\* Sums and differences of whole amounts are whole.
LEMMA WholeSums ==
  ASSUME NEW x, NEW y, Whole(x), Whole(y)
  PROVE  Whole(x + y) /\ Whole(x - y)
<1>1. PICK k \in Int : x = SubScale * k
  BY DEF Whole
<1>2. PICK l \in Int : y = SubScale * l
  BY DEF Whole
<1>3. SubScale \in Int
  BY ScaleAssumption
<1>4. x + y = SubScale * (k + l) /\ x - y = SubScale * (k - l)
  BY <1>1, <1>2, <1>3
<1>5. x \in Int /\ y \in Int /\ k + l \in Int /\ k - l \in Int
  BY DEF Whole
<1> QED BY <1>4, <1>5 DEF Whole

\* Zero is whole, and so is a share rounded down to canonical units.
LEMMA FloorIsWhole ==
  ASSUME NEW x \in Int, NEW d \in Nat \ {0}
  PROVE  Whole(0) /\ Whole(FloorRatioShares(x, d))
<1>1. SubScale \in Nat \ {0}
  BY ScaleAssumption
<1>2. x \div d \in Int
  OBVIOUS
<1> DEFINE q == x \div d
           k == q \div SubScale
<1>3. k \in Int
  <2> HIDE DEF q
  <2> QED BY <1>1, <1>2 DEF q
<1>4. FloorRatioShares(x, d) = SubScale * k
  BY DEF FloorRatioShares
<1> HIDE DEF k
<1>5. SubScale * k \in Int /\ 0 = SubScale * 0
  BY <1>1, <1>3
<1> QED BY <1>3, <1>4, <1>5 DEF Whole

\* Multiplication keeps the order.
LEMMA TimesKeepsOrder ==
  ASSUME NEW d \in Nat, NEW a \in Int, NEW b \in Int, a <= b
  PROVE  d * a <= d * b
<1>1. b - a \in Nat /\ b = a + (b - a)
  OBVIOUS
<1> DEFINE c == b - a
<1>2. c \in Nat /\ b = a + c
  BY <1>1
<1> HIDE DEF c
<1>3. d * b = d * a + d * c
  BY <1>2
<1>4. d * c \in Nat /\ d * a \in Int
  BY <1>2
<1> DEFINE p == d * a
           q == d * c
<1>5. p \in Int /\ q \in Nat /\ d * b = p + q
  BY <1>3, <1>4
<1> HIDE DEF p, q
<1>6. p <= d * b
  BY <1>5
<1> QED BY <1>6 DEF p

\* Of a number that is not negative, division leaves none that is.
LEMMA DivIsNat ==
  ASSUME NEW x \in Nat, NEW d \in Nat \ {0}
  PROVE  x \div d \in Nat /\ d * (x \div d) <= x
<1> DEFINE q == x \div d
<1>1. q \in Int /\ d * q <= x /\ x < d * q + d
  BY DivBounds
<1> HIDE DEF q
<1>2. q >= 0
  <2>1. SUFFICES ASSUME q <= -1 PROVE FALSE
    BY <1>1
  <2>2. d * q <= d * (-1)
    BY <1>1, <2>1, TimesKeepsOrder
  <2> DEFINE p == d * q
  <2>3. p \in Int /\ p <= -d /\ x < p + d
    BY <1>1, <2>2
  <2> HIDE DEF p
  <2> QED BY <2>3
<1> QED BY <1>1, <1>2 DEF q

\* A share rounded down is not negative, and not more than the exact one.
LEMMA ShareBelow ==
  ASSUME NEW x \in Nat, NEW d \in Nat \ {0}
  PROVE  /\ FloorRatioShares(x, d) \in Nat
         /\ d * FloorRatioShares(x, d) <= x
<1> DEFINE q == x \div d
           s == SubScale * (q \div SubScale)
<1>1. SubScale \in Nat \ {0}
  BY ScaleAssumption
<1>2. q \in Nat /\ d * q <= x
  BY DivIsNat
<1> HIDE DEF q
<1>3. q \div SubScale \in Nat /\ s <= q
  BY <1>1, <1>2, DivIsNat
<1>4. s \in Nat
  <2> DEFINE k == q \div SubScale
  <2>1. k \in Nat
    BY <1>3
  <2> HIDE DEF k
  <2>2. SubScale * k \in Nat
    BY <1>1, <2>1
  <2> QED BY <2>2 DEF k
<1>5. FloorRatioShares(x, d) = s
  BY DEF FloorRatioShares, q
<1> HIDE DEF s
<1>6. d * s <= d * q
  <2>1. d \in Nat /\ s \in Int /\ q \in Int
    BY <1>2, <1>4
  <2> QED BY <1>3, <2>1, TimesKeepsOrder
<1>7. d * s \in Int /\ d * q \in Int
  BY <1>2, <1>4
<1> DEFINE u == d * s
           v == d * q
<1>8. u \in Int /\ v \in Int /\ u <= v /\ v <= x
  BY <1>2, <1>6, <1>7
<1> HIDE DEF u, v
<1>9. u <= x
  BY <1>8
<1> QED BY <1>4, <1>5, <1>9 DEF u

-----------------------------------------------------------------------------
(* The split of a balance *)

\* There are as many weights as were drawn, and their sum can be divided by.
LEMMA WeightsAddUp ==
  ASSUME NEW k \in Nat \ {0}, NEW w \in [1 .. k -> Weights]
  PROVE  /\ Len(w) = k /\ SumOfSeq(w) \in Nat \ {0}
         /\ \A i \in 1 .. k : w[i] \in Nat \ {0}
<1>1. Len(w) = k
  <2>1. w = [i \in 1 .. k |-> w[i]]
    OBVIOUS
  <2> QED BY <2>1, LenOfFunction
<1>2. \A i \in 1 .. k : w[i] \in Nat \ {0}
  BY SplitAssumption
<1> DEFINE S == {n \in 0 .. k : SumTo(w, n) \in Nat /\ (n > 0 => SumTo(w, n) > 0)}
<1>3. 0 \in S
  BY SumOfNone
<1>4. ASSUME NEW n \in 1 .. k, n - 1 \in S PROVE n \in S
  <2>1. n - 1 \in Nat /\ (n - 1) + 1 = n /\ n \in 0 .. k
    OBVIOUS
  <2>2. \A i \in 1 .. (n - 1) + 1 : w[i] \in Int
    BY <1>2
  <2>3. SumTo(w, n) = SumTo(w, n - 1) + w[n]
    BY <2>1, <2>2, SumStep
  <2>4. SumTo(w, n - 1) \in Nat /\ w[n] \in Nat \ {0}
    BY <1>2, <1>4
  <2> QED BY <2>1, <2>3, <2>4
<1>5. k \in S
  <2>1. k \in 0 .. k
    OBVIOUS
  <2> HIDE DEF S
  <2> QED BY <1>3, <1>4, <2>1, IntervalInduction
<1> QED BY <1>1, <1>2, <1>5 DEF SumOfSeq

\* Whatever the weights drawn, the parts of a split are whole and add up to the balance, and
\* those of a balance that is not negative are not negative either: the guard behind the last
\* part is unreachable, as it says (randPartition, sumtree_privacy.go:183-187).
THEOREM SplitsAreExact ==
  ASSUME NEW k \in Nat \ {0}, NEW w \in [1 .. k -> Weights], NEW total, Whole(total)
  PROVE  LET parts == RandPartition(total, w)
         IN  /\ IsSeq(parts) /\ Len(parts) = k
             /\ \A j \in 1 .. k : Whole(parts[j])
             /\ SumTo(parts, k) = total
             /\ total >= 0 => \A j \in 1 .. k : parts[j] >= 0
<1> DEFINE W == SumOfSeq(w)
           part == [i \in 1 .. k - 1 |-> FloorRatioShares(total * w[i], W)]
           parts == RandPartition(total, w)
           rest == total - SumOfSeq(part)
<1>1. Len(w) = k
  BY WeightsAddUp
<1>2. \A i \in 1 .. k : w[i] \in Nat \ {0}
  BY WeightsAddUp
<1>3. W \in Nat \ {0}
  BY WeightsAddUp
<1> DEFINE V == SumTo(w, k - 1)
<1>4. V \in Int /\ V <= W
  <2>1. k - 1 \in Nat /\ (k - 1) + 1 = k
    OBVIOUS
  <2>2. \A i \in 1 .. (k - 1) + 1 : w[i] \in Int
    BY <1>2
  <2>3. V \in Int /\ SumTo(w, k) = V + w[k]
    BY <2>1, <2>2, SumStep
  <2>4. W = SumTo(w, k) /\ w[k] \in Nat
    BY <1>1, <1>2 DEF SumOfSeq
  <2> HIDE DEF V, W
  <2> QED BY <2>3, <2>4
<1> HIDE DEF W
<1>5. \A i \in 1 .. k - 1 : Whole(part[i]) /\ part[i] \in Int
  <2>1. ASSUME NEW i \in 1 .. k - 1 PROVE Whole(part[i])
    <3>1. total \in Int /\ w[i] \in Nat
      BY <1>2 DEF Whole
    <3>2. total * w[i] \in Int
      BY <3>1
    <3> QED BY <1>3, <3>2, FloorIsWhole
  <2> QED BY <2>1 DEF Whole
<1>6. IsSeq(part) /\ Len(part) = k - 1
  <2>1. part = [i \in 1 .. k - 1 |-> part[i]]
    OBVIOUS
  <2>2. k - 1 \in Nat
    OBVIOUS
  <2> HIDE DEF part
  <2> QED BY <2>1, <2>2, FunctionIsSeq
<1>7. parts = Append(part, rest)
  BY <1>1 DEF RandPartition, W
<1>8. ASSUME total >= 0
      PROVE  \A i \in 1 .. k - 1 : part[i] \in Nat /\ W * part[i] <= total * w[i]
  <2>1. ASSUME NEW i \in 1 .. k - 1
        PROVE  part[i] \in Nat /\ W * part[i] <= total * w[i]
    <3>1. total \in Nat /\ w[i] \in Nat
      BY <1>2, <1>8 DEF Whole
    <3>2. total * w[i] \in Nat
      BY <3>1
    <3>3. part[i] = FloorRatioShares(total * w[i], W)
      OBVIOUS
    <3> QED BY <1>3, <3>2, <3>3, ShareBelow
  <2> QED BY <2>1
<1> HIDE DEF part, V
<1>9. Whole(SumTo(part, k - 1)) 
  <2> DEFINE S == {n \in 0 .. k - 1 : Whole(SumTo(part, n))}
  <2>1. 0 \in S
    BY SumOfNone, FloorIsWhole
  <2>2. ASSUME NEW n \in 1 .. k - 1, n - 1 \in S PROVE n \in S
    <3>1. n - 1 \in Nat /\ (n - 1) + 1 = n /\ n \in 0 .. k - 1
      OBVIOUS
    <3>2. \A i \in 1 .. (n - 1) + 1 : part[i] \in Int
      BY <1>5
    <3>3. SumTo(part, n) = SumTo(part, n - 1) + part[n]
      BY <3>1, <3>2, SumStep
    <3>4. Whole(SumTo(part, n - 1)) /\ Whole(part[n])
      BY <1>5, <2>2
    <3> QED BY <3>1, <3>3, <3>4, WholeSums
  <2>3. k - 1 \in Nat /\ k - 1 \in 0 .. k - 1
    OBVIOUS
  <2>4. k - 1 \in S
    <3> HIDE DEF S
    <3> QED BY <2>1, <2>2, <2>3, IntervalInduction
  <2> QED BY <2>4
<1>10. Whole(rest) /\ rest \in Int
  BY <1>6, <1>9, WholeSums DEF SumOfSeq, Whole
<1>11. ASSUME total >= 0 PROVE rest >= 0
  <2> DEFINE A(n) == SumTo(part, n)
             B(n) == SumTo(w, n)
             S == {n \in 0 .. k - 1 : W * A(n) <= total * B(n)}
  <2>1. total \in Nat
    BY <1>11 DEF Whole
  <2>2. 0 \in S
    <3>1. A(0) = 0 /\ B(0) = 0
      BY SumOfNone
    <3> QED BY <1>3, <2>1, <3>1
  <2>3. ASSUME NEW n \in 1 .. k - 1, n - 1 \in S PROVE n \in S
    <3>1. n - 1 \in Nat /\ (n - 1) + 1 = n /\ n \in 0 .. k - 1
      OBVIOUS
    <3>2. A(n - 1) \in Int /\ A(n) = A(n - 1) + part[n]
      <4>1. \A i \in 1 .. (n - 1) + 1 : part[i] \in Int
        BY <1>5
      <4> QED BY <3>1, <4>1, SumStep
    <3>3. B(n - 1) \in Int /\ B(n) = B(n - 1) + w[n]
      <4>1. \A i \in 1 .. (n - 1) + 1 : w[i] \in Int
        BY <1>2
      <4> QED BY <3>1, <4>1, SumStep
    <3>4. part[n] \in Int /\ w[n] \in Int /\ W * part[n] <= total * w[n]
      BY <1>2, <1>8, <1>11
    <3>5. W * A(n - 1) <= total * B(n - 1)
      BY <2>3
    <3> HIDE DEF A, B
    <3>6. W * A(n) = W * A(n - 1) + W * part[n]
      BY <1>3, <3>2, <3>4
    <3>7. total * B(n) = total * B(n - 1) + total * w[n]
      BY <2>1, <3>3, <3>4
    <3> DEFINE a == W * A(n - 1)
               b == W * part[n]
               c == total * B(n - 1)
               d == total * w[n]
    <3>8. a \in Int /\ b \in Int /\ c \in Int /\ d \in Int
      <4>1. \A x, y \in Int : x * y \in Int
        OBVIOUS
      <4>2. W \in Int /\ total \in Int /\ A(n - 1) \in Int /\ B(n - 1) \in Int
            /\ part[n] \in Int /\ w[n] \in Int
        BY <1>3, <2>1, <3>2, <3>3, <3>4
      <4> QED BY <4>1, <4>2, Zenon
    <3>9. W * A(n) = a + b /\ total * B(n) = c + d
      BY <3>6, <3>7, Zenon
    <3>10. a <= c
      BY <3>5
    <3>11. b <= d
      BY <3>4
    <3> HIDE DEF a, b, c, d
    <3>12. a + b <= c + d
      BY <3>8, <3>10, <3>11
    <3>13. W * A(n) <= total * B(n)
      BY <3>9, <3>12, Zenon
    <3> QED BY <3>1, <3>13
  <2>4. k - 1 \in S
    <3>1. k - 1 \in Nat /\ k - 1 \in 0 .. k - 1
      OBVIOUS
    <3> HIDE DEF S
    <3> QED BY <2>2, <2>3, <3>1, IntervalInduction
  <2> DEFINE held == A(k - 1)
  <2>5. held \in Int /\ rest = total - held
    BY <1>6, <1>9 DEF Whole, SumOfSeq
  <2>6. W * held <= total * V
    BY <2>4 DEF V
  <2>7. total * V <= total * W
    BY <1>3, <1>4, <2>1, TimesKeepsOrder
  <2> HIDE DEF held
  <2>8. held <= total
    <3>1. SUFFICES ASSUME total + 1 <= held PROVE FALSE
      BY <2>1, <2>5
    <3>2. W * (total + 1) <= W * held
      BY <1>3, <2>1, <2>5, <3>1, TimesKeepsOrder
    <3>3. W * (total + 1) = total * W + W
      BY <1>3, <2>1
    <3> DEFINE a == W * held
               b == total * V
               c == total * W
    <3>4. a \in Int /\ b \in Int /\ c \in Int
      BY <1>3, <1>4, <2>1, <2>5
    <3>5. c + W <= a /\ a <= b /\ b <= c
      BY <2>6, <2>7, <3>2, <3>3
    <3> HIDE DEF a, b, c
    <3> QED BY <1>3, <3>4, <3>5
  <2> QED BY <2>1, <2>5, <2>8
<1>12. IsSeq(parts) /\ Len(parts) = k
  BY <1>6, <1>7, AppendIsSeq
<1>13. parts[k] = rest /\ \A i \in 1 .. k - 1 : parts[i] = part[i]
  <2> DEFINE A == {part[i] : i \in 1 .. Len(part)}
  <2>1. part \in Seq(A)
    BY <1>6, IsSeqTyped
  <2> HIDE DEF A
  <2> QED BY <1>6, <1>7, <2>1
<1> HIDE DEF parts, rest
<1>14. \A j \in 1 .. k : Whole(parts[j]) /\ parts[j] \in Int
  BY <1>5, <1>10, <1>13
<1>15. SumTo(parts, k) = total
  <2>1. k - 1 \in Nat /\ (k - 1) + 1 = k
    OBVIOUS
  <2>2. \A j \in 1 .. (k - 1) + 1 : parts[j] \in Int
    BY <1>14
  <2>3. SumTo(parts, k) = SumTo(parts, k - 1) + parts[k]
    BY <2>1, <2>2, SumStep
  <2>4. SumTo(parts, k - 1) = SumTo(part, k - 1)
    BY <1>5, <1>13, <2>1, SumsEqual
  <2>5. rest = total - SumTo(part, k - 1)
    BY <1>6 DEF rest, SumOfSeq
  <2>6. total \in Int /\ SumTo(part, k - 1) \in Int
    BY <1>9 DEF Whole
  <2> QED BY <1>13, <2>3, <2>4, <2>5, <2>6
<1>16. total >= 0 => \A j \in 1 .. k : parts[j] >= 0
  <2>1. SUFFICES ASSUME total >= 0, NEW j \in 1 .. k PROVE parts[j] >= 0
    OBVIOUS
  <2>2. CASE j = k
    BY <1>13, <1>11, <2>1, <2>2
  <2>3. CASE j # k
    <3>1. j \in 1 .. k - 1
      BY <2>3
    <3> QED BY <1>13, <1>8, <2>1, <3>1
  <2> QED BY <2>2, <2>3
<1> QED BY <1>12, <1>14, <1>15, <1>16 DEF parts

-----------------------------------------------------------------------------
(* Generated paths *)

\* One more step of a path leads one node further.
LEMMA WalkAppend ==
  ASSUME NEW leaf, NEW steps, NEW s, IsSeq(steps)
  PROVE  Walk(leaf, Append(steps, s))[Len(steps) + 1]
           = Climbed(Walk(leaf, steps)[Len(steps)], s)
<1> DEFINE n == Len(steps)
           longer == Append(steps, s)
           v == Walk(leaf, steps)
           w == Walk(leaf, longer)
           S == {i \in 0 .. n : w[i] = v[i]}
<1>1. n \in Nat /\ Len(longer) = n + 1
  BY AppendIsSeq DEF IsSeq
<1>2. longer[n + 1] = s /\ \A i \in 1 .. n : longer[i] = steps[i]
  <2> DEFINE A == {steps[i] : i \in 1 .. Len(steps)}
  <2>1. steps \in Seq(A)
    BY IsSeqTyped
  <2> HIDE DEF A
  <2> QED BY <2>1
<1>3. IsWalk(v, leaf, steps, n) /\ IsWalk(w, leaf, longer, n + 1)
  <2>1. IsWalk(v, leaf, steps, n)
    BY <1>1, WalkDef
  <2>2. Len(longer) \in Nat
    BY <1>1
  <2> HIDE DEF longer
  <2>3. IsWalk(w, leaf, longer, Len(longer))
    BY <2>2, WalkDef
  <2> QED BY <1>1, <2>1, <2>3
<1> HIDE DEF v, w, longer, n
<1>4. 0 \in S
  BY <1>1, <1>3 DEF IsWalk
<1>5. ASSUME NEW i \in 1 .. n, i - 1 \in S PROVE i \in S
  <2>1. i \in 0 .. n /\ i \in 1 .. n + 1
    BY <1>1
  <2>2. w[i] = Climbed(w[i - 1], longer[i]) /\ v[i] = Climbed(v[i - 1], steps[i])
    BY <1>3, <2>1 DEF IsWalk
  <2>3. w[i - 1] = v[i - 1]
    BY <1>5
  <2> QED BY <1>2, <2>1, <2>2, <2>3
<1>6. w[n] = v[n]
  <2>1. n \in 0 .. n
    BY <1>1
  <2>2. n \in S
    <3> HIDE DEF S
    <3> QED BY <1>1, <1>4, <1>5, <2>1, IntervalInduction
  <2> QED BY <2>2
<1>7. w[n + 1] = Climbed(w[n], longer[n + 1])
  <2>1. n + 1 \in 1 .. n + 1 /\ (n + 1) - 1 = n
    BY <1>1
  <2> QED BY <1>3, <2>1 DEF IsWalk
<1> QED BY <1>2, <1>6, <1>7 DEF v, w, longer, n

IsPlaces(pos, index, n) ==
  /\ pos = [d \in 0 .. n |-> pos[d]]
  /\ pos[0] = index
  /\ \A d \in 1 .. n : pos[d] = pos[d - 1] \div 2

\* The recursion of Positions has a solution.
LEMMA PositionsExist ==
  ASSUME NEW index, NEW N \in Nat
  PROVE  \E pos : IsPlaces(pos, index, N)
<1> DEFINE S == {n \in 0 .. N : \E pos : IsPlaces(pos, index, n)}
<1>1. 0 \in S
  <2> DEFINE pos == [d \in 0 .. 0 |-> index]
  <2>1. IsPlaces(pos, index, 0)
    BY DEF IsPlaces
  <2> QED BY <2>1
<1>2. ASSUME NEW n \in 1 .. N, n - 1 \in S PROVE n \in S
  <2>1. PICK v : IsPlaces(v, index, n - 1)
    BY <1>2
  <2> DEFINE w == [d \in 0 .. n |-> IF d = n THEN v[n - 1] \div 2 ELSE v[d]]
  <2>2. w = [d \in 0 .. n |-> w[d]]
    OBVIOUS
  <2>3. w[0] = index
    BY <2>1 DEF IsPlaces
  <2>4. ASSUME NEW d \in 1 .. n PROVE w[d] = w[d - 1] \div 2
    <3>1. d \in 0 .. n /\ d - 1 \in 0 .. n /\ d - 1 # n
      OBVIOUS
    <3>2. w[d - 1] = v[d - 1]
      BY <3>1
    <3>3. CASE d = n
      BY <3>1, <3>2, <3>3
    <3>4. CASE d # n
      <4>1. d \in 1 .. n - 1 /\ w[d] = v[d]
        BY <3>1, <3>4
      <4>2. v[d] = v[d - 1] \div 2
        BY <2>1, <4>1 DEF IsPlaces
      <4> QED BY <3>2, <4>1, <4>2
    <3> QED BY <3>3, <3>4
  <2>5. IsPlaces(w, index, n)
    <3> HIDE DEF w
    <3> QED BY <2>2, <2>3, <2>4 DEF IsPlaces
  <2>6. n \in 0 .. N
    OBVIOUS
  <2> HIDE DEF w
  <2> QED BY <2>5, <2>6
<1>3. N \in S
  <2> HIDE DEF S
  <2>1. N \in 0 .. N
    OBVIOUS
  <2> QED BY <1>1, <1>2, <2>1, IntervalInduction
<1> QED BY <1>3

\* Positions satisfies its recursion.
LEMMA PositionsDef ==
  ASSUME NEW index, NEW N \in Nat
  PROVE  IsPlaces(Positions(index, N), index, N)
<1> DEFINE P(w) == w = [d \in 0 .. N |-> IF d = 0 THEN index ELSE w[d - 1] \div 2]
<1>1. PICK v : IsPlaces(v, index, N)
  BY PositionsExist
<1>2. P(v)
  <2>1. ASSUME NEW d \in 0 .. N
        PROVE  v[d] = IF d = 0 THEN index ELSE v[d - 1] \div 2
    <3>1. d # 0 => d \in 1 .. N
      OBVIOUS
    <3> QED BY <1>1, <3>1 DEF IsPlaces
  <2>2. v = [d \in 0 .. N |-> v[d]]
    BY <1>1 DEF IsPlaces
  <2> QED BY <2>1, <2>2
<1>3. Positions(index, N) = CHOOSE w : P(w)
  BY DEF Positions
<1> DEFINE w == Positions(index, N)
<1>4. P(w)
  <2> HIDE DEF P, w
  <2>1. w = CHOOSE u : P(u)
    BY <1>3 DEF w
  <2> QED BY <1>2, <2>1
<1> HIDE DEF w
<1>5. w[0] = index
  BY <1>4
<1>6. ASSUME NEW d \in 1 .. N PROVE w[d] = w[d - 1] \div 2
  <2>1. d \in 0 .. N /\ d # 0
    OBVIOUS
  <2> QED BY <1>4, <2>1
<1>7. w = [d \in 0 .. N |-> w[d]]
  BY <1>4
<1> QED BY <1>5, <1>6, <1>7 DEF IsPlaces, w

\* A node as an honest operator builds it: a whole sum, and a hash of full length.
NodeOk(x) ==
  /\ x = [sum |-> x.sum, hash |-> x.hash]
  /\ x.sum \in Nat /\ Whole(x.sum) /\ x.hash # Misfit

\* A step of a path that goes through such nodes.
StepOk(s) ==
  /\ s = [sum |-> s.sum, hash |-> s.hash, isLeft |-> s.isLeft]
  /\ s.sum \in Nat /\ Whole(s.sum) /\ s.hash # Misfit /\ s.isLeft \in BOOLEAN

\* The parent of two such nodes is one.
LEMMA ParentOk ==
  ASSUME NEW l, NEW r, NodeOk(l), NodeOk(r)
  PROVE  NodeOk(Parent(l, r))
<1>1. l.sum + r.sum \in Nat /\ Whole(l.sum + r.sum)
  BY WholeSums DEF NodeOk
<1>2. LiabilityNodeHash(l.sum, l.hash, r.sum, r.hash) # Misfit
  BY DEF LiabilityNodeHash, Misfit
<1> QED BY <1>1, <1>2 DEF Parent, NodeOk

\* Leaves as an honest operator publishes them.
LeafSound(l) == l.balance \in Nat /\ Whole(l.balance) /\ l.salt # Misfit

\* Every node of a tree over such leaves is one.
LEMMA NodesOk ==
  ASSUME NEW Leaves, NEW ls \in Seq(Leaves), ls # <<>>,
         \A i \in DOMAIN ls : LeafSound(ls[i])
  PROVE  LET level == LevelsOver(ls)
         IN  \A d \in 0 .. Len(ls) : \A k \in 1 .. Len(level[d]) : NodeOk(level[d][k])
<1> DEFINE n == Len(ls)
           level == LevelsOver(ls)
           S == {d \in 0 .. n : \A k \in 1 .. Len(level[d]) : NodeOk(level[d][k])}
<1>1. n \in Nat /\ DOMAIN ls = 1 .. n
  OBVIOUS
<1>2. IsLevels(level, ls, n)
  BY <1>1, LevelsDef
<1>3. \A d \in 0 .. n : Len(level[d]) \in Nat /\ Len(level[d]) >= 1
  BY LevelsShrink
<1> HIDE DEF level, n
<1>4. 0 \in S
  <2> DEFINE f == level[0]
  <2>1. f = [i \in 1 .. n |-> LeafNode(ls[i])]
    BY <1>1, <1>2 DEF IsLevels, LeafLevel
  <2>2. f = [i \in 1 .. n |-> f[i]]
    BY <2>1
  <2>3. ASSUME NEW i \in 1 .. n PROVE NodeOk(f[i])
    <3>1. LeafSound(ls[i])
      BY <1>1
    <3>2. LiabilityLeafHash(ls[i]) # Misfit
      BY DEF LiabilityLeafHash, Misfit
    <3> QED BY <2>1, <3>1, <3>2 DEF LeafNode, NodeOk, LeafSound
  <2> HIDE DEF f
  <2>4. Len(f) = n
    BY <1>1, <2>2, LenOfFunction
  <2> QED BY <1>1, <2>3, <2>4 DEF f
<1>5. ASSUME NEW d \in 1 .. n, d - 1 \in S PROVE d \in S
  <2> DEFINE lower == level[d - 1]
             m == Len(lower)
  <2>1. d \in 0 .. n /\ d - 1 \in 0 .. n
    BY <1>1
  <2>2. level[d] = NextLevel(lower)
    BY <1>2 DEF IsLevels
  <2>3. m \in Nat /\ \A k \in 1 .. m : NodeOk(lower[k])
    BY <1>3, <1>5, <2>1
  <2> HIDE DEF lower
  <2>4. Len(level[d]) = (m + 1) \div 2
    BY <2>2, <2>3, HalvedLevel
  <2>5. ASSUME NEW k \in 1 .. (m + 1) \div 2 PROVE NodeOk(level[d][k])
    <3>1. 2 * k - 1 \in 1 .. m
      BY <2>3, PairInLevel
    <3>2. CASE 2 * k > m
      BY <2>2, <2>3, <3>1, <3>2 DEF NextLevel
    <3>3. CASE ~ (2 * k > m)
      <4>1. 2 * k \in 1 .. m
        BY <2>3, <3>3
      <4>2. level[d][k] = Parent(lower[2 * k - 1], lower[2 * k])
        BY <2>2, <3>3 DEF NextLevel
      <4> QED BY <2>3, <3>1, <4>1, <4>2, ParentOk
    <3> QED BY <3>2, <3>3
  <2> QED BY <2>1, <2>4, <2>5
<1>6. 0 .. n \subseteq S
  <2> HIDE DEF S
  <2> QED BY <1>1, <1>4, <1>5, IntervalInduction
<1> QED BY <1>6 DEF level, n

\* A path as an honest operator makes it.
PathOk(steps) == IsSeq(steps) /\ \A i \in 1 .. Len(steps) : StepOk(steps[i])

\* It stays one when a step is added.
LEMMA PathGrows ==
  ASSUME NEW steps, NEW s, PathOk(steps), StepOk(s)
  PROVE  /\ PathOk(Append(steps, s)) /\ Len(Append(steps, s)) = Len(steps) + 1
         /\ steps \o <<s>> = Append(steps, s) /\ steps \o <<>> = steps
<1> DEFINE A == {steps[i] : i \in 1 .. Len(steps)}
<1>1. steps \in Seq(A)
  BY IsSeqTyped DEF PathOk
<1> HIDE DEF A
<1>2. IsSeq(Append(steps, s)) /\ Len(Append(steps, s)) = Len(steps) + 1
  BY AppendIsSeq DEF PathOk
<1>3. \A i \in 1 .. Len(steps) + 1 :
        Append(steps, s)[i] = IF i = Len(steps) + 1 THEN s ELSE steps[i]
  BY <1>1
<1>4. ASSUME NEW i \in 1 .. Len(steps) + 1 PROVE StepOk(Append(steps, s)[i])
  <2>1. CASE i = Len(steps) + 1
    BY <1>3, <2>1
  <2>2. CASE i # Len(steps) + 1
    <3>1. i \in 1 .. Len(steps)
      BY <1>1, <2>2
    <3> QED BY <1>3, <2>2, <3>1 DEF PathOk
  <2> QED BY <2>1, <2>2
<1>5. steps \o <<s>> = Append(steps, s) /\ steps \o <<>> = steps
  BY <1>1
<1> QED BY <1>2, <1>4, <1>5 DEF PathOk

\* The turn of the loop of ProofFor at one level: what it adds to the path leads to the node
\* above, wherever the node stands and whether or not it is promoted.
LEMMA OneLevelUp ==
  ASSUME NEW lower, NEW m \in Nat, Len(lower) = m, \A k \in 1 .. m : NodeOk(lower[k]),
         NEW pos \in 0 .. m - 1, NEW leaf, NEW steps, PathOk(steps),
         Walk(leaf, steps)[Len(steps)] = lower[pos + 1]
  PROVE  LET longer == steps \o SiblingStep(lower, pos)
         IN  /\ PathOk(longer)
             /\ Walk(leaf, longer)[Len(longer)] = NextLevel(lower)[pos \div 2 + 1]
             /\ pos \div 2 \in 0 .. (m + 1) \div 2 - 1
<1> DEFINE k == pos \div 2 + 1
           longer == steps \o SiblingStep(lower, pos)
           upper == NextLevel(lower)
<1>1. /\ pos \in Nat /\ pos < m /\ pos % 2 \in {0, 1} /\ k \in Nat
      /\ pos = 2 * (k - 1) + (pos % 2)
  <2>1. pos \in Nat /\ pos < m
    OBVIOUS
  <2>2. pos \div 2 \in Nat /\ pos % 2 \in 0 .. 1 /\ pos = 2 * (pos \div 2) + (pos % 2)
    BY <2>1
  <2> QED BY <2>1, <2>2
<1>2. k \in 1 .. (m + 1) \div 2 /\ pos \div 2 \in 0 .. (m + 1) \div 2 - 1
  <2>1. k \in Nat /\ k >= 1 /\ 2 * k <= m + 1
    BY <1>1
  <2> QED BY <2>1
<1> HIDE DEF k
<1>3. upper[k] = IF 2 * k > m THEN lower[2 * k - 1]
                 ELSE Parent(lower[2 * k - 1], lower[2 * k])
  BY <1>2 DEF NextLevel
<1> HIDE DEF upper
<1> SUFFICES PathOk(longer) /\ Walk(leaf, longer)[Len(longer)] = upper[k]
  BY <1>2 DEF k, upper
<1> DEFINE sibling == IF pos % 2 = 0 THEN pos + 1 ELSE pos - 1
           s == [sum |-> lower[sibling + 1].sum, hash |-> lower[sibling + 1].hash,
                 isLeft |-> pos % 2 = 1]
<1>4. SiblingStep(lower, pos) = IF sibling >= m THEN <<>> ELSE <<s>>
  BY DEF SiblingStep
<1>5. CASE sibling >= m
  <2>1. pos % 2 = 0 /\ pos + 1 >= m /\ 2 * k > m /\ 2 * k - 1 = pos + 1
    BY <1>1, <1>5
  <2>2. steps \o <<>> = steps
    <3> DEFINE A == {steps[i] : i \in 1 .. Len(steps)}
    <3>1. steps \in Seq(A)
      BY IsSeqTyped DEF PathOk
    <3> HIDE DEF A
    <3> QED BY <3>1
  <2>3. longer = steps
    BY <1>4, <1>5, <2>2
  <2> QED BY <1>3, <2>1, <2>3
<1>6. CASE ~ (sibling >= m)
  <2> DEFINE node == lower[pos + 1]
             other == lower[sibling + 1]
  <2>1. sibling + 1 \in 1 .. m /\ pos + 1 \in 1 .. m
    BY <1>1, <1>6
  <2>2. NodeOk(node) /\ NodeOk(other)
    BY <2>1
  <2>3. StepOk(s)
    <3>1. (pos % 2 = 1) \in BOOLEAN
      OBVIOUS
    <3> HIDE DEF sibling
    <3> QED BY <2>2, <3>1 DEF StepOk, NodeOk
  <2>4. /\ longer = Append(steps, s) /\ PathOk(longer) /\ Len(longer) = Len(steps) + 1
    <3>1. longer = steps \o <<s>>
      BY <1>4, <1>6
    <3> HIDE DEF s, longer
    <3> QED BY <2>3, <3>1, PathGrows
  <2>5. Walk(leaf, longer)[Len(longer)] = Climbed(node, s)
    <3>1. IsSeq(steps)
      BY DEF PathOk
    <3> HIDE DEF s, longer
    <3> QED BY <2>4, <3>1, WalkAppend
  <2>6. Climbed(node, s) = upper[k]
    <3>1. CASE pos % 2 = 0
      <4>1. ~ (2 * k > m) /\ 2 * k - 1 = pos + 1 /\ 2 * k = sibling + 1
        BY <1>1, <1>6, <3>1
      <4>2. Climbed(node, s) = Parent(node, s)
        <5>1. pos % 2 # 1
          BY <3>1
        <5>2. ~ s.isLeft
          BY <5>1, Zenon
        <5> QED BY <5>2 DEF Climbed
      <4> QED BY <1>3, <4>1, <4>2 DEF Parent
    <3>2. CASE pos % 2 = 1
      <4>1. ~ (2 * k > m) /\ 2 * k = pos + 1 /\ 2 * k - 1 = sibling + 1
        BY <1>1, <1>6, <3>2
      <4>2. Climbed(node, s) = Parent(s, node)
        BY <3>2 DEF Climbed
      <4> QED BY <1>3, <4>1, <4>2 DEF Parent
    <3> QED BY <1>1, <3>1, <3>2
  <2> QED BY <2>4, <2>5, <2>6
<1> QED BY <1>5, <1>6

\* For every shape of the tree, the path ProofFor generates for a leaf verifies under the
\* root and total of the tree, and consists of whole sums.
THEOREM GeneratedPathsVerify ==
  ASSUME NEW Leaves, NEW ls \in Seq(Leaves), ls # <<>>,
         \A i \in DOMAIN ls : LeafSound(ls[i]),
         NEW index \in 0 .. Len(ls) - 1
  PROVE  LET tree  == BuildLiabilityTree(ls)
             steps == ProofFor(tree, index)
         IN  /\ VerifyLiabilityProof(ls[index + 1], steps, RootHash(tree), Total(tree))
             /\ PathOk(steps)
<1> DEFINE n == Len(ls)
           level == LevelsOver(ls)
           D == Depth(level)
           tree == BuildLiabilityTree(ls)
           pos == Positions(index, D)
           leaf == ls[index + 1]
           ss == [d \in 1 .. D |-> SiblingStep(level[d - 1], pos[d - 1])]
<1>1. n \in Nat /\ n >= 1 /\ DOMAIN ls = 1 .. n /\ index \in Nat /\ index + 1 \in 1 .. n
  OBVIOUS
<1>2. IsLevels(level, ls, n)
  BY <1>1, LevelsDef
<1>3. /\ \A d \in 0 .. n : Len(level[d]) \in Nat /\ Len(level[d]) >= 1
      /\ D \in 0 .. n
      /\ Len(level[D]) = 1
  BY LevelsShrink
<1>4. \A d \in 0 .. n : \A k \in 1 .. Len(level[d]) : NodeOk(level[d][k])
  BY NodesOk
<1>5. D \in Nat /\ 0 .. D \subseteq 0 .. n /\ 1 .. D \subseteq 1 .. n
  BY <1>1, <1>3
<1>6. IsPlaces(pos, index, D)
  BY <1>5, PositionsDef
<1>7. /\ Len(tree) = D + 1 /\ tree[D + 1] = level[D]
      /\ \A d \in 1 .. D : tree[d] = level[d - 1]
  <2>1. tree = [d \in 1 .. D + 1 |-> level[d - 1]]
    BY DEF BuildLiabilityTree
  <2>2. tree = [d \in 1 .. D + 1 |-> tree[d]]
    BY <2>1
  <2> HIDE DEF tree, D, level
  <2>3. D + 1 \in Nat /\ D + 1 \in 1 .. D + 1 /\ (D + 1) - 1 = D /\ 1 .. D \subseteq 1 .. D + 1
    BY <1>5
  <2>4. Len(tree) = D + 1
    BY <2>2, <2>3, LenOfFunction
  <2> QED BY <2>1, <2>3, <2>4
<1>8. ProofFor(tree, index) = FlattenSeq(ss)
  <2> DEFINE top == Len(tree) - 1
  <2>1. top = D
    BY <1>5, <1>7
  <2>2. ProofFor(tree, index)
          = FlattenSeq([d \in 1 .. top |-> SiblingStep(tree[d], Positions(index, top)[d - 1])])
    BY DEF ProofFor
  <2> HIDE DEF top, tree, D, level
  <2>3. [d \in 1 .. D |-> SiblingStep(tree[d], pos[d - 1])] = ss
    BY <1>7
  <2> QED BY <2>1, <2>2, <2>3
<1>9. leaf = ls[index + 1] /\ LeafSound(leaf)
  BY <1>1
<1>10. Len(level[0]) = n /\ level[0][index + 1] = LeafNode(leaf)
  <2> DEFINE f == level[0]
  <2>1. f = [i \in 1 .. n |-> LeafNode(ls[i])]
    BY <1>1, <1>2 DEF IsLevels, LeafLevel
  <2>2. f = [i \in 1 .. n |-> f[i]]
    BY <2>1
  <2> HIDE DEF f
  <2>3. Len(f) = n
    BY <1>1, <2>2, LenOfFunction
  <2> QED BY <1>1, <2>1, <2>3 DEF f
<1> HIDE DEF level, D, pos, leaf, n, tree
<1>11. \A d \in 1 .. D : IsSeq(ss[d])
  <2>1. IsSeq(<<>>) /\ \A x : IsSeq(<<x>>)
    BY DEF IsSeq
  <2> QED BY <2>1 DEF SiblingStep
<1>12. /\ ss = [d \in 1 .. D |-> ss[d]]
       /\ \A d \in 1 .. D : ss[d] = SiblingStep(level[d - 1], pos[d - 1])
  OBVIOUS
<1> HIDE DEF ss
<1>13. PICK f : /\ f[0] = <<>> /\ f[D] = FlattenSeq(ss)
                /\ \A d \in 0 .. D : IsSeq(f[d])
                /\ \A d \in 1 .. D : f[d] = f[d - 1] \o ss[d]
  BY <1>5, <1>11, <1>12, FlattenSteps
<1> DEFINE S == {d \in 0 .. D : /\ PathOk(f[d])
                                /\ pos[d] \in 0 .. Len(level[d]) - 1
                                /\ Walk(leaf, f[d])[Len(f[d])] = level[d][pos[d] + 1]}
<1>14. 0 \in S
  <2>1. PathOk(<<>>) /\ Len(<<>>) = 0
    BY DEF PathOk, IsSeq
  <2>2. Walk(leaf, <<>>)[0] = LeafNode(leaf)
    <3>1. IsWalk(Walk(leaf, <<>>), leaf, <<>>, Len(<<>>))
      BY <2>1, WalkDef
    <3> QED BY <3>1 DEF IsWalk
  <2>3. pos[0] = index
    BY <1>6 DEF IsPlaces
  <2>4. 0 \in 0 .. D
    BY <1>5
  <2> QED BY <1>1, <1>10, <1>13, <2>1, <2>2, <2>3, <2>4
<1>15. ASSUME NEW d \in 1 .. D, d - 1 \in S PROVE d \in S
  <2> DEFINE lower == level[d - 1]
             m == Len(lower)
             p == pos[d - 1]
  <2>1. d \in 0 .. D /\ d - 1 \in 0 .. n /\ d \in 0 .. n /\ d \in 1 .. n
    BY <1>1, <1>5
  <2>2. m \in Nat /\ \A k \in 1 .. m : NodeOk(lower[k])
    BY <1>3, <1>4, <2>1
  <2>3. level[d] = NextLevel(lower) /\ pos[d] = p \div 2
    BY <1>2, <1>6, <2>1 DEF IsLevels, IsPlaces
  <2>4. PathOk(f[d - 1]) /\ p \in 0 .. m - 1
        /\ Walk(leaf, f[d - 1])[Len(f[d - 1])] = lower[p + 1]
    BY <1>15
  <2>5. f[d] = f[d - 1] \o SiblingStep(lower, p)
    BY <1>12, <1>13
  <2> HIDE DEF lower, p
  <2>6. Len(level[d]) = (m + 1) \div 2
    BY <2>2, <2>3, HalvedLevel
  <2>7. /\ PathOk(f[d])
        /\ p \div 2 \in 0 .. (m + 1) \div 2 - 1
        /\ Walk(leaf, f[d])[Len(f[d])] = NextLevel(lower)[p \div 2 + 1]
    <3> DEFINE g == f[d - 1]
    <3>1. /\ Len(lower) = m /\ m \in Nat /\ p \in 0 .. m - 1 /\ PathOk(g)
          /\ \A k \in 1 .. m : NodeOk(lower[k])
          /\ Walk(leaf, g)[Len(g)] = lower[p + 1]
      BY <2>2, <2>4
    <3>2. f[d] = g \o SiblingStep(lower, p)
      BY <2>5
    <3> HIDE DEF m, g
    <3> DEFINE longer == g \o SiblingStep(lower, p)
    <3>3. /\ PathOk(longer) /\ p \div 2 \in 0 .. (m + 1) \div 2 - 1
          /\ Walk(leaf, longer)[Len(longer)] = NextLevel(lower)[p \div 2 + 1]
      BY <3>1, OneLevelUp
    <3> QED BY <3>2, <3>3
  <2> QED BY <2>1, <2>3, <2>6, <2>7
<1>16. D \in S
  <2>1. D \in 0 .. D
    BY <1>5
  <2> HIDE DEF S
  <2> QED BY <1>5, <1>14, <1>15, <2>1, IntervalInduction
<1> DEFINE steps == ProofFor(tree, index)
           top == level[D][1]
<1>17. PathOk(steps) /\ Walk(leaf, steps)[Len(steps)] = top
  <2>1. pos[D] = 0
    BY <1>3, <1>16
  <2> QED BY <1>8, <1>13, <1>16, <2>1
<1>18. RootHash(tree) = top.hash /\ Total(tree) = top.sum
  <2>1. Last(tree) = level[D]
    BY <1>7 DEF Last
  <2> QED BY <2>1 DEF RootHash, Total
<1>19. NodeOk(top)
  BY <1>3, <1>4
<1> HIDE DEF steps, top
<1>20. Walk(leaf, steps)[Len(steps)] = [sum |-> Total(tree), hash |-> RootHash(tree)]
  BY <1>17, <1>18, <1>19 DEF NodeOk
<1>21. WellFormedProof(leaf, steps, RootHash(tree), Total(tree))
  <2>1. LeafOk(leaf)
    BY <1>9 DEF LeafSound, LeafOk
  <2>2. HashSized(RootHash(tree)) /\ Total(tree) >= 0
    BY <1>18, <1>19 DEF NodeOk, HashSized
  <2>3. DOMAIN steps = 1 .. Len(steps)
    BY <1>17 DEF PathOk, IsSeq
  <2>4. \A i \in DOMAIN steps : HashSized(steps[i].hash) /\ steps[i].sum >= 0
    BY <1>17, <2>3 DEF PathOk, StepOk, HashSized
  <2> QED BY <2>1, <2>2, <2>4 DEF WellFormedProof
<1> QED BY <1>17, <1>20, <1>21 DEF VerifyLiabilityProof, tree, leaf, steps

-----------------------------------------------------------------------------
(* What a list of leaves holds for an account, or for a reader *)

\* The leaves that GenerateLiabilityLeaves makes of whole balances.
LeafSet ==
  [salt : {Salt(n) : n \in Nat}, publicId : Accounts, balance : {x \in Int : Whole(x)}]

Own(a) == {l \in LeafSet : l.publicId = a}

\* The balances of those leaves of a list that are in T, and their sum.
Mask(ls, T) == [i \in 1 .. Len(ls) |-> IF ls[i] \in T THEN ls[i].balance ELSE 0]

HeldIn(ls, T) == SumTo(Mask(ls, T), Len(ls))

\* What is known of one leaf of a list.
LEMMA LeafOfList ==
  ASSUME NEW ls \in Seq(LeafSet), NEW i \in 1 .. Len(ls)
  PROVE  /\ ls[i] \in LeafSet
         /\ ls[i] = [salt |-> ls[i].salt, publicId |-> ls[i].publicId,
                     balance |-> ls[i].balance]
         /\ ls[i].publicId \in Accounts
         /\ ls[i].balance \in Int /\ Whole(ls[i].balance)
         /\ \E n \in Nat : ls[i].salt = Salt(n)
<1>1. ls[i] \in LeafSet
  OBVIOUS
<1> QED BY <1>1 DEF LeafSet

\* Whatever the list holds is an integer, leaf by leaf.
LEMMA MaskIsInt ==
  ASSUME NEW ls \in Seq(LeafSet), NEW T
  PROVE  /\ \A i \in 1 .. Len(ls) : Mask(ls, T)[i] \in Int
         /\ HeldIn(ls, T) \in Int
         /\ Len(ls) \in Nat
<1>1. ASSUME NEW i \in 1 .. Len(ls) PROVE Mask(ls, T)[i] \in Int
  <2>1. ls[i].balance \in Int
    BY LeafOfList
  <2> QED BY <2>1 DEF Mask
<1>2. Len(ls) \in Nat
  OBVIOUS
<1> QED BY <1>1, <1>2, SumIsInt DEF HeldIn

\* Two lists hold what both hold.
LEMMA HeldAppend ==
  ASSUME NEW ls \in Seq(LeafSet), NEW more \in Seq(LeafSet), NEW T
  PROVE  HeldIn(ls \o more, T) = HeldIn(ls, T) + HeldIn(more, T)
<1> DEFINE all == ls \o more
           n == Len(ls)
           m == Len(more)
           f == Mask(all, T)
<1>1. all \in Seq(LeafSet) /\ n \in Nat /\ m \in Nat /\ Len(all) = n + m
  OBVIOUS
<1>2. /\ \A i \in 1 .. n : all[i] = ls[i]
      /\ \A i \in 1 .. m : all[n + i] = more[i]
  OBVIOUS
<1> HIDE DEF all, n, m
<1>3. \A i \in 1 .. n + m : f[i] \in Int
  BY <1>1, MaskIsInt
<1>4. \A i \in 1 .. n : f[i] = Mask(ls, T)[i]
  BY <1>1, <1>2 DEF Mask, n
<1>5. \A i \in 1 .. m : Mask(more, T)[i] = f[n + i]
  <2>1. \A i \in 1 .. m : n + i \in 1 .. n + m
    BY <1>1
  <2> QED BY <1>1, <1>2, <2>1 DEF Mask, m
<1>6. \A i \in 1 .. n : Mask(ls, T)[i] \in Int
  BY MaskIsInt DEF n
<1> HIDE DEF f
<1>7. SumTo(f, n + m) = SumTo(f, n) + SumTo(Mask(more, T), m)
  <2> DEFINE g == Mask(more, T)
  <2>1. \A i \in 1 .. m : g[i] = f[n + i]
    BY <1>5
  <2>2. n \in Nat /\ m \in Nat
    BY <1>1
  <2> HIDE DEF g
  <2>3. SumTo(f, n + m) = SumTo(f, n) + SumTo(g, m)
    BY <1>3, <2>1, <2>2, SumSplit
  <2> QED BY <2>3 DEF g
<1>8. SumTo(f, n) = SumTo(Mask(ls, T), n)
  BY <1>1, <1>4, <1>6, SumsEqual
<1> QED BY <1>1, <1>7, <1>8 DEF HeldIn, all, n, m, f

\* A swap of two leaves.
Swapped(ls, p, j) == [ls EXCEPT ![p] = ls[j], ![j] = ls[p]]

\* It leaves a list of leaves, and every leaf comes from one place of the old list.
LEMMA SwapMoves ==
  ASSUME NEW ls \in Seq(LeafSet), NEW p \in 1 .. Len(ls), NEW j \in 1 .. Len(ls)
  PROVE  LET new == Swapped(ls, p, j)
         IN  /\ new \in Seq(LeafSet) /\ Len(new) = Len(ls)
             /\ \A i \in 1 .. Len(ls) :
                  new[i] = ls[IF i = j THEN p ELSE IF i = p THEN j ELSE i]
<1> DEFINE new == Swapped(ls, p, j)
           n == Len(ls)
<1>1. /\ n \in Nat /\ p \in 1 .. n /\ j \in 1 .. n
      /\ \A i \in 1 .. n : ls[i] \in LeafSet
      /\ ls = [i \in 1 .. n |-> ls[i]]
  OBVIOUS
<1> HIDE DEF n
<1>2. /\ \A i \in 1 .. n : new[i] = ls[IF i = j THEN p ELSE IF i = p THEN j ELSE i]
      /\ new \in [1 .. n -> LeafSet]
  BY <1>1 DEF Swapped
<1> HIDE DEF new
<1>3. new = [i \in 1 .. n |-> new[i]] /\ new \in Seq(LeafSet)
  BY <1>1, <1>2
<1>4. Len(new) = n
  BY <1>1, <1>3, LenOfFunction
<1> QED BY <1>2, <1>3, <1>4 DEF new, n

\* And it changes nothing of what the list holds.
LEMMA HeldSwap ==
  ASSUME NEW ls \in Seq(LeafSet), NEW p \in 1 .. Len(ls), NEW j \in 1 .. Len(ls), NEW T
  PROVE  HeldIn(Swapped(ls, p, j), T) = HeldIn(ls, T)
<1> DEFINE new == Swapped(ls, p, j)
           n == Len(ls)
           f == Mask(ls, T)
           g == [i \in 1 .. n |-> IF i = p THEN f[j] ELSE f[i]]
           h == Mask(new, T)
<1>1. /\ new \in Seq(LeafSet) /\ Len(new) = n /\ n \in Nat
      /\ \A i \in 1 .. n : new[i] = ls[IF i = j THEN p ELSE IF i = p THEN j ELSE i]
  BY SwapMoves
<1>2. p \in 1 .. n /\ j \in 1 .. n
  OBVIOUS
<1>3. \A i \in 1 .. n : f[i] \in Int /\ h[i] \in Int
  <2> HIDE DEF new
  <2> QED BY <1>1, MaskIsInt
<1> HIDE DEF new, n
<1>4. \A i \in 1 .. n : h[i] = f[IF i = j THEN p ELSE IF i = p THEN j ELSE i]
  BY <1>1, <1>2 DEF Mask, n
<1> HIDE DEF f, h
<1>5. \A i \in 1 .. n : g[i] \in Int /\ (i # p => g[i] = f[i])
  BY <1>2, <1>3
<1>6. g[p] = f[j] /\ (p # j => g[j] = f[j])
  BY <1>2
<1>7. \A i \in 1 .. n : i # j => h[i] = g[i]
  BY <1>2, <1>4
<1> HIDE DEF g
<1>8. SumTo(g, n) = SumTo(f, n) + (g[p] - f[p])
  <2>1. /\ n \in Nat /\ p \in 1 .. n
        /\ \A k \in 1 .. n : f[k] \in Int /\ g[k] \in Int
        /\ \A k \in 1 .. n : k # p => g[k] = f[k]
    BY <1>1, <1>2, <1>3, <1>5
  <2> QED BY <2>1, SumChanged
<1>9. SumTo(h, n) = SumTo(g, n) + (h[j] - g[j])
  <2>1. /\ n \in Nat /\ j \in 1 .. n
        /\ \A k \in 1 .. n : g[k] \in Int /\ h[k] \in Int
        /\ \A k \in 1 .. n : k # j => h[k] = g[k]
    BY <1>1, <1>2, <1>3, <1>5, <1>7
  <2> QED BY <2>1, SumChanged
<1>10. h[j] = f[p]
  BY <1>2, <1>4
<1>11. f[p] \in Int /\ f[j] \in Int /\ SumTo(f, n) \in Int
  BY <1>1, <1>2, <1>3, SumIsInt
<1>12. SumTo(h, n) = SumTo(f, n)
  BY <1>6, <1>8, <1>9, <1>10, <1>11
<1> QED BY <1>1, <1>12 DEF HeldIn, new, n, f, h

SaltsDiffer(ls) ==
  \A i, j \in 1 .. Len(ls) : ls[i].salt = ls[j].salt => i = j

\* One more leaf counts once.
LEMMA HeldMore ==
  ASSUME NEW ls \in Seq(LeafSet), SaltsDiffer(ls), NEW T, NEW i \in 1 .. Len(ls),
         ls[i] \notin T
  PROVE  HeldIn(ls, T \cup {ls[i]}) = HeldIn(ls, T) + ls[i].balance
<1> DEFINE f == Mask(ls, T)
           g == Mask(ls, T \cup {ls[i]})
           n == Len(ls)
<1>1. \A k \in 1 .. n : f[k] \in Int /\ g[k] \in Int
  BY MaskIsInt
<1>2. \A k \in 1 .. n : k # i => ls[k] # ls[i]
  BY DEF SaltsDiffer
<1>3. \A k \in 1 .. n : k # i => g[k] = f[k]
  BY <1>2 DEF Mask
<1>4. f[i] = 0 /\ g[i] = ls[i].balance
  BY DEF Mask
<1>5. n \in Nat /\ i \in 1 .. n
  OBVIOUS
<1>6. ls[i].balance \in Int /\ SumTo(f, n) \in Int
  <2>1. HeldIn(ls, T) \in Int
    BY MaskIsInt
  <2> QED BY <2>1, LeafOfList DEF HeldIn
<1> HIDE DEF f, g, n
<1>7. SumTo(g, n) = SumTo(f, n) + (g[i] - f[i])
  BY <1>1, <1>3, <1>5, SumChanged
<1>8. SumTo(g, n) = SumTo(f, n) + ls[i].balance
  BY <1>4, <1>6, <1>7
<1> QED BY <1>8 DEF HeldIn, f, g, n

\* No leaf, nothing held.
LEMMA HeldByNone ==
  ASSUME NEW ls \in Seq(LeafSet), NEW T, \A i \in 1 .. Len(ls) : ls[i] \notin T
  PROVE  HeldIn(ls, T) = 0
<1>1. \A i \in 1 .. Len(ls) : Mask(ls, T)[i] = 0
  BY DEF Mask
<1>2. Len(ls) \in Nat
  OBVIOUS
<1> QED BY <1>1, <1>2, SumOfZeros DEF HeldIn

\* The leaves of a split: new salts, one owner, and the whole balance between them.
LEMMA FragmentsHold ==
  ASSUME NEW a \in Accounts, NEW total, Whole(total), leaves \in Seq(LeafSet),
         NEW k \in Nat \ {0}, NEW w \in [1 .. k -> Weights]
  PROVE  LET more == Fragments(a, RandPartition(total, w))
         IN  /\ more \in Seq(LeafSet) /\ Len(more) = k
             /\ \A j \in 1 .. k : more[j].salt = Salt(Len(leaves) + j)
                                  /\ more[j].publicId = a
             /\ HeldIn(more, Own(a)) = total
             /\ \A b \in Accounts \ {a} : HeldIn(more, Own(b)) = 0
<1> DEFINE parts == RandPartition(total, w)
           more == Fragments(a, parts)
           n == Len(leaves)
<1>1. /\ IsSeq(parts) /\ Len(parts) = k
      /\ \A j \in 1 .. k : Whole(parts[j])
      /\ SumTo(parts, k) = total
  BY SplitsAreExact
<1> HIDE DEF parts
<1>2. DOMAIN parts = 1 .. k
  BY <1>1 DEF IsSeq
<1>3. more = [j \in 1 .. k |-> [salt |-> Salt(n + j), publicId |-> a, balance |-> parts[j]]]
  BY <1>2 DEF Fragments
<1> HIDE DEF more
<1>4. ASSUME NEW j \in 1 .. k PROVE more[j] \in LeafSet
  <2>1. n + j \in Nat /\ parts[j] \in Int
    BY <1>1 DEF Whole
  <2>2. Salt(n + j) \in {Salt(i) : i \in Nat}
    BY <2>1
  <2>3. more[j] = [salt |-> Salt(n + j), publicId |-> a, balance |-> parts[j]]
    BY <1>3
  <2> QED BY <1>1, <2>1, <2>2, <2>3 DEF LeafSet
<1>5. more = [j \in 1 .. k |-> more[j]]
  BY <1>3
<1>6. more \in Seq(LeafSet)
  BY <1>4, <1>5
<1>7. Len(more) = k
  BY <1>5, LenOfFunction
<1>8. HeldIn(more, Own(a)) = total
  <2>1. \A j \in 1 .. k : Mask(more, Own(a))[j] = parts[j]
    <3>1. ASSUME NEW j \in 1 .. k PROVE Mask(more, Own(a))[j] = parts[j]
      <4>1. more[j] \in Own(a) /\ more[j].balance = parts[j]
        BY <1>3, <1>4 DEF Own
      <4> QED BY <1>7, <4>1 DEF Mask
    <3> QED BY <3>1
  <2>2. \A j \in 1 .. k : parts[j] \in Int
    BY <1>1 DEF Whole
  <2>3. SumTo(Mask(more, Own(a)), k) = SumTo(parts, k)
    BY <2>1, <2>2, SumsEqual
  <2> QED BY <1>1, <1>7, <2>3 DEF HeldIn
<1>9. ASSUME NEW b \in Accounts \ {a} PROVE HeldIn(more, Own(b)) = 0
  <2>1. \A j \in 1 .. Len(more) : more[j] \notin Own(b)
    BY <1>3, <1>7 DEF Own
  <2> QED BY <1>6, <2>1, HeldByNone
<1>10. \A j \in 1 .. k : more[j].salt = Salt(n + j) /\ more[j].publicId = a
  BY <1>3
<1> QED BY <1>6, <1>7, <1>8, <1>9, <1>10 DEF more, parts, n

-----------------------------------------------------------------------------
(* What the operator's API serves *)

\* An honest document renders and reads back a leaf as it is.
LEMMA LeafReadsBack ==
  ASSUME NEW l, l = [salt |-> l.salt, publicId |-> l.publicId, balance |-> l.balance],
         l.balance \in Nat, Whole(l.balance)
  PROVE  /\ [l EXCEPT !.balance = CanonicalAmount(@)] = l
         /\ [l EXCEPT !.balance = ParsedAmount(@)] = l
         /\ l.balance # Malformed
<1>1. CanonicalAmount(l.balance) = l.balance
  BY WholeIsCanonical
<1>2. ParsedAmount(l.balance) = l.balance /\ l.balance # Malformed
  BY SentinelAssumption DEF ParsedAmount
<1>3. [l EXCEPT !.balance = l.balance] = l
  OBVIOUS
<1> QED BY <1>1, <1>2, <1>3

\* And a step of a path.
LEMMA StepReadsBack ==
  ASSUME NEW s, StepOk(s)
  PROVE  /\ [s EXCEPT !.sum = CanonicalAmount(@)] = s
         /\ [s EXCEPT !.sum = ParsedAmount(@)] = s
         /\ s.sum # Malformed
<1>1. CanonicalAmount(s.sum) = s.sum
  BY WholeIsCanonical DEF StepOk
<1>2. ParsedAmount(s.sum) = s.sum /\ s.sum # Malformed
  BY SentinelAssumption DEF ParsedAmount, StepOk
<1>3. [s EXCEPT !.sum = s.sum] = s
  BY DEF StepOk
<1> QED BY <1>1, <1>2, <1>3

\* What the operator's API serves of his tree verifies, and reads back as the leaf it is of.
LEMMA ServedVerifies ==
  ASSUME leaves \in Seq(LeafSet), NEW i \in 1 .. Len(leaves),
         \A j \in 1 .. Len(leaves) : leaves[j].balance >= 0,
         levels = BuildLiabilityTree(leaves)
  PROVE  /\ WireLeafOk(Served(i), RootHash(levels), Total(levels))
         /\ Served(i).leaf = leaves[i] /\ DecodedLeaf(Served(i)) = leaves[i]
<1> DEFINE steps == ProofFor(levels, i - 1)
           leaf == leaves[i]
<1>1. \A j \in DOMAIN leaves : LeafSound(leaves[j])
  <2>1. ASSUME NEW j \in 1 .. Len(leaves) PROVE LeafSound(leaves[j])
    <3>1. /\ leaves[j].balance \in Int /\ Whole(leaves[j].balance)
          /\ \E n \in Nat : leaves[j].salt = Salt(n)
      BY LeafOfList
    <3>2. leaves[j].salt # Misfit
      BY <3>1 DEF Salt, Misfit
    <3>3. leaves[j].balance \in Nat
      BY <3>1
    <3> QED BY <3>1, <3>2, <3>3 DEF LeafSound
  <2>2. DOMAIN leaves = 1 .. Len(leaves)
    OBVIOUS
  <2> QED BY <2>1, <2>2
<1>2. leaves # <<>> /\ i - 1 \in 0 .. Len(leaves) - 1 /\ (i - 1) + 1 = i /\ i \in DOMAIN leaves
  OBVIOUS
<1>3. VerifyLiabilityProof(leaf, steps, RootHash(levels), Total(levels)) /\ PathOk(steps)
  BY <1>1, <1>2, GeneratedPathsVerify
<1>4. /\ leaf = [salt |-> leaf.salt, publicId |-> leaf.publicId, balance |-> leaf.balance]
      /\ leaf.balance \in Nat /\ Whole(leaf.balance)
  <2>1. leaf.balance \in Nat /\ Whole(leaf.balance)
    BY <1>1, <1>2 DEF LeafSound
  <2> QED BY <2>1, LeafOfList
<1> HIDE DEF steps, leaf
<1> DEFINE wired == [leaf EXCEPT !.balance = CanonicalAmount(@)]
           path == [j \in DOMAIN steps |-> [steps[j] EXCEPT !.sum = CanonicalAmount(@)]]
<1>5. wired = leaf
  BY <1>4, LeafReadsBack
<1>6. steps = [j \in DOMAIN steps |-> steps[j]] /\ \A j \in DOMAIN steps : StepOk(steps[j])
  BY <1>3 DEF PathOk, IsSeq
<1>7. path = steps
  BY <1>6, StepReadsBack
<1>8. Served(i).leaf = leaf /\ Served(i).proof = steps
  <2>1. Served(i) = [leaf |-> wired, proof |-> path]
    BY DEF Served, NewLiabilityWireLeaf, leaf, steps
  <2> HIDE DEF wired, path
  <2> QED BY <1>5, <1>7, <2>1
<1>9. DecodedLeaf(Served(i)) = leaf
  BY <1>4, <1>8, LeafReadsBack DEF DecodedLeaf
<1>10. DecodedProof(Served(i)) = steps
  <2>1. DecodedProof(Served(i))
          = [j \in DOMAIN steps |-> [steps[j] EXCEPT !.sum = ParsedAmount(@)]]
    BY <1>8 DEF DecodedProof
  <2>2. \A j \in DOMAIN steps : [steps[j] EXCEPT !.sum = ParsedAmount(@)] = steps[j]
    BY <1>6, StepReadsBack
  <2> QED BY <1>6, <2>1, <2>2
<1>11. Decodes(Served(i))
  <2>1. leaf.balance # Malformed
    BY <1>4, LeafReadsBack
  <2>2. \A j \in DOMAIN steps : steps[j].sum # Malformed
    BY <1>6, StepReadsBack
  <2> QED BY <1>8, <2>1, <2>2 DEF Decodes
<1> QED BY <1>3, <1>8, <1>9, <1>10, <1>11 DEF WireLeafOk, leaf

\* The own leaves of an account.
OwnLeaves(a) == {leaves[i] : i \in {j \in DOMAIN leaves : leaves[j].publicId = a}}

\* As many different leaves of his as there are records for him: all of them.
LEMMA AllOfThem ==
  ASSUME NEW a, leaves \in Seq(LeafSet), NEW T, T \subseteq OwnLeaves(a),
         \A i \in DOMAIN leaves : Served(i).leaf = leaves[i],
         Cardinality(T) = Cardinality(ServedTo(a))
  PROVE  T = OwnLeaves(a)
<1> DEFINE Places == {j \in DOMAIN leaves : leaves[j].publicId = a}
           f == [j \in Places |-> Served(j)]
           g == [x \in ServedTo(a) |-> x.leaf]
<1>1. IsFiniteSet(Places)
  <2>1. Len(leaves) \in Int /\ DOMAIN leaves = 1 .. Len(leaves)
    OBVIOUS
  <2>2. IsFiniteSet(1 .. Len(leaves))
    BY <2>1, FS_Interval
  <2>3. Places \in SUBSET (1 .. Len(leaves))
    BY <2>1
  <2> HIDE DEF Places
  <2> QED BY <2>2, <2>3, FS_Subset
<1>2. f \in Surjection(Places, ServedTo(a))
  BY DEF Surjection, ServedTo
<1>3. g \in Surjection(ServedTo(a), OwnLeaves(a))
  <2>1. ASSUME NEW x \in ServedTo(a) PROVE g[x] \in OwnLeaves(a)
    BY DEF ServedTo, OwnLeaves
  <2>2. ASSUME NEW l \in OwnLeaves(a) PROVE \E x \in ServedTo(a) : g[x] = l
    BY DEF ServedTo, OwnLeaves
  <2>3. g \in [ServedTo(a) -> OwnLeaves(a)]
    BY <2>1
  <2> HIDE DEF g
  <2> QED BY <2>2, <2>3 DEF Surjection
<1> HIDE DEF f, g, Places
<1>4. IsFiniteSet(ServedTo(a))
  BY <1>1, <1>2, FS_Surjection
<1>5. IsFiniteSet(OwnLeaves(a)) /\ Cardinality(OwnLeaves(a)) <= Cardinality(ServedTo(a))
  BY <1>3, <1>4, FS_Surjection
<1>6. /\ Cardinality(T) <= Cardinality(OwnLeaves(a))
      /\ Cardinality(OwnLeaves(a)) = Cardinality(T) => OwnLeaves(a) = T
  BY <1>5, FS_Subset
<1>7. Cardinality(OwnLeaves(a)) \in Nat /\ Cardinality(ServedTo(a)) \in Nat
  BY <1>4, <1>5, FS_CardinalityType
<1> QED BY <1>5, <1>6, <1>7

-----------------------------------------------------------------------------
(* Splits that add up *)

\* The balances that the operator publishes are whole numbers of canonical units: the wire
\* form of an amount has 18 digits.
WholeBalances ==
  \A b \in InputSets : \A a \in Accounts : CanonicalAmount(b[a]) = b[a]

\* The leaves of an account hold its balance.
IsSplit(a) ==
  /\ HeldIn(leaves, Own(a)) = balances[a]
  /\ \E i \in 1 .. Len(leaves) : leaves[i].publicId = a

\* While accounts are split, one after another, the leaves carry one salt after another and
\* hold the balances of those that were; the shuffle leaves every account its balance.
SplitInv ==
  /\ balances \in InputSets
  /\ leaves \in Seq(LeafSet)
  /\ SaltsDiffer(leaves)
  /\ stage = "split" =>
       /\ place \in Accounts
       /\ \A i \in 1 .. Len(leaves) : leaves[i].salt = Salt(i)
       /\ \A a \in Accounts : IF a < place THEN IsSplit(a) ELSE HeldIn(leaves, Own(a)) = 0
  /\ stage = "shuffle" => place \in 0 .. Len(leaves)
  /\ stage \in {"shuffle", "build", "published"} => \A a \in Accounts : IsSplit(a)
  /\ stage = "published" /\ ~forged => \A i \in 1 .. Len(leaves) : leaves[i].balance >= 0

\* Salts of the same number are the same, and others are not.
LEMMA SaltTells ==
  ASSUME NEW m, NEW n, Salt(m) = Salt(n)
  PROVE  m = n
BY DEF Salt

\* At first nothing is split.
LEMMA SplitInvInit ==
  ASSUME Init
  PROVE  SplitInv
<1>1. /\ balances \in InputSets /\ leaves = <<>> /\ stage = "split" /\ place = 1
  BY DEF Init
<1>2. leaves \in Seq(LeafSet) /\ Len(leaves) = 0 /\ 1 .. Len(leaves) = {}
  BY <1>1
<1>3. ASSUME NEW a \in Accounts PROVE ~ (a < 1) /\ HeldIn(leaves, Own(a)) = 0
  <2>1. ~ (a < 1)
    BY DEF Accounts
  <2>2. HeldIn(leaves, Own(a)) = 0
    BY <1>2, HeldByNone
  <2> QED BY <2>1, <2>2
<1>4. 1 \in Accounts
  BY SplitAssumption DEF Accounts
<1> QED BY <1>1, <1>2, <1>3, <1>4 DEF SplitInv, SaltsDiffer

\* A split adds leaves that hold the balance of one more account, and nothing for others.
LEMMA SplitInvSplit ==
  ASSUME WholeBalances, SplitInv, SplitAccount
  PROVE  SplitInv'
<1>1. SplitOf(place) \subseteq Nat \ {0}
  BY SplitAssumption DEF SplitOf
<1> DEFINE Step(w) ==
             LET all == leaves \o Fragments(place, RandPartition(balances[place], w))
             IN  /\ leaves' = all
                 /\ IF place < NumAccounts
                    THEN stage' = "split" /\ place' = place + 1
                    ELSE stage' = "shuffle" /\ place' = Len(all)
<1>2. PICK k \in SplitOf(place) : \E w \in [1 .. k -> Weights] : Step(w)
  BY DEF SplitAccount
<1>3. PICK w \in [1 .. k -> Weights] : Step(w)
  BY <1>2
<1> DEFINE total == balances[place]
           more == Fragments(place, RandPartition(total, w))
           n == Len(leaves)
<1>4. stage = "split" /\ UNCHANGED <<balances, forged>>
  BY DEF SplitAccount
<1>5. /\ place \in Accounts /\ leaves \in Seq(LeafSet) /\ balances \in InputSets
      /\ \A i \in 1 .. n : leaves[i].salt = Salt(i)
      /\ \A a \in Accounts : IF a < place THEN IsSplit(a) ELSE HeldIn(leaves, Own(a)) = 0
  BY <1>4 DEF SplitInv
<1>6. total \in Int /\ Whole(total)
  <2>1. balances \in [Accounts -> Int]
    BY <1>5, SplitAssumption
  <2>2. total \in Int
    BY <1>5, <2>1
  <2>3. CanonicalAmount(total) = total
    BY <1>5 DEF WholeBalances
  <2> QED BY <2>2, <2>3, CanonicalIsWhole
<1>7. k \in Nat \ {0}
  BY <1>1
<1> HIDE DEF total
<1>8. /\ more \in Seq(LeafSet) /\ Len(more) = k
      /\ \A j \in 1 .. k : more[j].salt = Salt(n + j) /\ more[j].publicId = place
      /\ HeldIn(more, Own(place)) = total
      /\ \A b \in Accounts \ {place} : HeldIn(more, Own(b)) = 0
  <2>1. place \in Accounts /\ leaves \in Seq(LeafSet)
    BY <1>5
  <2> QED BY <1>6, <1>7, <2>1, FragmentsHold
<1>9. /\ leaves' = leaves \o more
      /\ IF place < NumAccounts
         THEN stage' = "split" /\ place' = place + 1
         ELSE stage' = "shuffle" /\ place' = Len(leaves')
  BY <1>3 DEF total
<1> HIDE DEF more
<1>10. /\ leaves' \in Seq(LeafSet) /\ n \in Nat /\ Len(leaves') = n + k
       /\ \A i \in 1 .. n : leaves'[i] = leaves[i]
       /\ \A j \in 1 .. k : leaves'[n + j] = more[j]
  <2> DEFINE all == leaves \o more
  <2>1. leaves \in Seq(LeafSet) /\ more \in Seq(LeafSet) /\ Len(more) = k
    BY <1>5, <1>8
  <2>2. /\ all \in Seq(LeafSet) /\ n \in Nat /\ Len(all) = n + k
        /\ \A i \in 1 .. n : all[i] = leaves[i]
        /\ \A j \in 1 .. k : all[n + j] = more[j]
    BY <2>1
  <2>3. leaves' = all
    BY <1>9
  <2> HIDE DEF all, n
  <2> QED BY <2>2, <2>3
<1>11. \A j \in 1 .. k : leaves'[n + j] = more[j]
  BY <1>10
<1>12. \A j \in 1 .. k : more[j].salt = Salt(n + j) /\ more[j].publicId = place
  BY <1>8
<1> HIDE DEF n
<1>13. ASSUME NEW i \in 1 .. Len(leaves') PROVE leaves'[i].salt = Salt(i)
  <2>1. CASE i <= n
    <3>1. i \in 1 .. n
      BY <1>10, <2>1
    <3> QED BY <1>5, <1>10, <3>1
  <2>2. CASE i > n
    <3> DEFINE j == i - n
    <3>1. j \in 1 .. k /\ n + j = i
      BY <1>7, <1>10, <2>2
    <3> HIDE DEF j
    <3>2. leaves'[n + j] = more[j]
      BY <1>11, <3>1
    <3>3. more[j].salt = Salt(n + j)
      BY <1>12, <3>1
    <3> QED BY <3>1, <3>2, <3>3
  <2> QED BY <1>10, <2>1, <2>2
<1>14. SaltsDiffer(leaves')
  BY <1>13, SaltTells DEF SaltsDiffer
<1>15. ASSUME NEW a \in Accounts
       PROVE  HeldIn(leaves', Own(a)) = HeldIn(leaves, Own(a)) + HeldIn(more, Own(a))
  BY <1>5, <1>8, <1>9, HeldAppend
<1>16. HeldIn(leaves', Own(place)) = total
  <2>1. HeldIn(leaves, Own(place)) = 0
    <3>1. ~ (place < place)
      BY <1>5 DEF Accounts
    <3> QED BY <1>5, <3>1
  <2> QED BY <1>5, <1>6, <1>8, <1>15, <2>1
<1>17. \E i \in 1 .. Len(leaves') : leaves'[i].publicId = place
  <2>1. 1 \in 1 .. k /\ n + 1 \in 1 .. Len(leaves')
    BY <1>7, <1>10
  <2>2. leaves'[n + 1] = more[1]
    BY <1>11, <2>1
  <2>3. more[1].publicId = place
    BY <1>12, <2>1
  <2> QED BY <2>1, <2>2, <2>3
<1>18. ASSUME NEW a \in Accounts, a < place PROVE IsSplit(a)'
  <2>1. IsSplit(a) /\ a # place
    BY <1>5, <1>18 DEF Accounts
  <2>2. HeldIn(leaves, Own(a)) \in Int
    BY <1>5, MaskIsInt
  <2>3. HeldIn(leaves', Own(a)) = balances'[a]
    BY <1>4, <1>8, <1>15, <2>1, <2>2 DEF IsSplit
  <2>4. \E i \in 1 .. Len(leaves') : leaves'[i].publicId = a
    <3>1. PICK i \in 1 .. n : leaves[i].publicId = a
      BY <2>1 DEF IsSplit, n
    <3>2. i \in 1 .. Len(leaves')
      BY <1>7, <1>10
    <3> QED BY <1>10, <3>1, <3>2
  <2> QED BY <2>3, <2>4 DEF IsSplit
<1>19. ASSUME NEW a \in Accounts, a = place PROVE IsSplit(a)'
  <2>1. HeldIn(leaves', Own(a)) = balances'[a]
    BY <1>4, <1>16, <1>19 DEF total
  <2> QED BY <1>17, <1>19, <2>1 DEF IsSplit
<1>20. ASSUME NEW a \in Accounts, a > place PROVE HeldIn(leaves', Own(a)) = 0
  <2>1. HeldIn(leaves, Own(a)) = 0 /\ a # place
    BY <1>5, <1>20 DEF Accounts
  <2> QED BY <1>8, <1>15, <2>1
<1>21. place \in Nat /\ NumAccounts \in Nat
  BY <1>5, SplitAssumption DEF Accounts
<1>22. CASE place < NumAccounts
  <2>1. stage' = "split" /\ place' = place + 1 /\ place' \in Accounts
    BY <1>5, <1>9, <1>21, <1>22 DEF Accounts
  <2>2. ASSUME NEW a \in Accounts
        PROVE  IF a < place' THEN IsSplit(a)' ELSE HeldIn(leaves', Own(a)) = 0
    <3>1. a \in Nat /\ (a < place' <=> (a < place \/ a = place)) /\ (~ (a < place') => a > place)
      BY <1>21, <2>1 DEF Accounts
    <3> QED BY <1>18, <1>19, <1>20, <3>1
  <2>3. balances' \in InputSets
    BY <1>4, <1>5
  <2> QED BY <1>10, <1>13, <1>14, <2>1, <2>2, <2>3 DEF SplitInv
<1>23. CASE ~ (place < NumAccounts)
  <2>1. stage' = "shuffle" /\ place' \in 0 .. Len(leaves')
    <3>1. Len(leaves') \in Nat
      BY <1>7, <1>10
    <3> QED BY <1>9, <1>23, <3>1
  <2>2. ASSUME NEW a \in Accounts PROVE IsSplit(a)'
    <3>1. a < place \/ a = place
      BY <1>5, <1>21, <1>23 DEF Accounts
    <3> QED BY <1>18, <1>19, <3>1
  <2>3. balances' \in InputSets
    BY <1>4, <1>5
  <2> QED BY <1>10, <1>14, <2>1, <2>2, <2>3 DEF SplitInv
<1> QED BY <1>22, <1>23

\* A swap of the shuffle changes nothing of what the leaves hold.
LEMMA SplitInvShuffle ==
  ASSUME SplitInv, Shuffle
  PROVE  SplitInv'
<1>1. stage = "shuffle" /\ UNCHANGED <<balances, levels, forged>>
  BY DEF Shuffle
<1>2. /\ leaves \in Seq(LeafSet) /\ balances \in InputSets /\ SaltsDiffer(leaves)
      /\ place \in 0 .. Len(leaves) /\ \A a \in Accounts : IsSplit(a)
  BY <1>1 DEF SplitInv
<1>3. CASE place > 1
  <2>1. PICK j \in 1 .. place : leaves' = Swapped(leaves, place, j)
    BY <1>3 DEF Shuffle, Swapped
  <2>2. place' = place - 1 /\ stage' = "shuffle"
    BY <1>1, <1>3 DEF Shuffle
  <2> DEFINE n == Len(leaves)
             from(i) == IF i = j THEN place ELSE IF i = place THEN j ELSE i
  <2>3. n \in Nat /\ place \in 1 .. n /\ j \in 1 .. n
    BY <1>2, <1>3
  <2>4. /\ leaves' \in Seq(LeafSet) /\ Len(leaves') = n
        /\ \A i \in 1 .. n : leaves'[i] = leaves[from(i)]
    <3> DEFINE new == Swapped(leaves, place, j)
    <3>1. /\ new \in Seq(LeafSet) /\ Len(new) = n
          /\ \A i \in 1 .. n :
               new[i] = leaves[IF i = j THEN place ELSE IF i = place THEN j ELSE i]
      <4>1. leaves \in Seq(LeafSet) /\ place \in 1 .. Len(leaves) /\ j \in 1 .. Len(leaves)
        BY <1>2, <2>3
      <4> QED BY <4>1, SwapMoves
    <3> HIDE DEF new
    <3>2. leaves' = new
      BY <2>1 DEF new
    <3> QED BY <3>1, <3>2
  <2>5. \A i \in 1 .. n : from(i) \in 1 .. n /\ from(from(i)) = i
    BY <2>3
  <2> HIDE DEF from
  <2>6. SaltsDiffer(leaves')
    <3>1. ASSUME NEW i \in 1 .. n, NEW k \in 1 .. n, leaves'[i].salt = leaves'[k].salt
          PROVE  i = k
      <4>1. from(i) = from(k)
        BY <1>2, <2>4, <2>5, <3>1 DEF SaltsDiffer
      <4> QED BY <2>5, <4>1
    <3> QED BY <2>4, <3>1 DEF SaltsDiffer
  <2>7. ASSUME NEW a \in Accounts PROVE IsSplit(a)'
    <3>1. HeldIn(leaves', Own(a)) = HeldIn(leaves, Own(a))
      BY <1>2, <2>1, <2>3, HeldSwap
    <3>2. PICK i \in 1 .. n : leaves[i].publicId = a
      BY <1>2 DEF IsSplit
    <3>3. from(i) \in 1 .. n /\ leaves'[from(i)] = leaves[i]
      BY <2>4, <2>5
    <3>4. \E k \in 1 .. Len(leaves') : leaves'[k].publicId = a
      BY <2>4, <3>2, <3>3
    <3>5. HeldIn(leaves', Own(a)) = balances'[a]
      BY <1>1, <1>2, <3>1 DEF IsSplit
    <3> QED BY <3>4, <3>5 DEF IsSplit
  <2>8. place' \in 0 .. Len(leaves') /\ balances' \in InputSets
    BY <1>1, <1>2, <2>2, <2>3, <2>4
  <2> QED BY <2>2, <2>4, <2>6, <2>7, <2>8 DEF SplitInv
<1>4. CASE ~ (place > 1)
  <2>1. stage' = "build" /\ leaves' = leaves
    BY <1>4 DEF Shuffle
  <2>2. \A a \in Accounts : IsSplit(a)'
    BY <1>1, <1>2, <2>1 DEF IsSplit
  <2> QED BY <1>1, <1>2, <2>1, <2>2 DEF SplitInv, SaltsDiffer
<1> QED BY <1>3, <1>4

\* Every step keeps it.
LEMMA SplitInvNext ==
  ASSUME WholeBalances, SplitInv, [Next]_vars
  PROVE  SplitInv'
<1>1. CASE SplitAccount
  BY <1>1, SplitInvSplit
<1>2. CASE Shuffle
  BY <1>2, SplitInvShuffle
<1>3. CASE RefuseNegative \/ RandomnessFails
  <2>1. leaves' = <<>> /\ stage' = "refused" /\ balances' = balances
    BY <1>3 DEF RefuseNegative, RandomnessFails
  <2>2. leaves' \in Seq(LeafSet) /\ Len(leaves') = 0 /\ 1 .. Len(leaves') = {}
    BY <2>1
  <2> QED BY <2>1, <2>2 DEF SplitInv, SaltsDiffer
<1>4. CASE Publish \/ PublishForged
  <2>1. /\ stage = "build" /\ stage' = "published" /\ UNCHANGED <<balances, leaves>>
    BY <1>4 DEF Publish, PublishForged
  <2>2. ~forged' => \A i \in 1 .. Len(leaves) : leaves[i].balance >= 0
    <3>1. CASE Publish
      <4>1. DOMAIN leaves = 1 .. Len(leaves)
        BY DEF SplitInv
      <4> QED BY <3>1, <4>1 DEF Publish, LeafOk
    <3>2. CASE PublishForged
      BY <3>2 DEF PublishForged
    <3> QED BY <1>4, <3>1, <3>2
  <2>3. \A a \in Accounts : IsSplit(a)'
    BY <2>1 DEF SplitInv, IsSplit
  <2> QED BY <2>1, <2>2, <2>3 DEF SplitInv, SaltsDiffer
<1>5. ASSUME UNCHANGED <<balances, leaves, stage, place, forged>> PROVE SplitInv'
  <2>1. UNCHANGED <<balances, leaves, stage, place, forged>>
    BY <1>5
  <2>2. ASSUME NEW a \in Accounts PROVE IsSplit(a) => IsSplit(a)'
    BY <2>1 DEF IsSplit
  <2>3. stage' = "split" =>
          /\ place' \in Accounts
          /\ \A i \in 1 .. Len(leaves') : leaves'[i].salt = Salt(i)
          /\ \A a \in Accounts :
               IF a < place' THEN IsSplit(a)' ELSE HeldIn(leaves', Own(a)) = 0
    BY <2>1, <2>2 DEF SplitInv
  <2>4. stage' \in {"shuffle", "build", "published"} => \A a \in Accounts : IsSplit(a)'
    BY <2>1, <2>2 DEF SplitInv
  <2>5. /\ balances' \in InputSets /\ leaves' \in Seq(LeafSet) /\ SaltsDiffer(leaves')
        /\ stage' = "shuffle" => place' \in 0 .. Len(leaves')
        /\ stage' = "published" /\ ~forged' =>
             \A i \in 1 .. Len(leaves') : leaves'[i].balance >= 0
    BY <2>1 DEF SplitInv
  <2> QED BY <2>3, <2>4, <2>5 DEF SplitInv
<1>6. CASE OpenDoc
  BY <1>5, <1>6 DEF OpenDoc, treeVars
<1>7. ASSUME NEW wire \in Wires, VerifyLeaf(wire) PROVE SplitInv'
  BY <1>5, <1>7 DEF VerifyLeaf, Refuse, treeVars
<1>8. ASSUME NEW claimed, EndOfDoc(claimed) PROVE SplitInv'
  BY <1>5, <1>8 DEF EndOfDoc, Refuse, treeVars
<1>9. CASE UNCHANGED vars
  BY <1>5, <1>9 DEF vars
<1> QED BY <1>1, <1>2, <1>3, <1>4, <1>6, <1>7, <1>8, <1>9 DEF Next

-----------------------------------------------------------------------------
(* Honest documents *)

\* While a document as the operator's API renders it is read, what it has shown are leaves of
\* its reader, and the sum so far is what those hold.
ReadingInv ==
  verdict = "reading" /\ clean /\ ~forged =>
    /\ shown \subseteq OwnLeaves(reader)
    /\ own = HeldIn(leaves, shown)
    /\ read \in Nat
    /\ shown # {} => read > 0

\* Documents are read of a published tree only, each for one account.
DocInv ==
  /\ verdict # "none" => stage = "published" /\ reader \in Accounts
  /\ verdict = "none" => reader = 0
  /\ ReadingInv
  /\ HonestDocVerifies

\* Both invariants, and the one that says which tree is published.
HonestInv == CommittedInv /\ SplitInv /\ DocInv

\* In an honest tree every record that is served verifies and reads back as its leaf.
LEMMA EveryServedVerifies ==
  ASSUME HonestInv, stage = "published", ~forged
  PROVE  \A i \in DOMAIN leaves :
           /\ WireLeafOk(Served(i), RootHash(levels), Total(levels))
           /\ Served(i).leaf = leaves[i] /\ DecodedLeaf(Served(i)) = leaves[i]
<1>1. /\ leaves \in Seq(LeafSet) /\ levels = BuildLiabilityTree(leaves)
      /\ \A j \in 1 .. Len(leaves) : leaves[j].balance >= 0
  BY DEF HonestInv, CommittedInv, SplitInv
<1>2. DOMAIN leaves = 1 .. Len(leaves)
  BY <1>1
<1> QED BY <1>1, <1>2, ServedVerifies

\* At first nothing is read.
LEMMA DocInvInit ==
  ASSUME Init
  PROVE  DocInv
BY DEF Init, DocInv, ReadingInv, HonestDocVerifies

\* A record of an honest document verifies, and shows one more leaf of the reader.
LEMMA DocInvLeaf ==
  ASSUME HonestInv, NEW wire, VerifyLeaf(wire)
  PROVE  DocInv'
<1>1. /\ verdict = "reading" /\ stage = "published" /\ reader \in Accounts
      /\ UNCHANGED <<balances, leaves, stage, levels, forged, reader>>
      /\ verdict' \in {"reading", "refused"}
  BY DEF VerifyLeaf, Refuse, treeVars, HonestInv, DocInv
<1>2. CASE ~ clean' \/ forged
  BY <1>1, <1>2 DEF DocInv, ReadingInv, HonestDocVerifies
<1>3. CASE clean' /\ ~ forged
  <2>1. clean /\ wire \in ServedTo(reader) /\ wire.leaf \notin shown
    BY <1>3 DEF VerifyLeaf
  <2>2. PICK i \in DOMAIN leaves : wire = Served(i) /\ leaves[i].publicId = reader
    BY <2>1 DEF ServedTo
  <2>3. /\ WireLeafOk(wire, RootHash(levels), Total(levels))
        /\ wire.leaf = leaves[i] /\ DecodedLeaf(wire) = leaves[i]
    BY <1>1, <1>3, <2>2, EveryServedVerifies
  <2>4. /\ leaves \in Seq(LeafSet) /\ SaltsDiffer(leaves) /\ i \in 1 .. Len(leaves)
    BY DEF HonestInv, SplitInv
  <2>5. /\ shown \subseteq OwnLeaves(reader) /\ own = HeldIn(leaves, shown) /\ read \in Nat
    BY <1>1, <1>3, <2>1 DEF HonestInv, DocInv, ReadingInv
  <2>6. /\ verdict' = verdict /\ shown' = shown \cup {leaves[i]}
        /\ own' = own + leaves[i].balance /\ read' = read + 1
    BY <2>3 DEF VerifyLeaf
  <2>7. shown' \subseteq OwnLeaves(reader)
    BY <2>2, <2>5, <2>6 DEF OwnLeaves
  <2>8. own' = HeldIn(leaves, shown')
    BY <2>1, <2>3, <2>4, <2>5, <2>6, HeldMore
  <2>9. read' \in Nat /\ read' > 0
    BY <2>5, <2>6
  <2>10. OwnLeaves(reader)' = OwnLeaves(reader) /\ HeldIn(leaves', shown') = HeldIn(leaves, shown')
    BY <1>1 DEF OwnLeaves
  <2>11. ReadingInv'
    BY <1>1, <2>7, <2>8, <2>9, <2>10 DEF ReadingInv
  <2>12. HonestDocVerifies'
    BY <1>1, <2>6 DEF HonestDocVerifies
  <2> QED BY <1>1, <2>6, <2>11, <2>12 DEF DocInv
<1> QED BY <1>2, <1>3

\* At its end, an honest document has shown all the leaves of the reader, and they hold his
\* balance.
LEMMA DocInvEnd ==
  ASSUME WholeBalances, HonestInv, NEW claimed, EndOfDoc(claimed)
  PROVE  DocInv'
<1>1. /\ verdict = "reading" /\ stage = "published" /\ reader \in Accounts
      /\ UNCHANGED <<balances, leaves, stage, levels, forged, reader>>
      /\ verdict' \in {"ok", "refused"}
  BY DEF EndOfDoc, Refuse, treeVars, HonestInv, DocInv
<1>2. CASE ~ clean' \/ forged
  BY <1>1, <1>2 DEF DocInv, ReadingInv, HonestDocVerifies
<1>3. CASE clean' /\ ~ forged
  <2>1. /\ clean /\ Cardinality(shown) = Cardinality(ServedTo(reader))
        /\ claimed \in {Absent, CanonicalAmount(balances[reader])}
    BY <1>3 DEF EndOfDoc
  <2>2. /\ shown \subseteq OwnLeaves(reader) /\ own = HeldIn(leaves, shown) /\ read \in Nat
        /\ shown # {} => read > 0
    BY <1>1, <1>3, <2>1 DEF HonestInv, DocInv, ReadingInv
  <2>3. leaves \in Seq(LeafSet) /\ balances \in InputSets /\ IsSplit(reader)
    BY <1>1 DEF HonestInv, SplitInv
  <2>4. shown = OwnLeaves(reader)
    <3>1. \A i \in DOMAIN leaves : Served(i).leaf = leaves[i]
      BY <1>1, <1>3, EveryServedVerifies
    <3> QED BY <2>1, <2>2, <2>3, <3>1, AllOfThem
  <2>5. read > 0
    <3>1. \E i \in 1 .. Len(leaves) : leaves[i].publicId = reader
      BY <2>3 DEF IsSplit
    <3>2. DOMAIN leaves = 1 .. Len(leaves)
      BY <2>3
    <3>3. shown # {}
      BY <2>4, <3>1, <3>2 DEF OwnLeaves
    <3> QED BY <2>2, <3>3
  <2>6. own = balances[reader]
    <3>1. Mask(leaves, shown) = Mask(leaves, Own(reader))
      <4>1. ASSUME NEW i \in 1 .. Len(leaves)
            PROVE  leaves[i] \in shown <=> leaves[i] \in Own(reader)
        <5>1. leaves[i] \in LeafSet /\ i \in DOMAIN leaves
          BY <2>3
        <5> QED BY <2>4, <5>1 DEF OwnLeaves, Own
      <4> QED BY <4>1 DEF Mask
    <3> QED BY <2>2, <2>3, <3>1 DEF HeldIn, IsSplit
  <2>7. OwnBalanceOk(claimed, own)
    <3>1. CanonicalAmount(balances[reader]) = balances[reader]
      BY <1>1, <2>3 DEF WholeBalances
    <3> QED BY <2>1, <2>6, <3>1 DEF OwnBalanceOk
  <2>8. verdict' = "ok" /\ own' = own
    BY <2>5, <2>7 DEF EndOfDoc
  <2>9. HonestDocVerifies'
    BY <1>1, <2>6, <2>8 DEF HonestDocVerifies
  <2> QED BY <1>1, <2>8, <2>9 DEF DocInv, ReadingInv
<1> QED BY <1>2, <1>3

\* Every step keeps it.
LEMMA DocInvNext ==
  ASSUME WholeBalances, HonestInv, [Next]_vars
  PROVE  DocInv'
<1>1. CASE \/ SplitAccount \/ Shuffle \/ RefuseNegative \/ RandomnessFails
           \/ Publish \/ PublishForged
  <2>1. stage # "published" /\ UNCHANGED <<verdict, reader>>
    BY <1>1 DEF SplitAccount, Shuffle, RefuseNegative, RandomnessFails, Publish,
                PublishForged, docVars
  <2>2. verdict' = "none" /\ reader' = 0
    BY <2>1 DEF HonestInv, DocInv
  <2> QED BY <2>2 DEF DocInv, ReadingInv, HonestDocVerifies
<1>2. CASE OpenDoc
  <2>1. /\ stage' = "published" /\ verdict' = "reading" /\ reader' = reader + 1
        /\ reader < NumAccounts /\ shown' = {} /\ own' = 0 /\ read' = 0
        /\ UNCHANGED <<leaves, forged>>
    BY <1>2 DEF OpenDoc, treeVars
  <2>2. reader' \in Accounts
    <3>1. reader \in Nat
      BY DEF HonestInv, DocInv, Accounts
    <3> QED BY <2>1, <3>1, SplitAssumption DEF Accounts
  <2>3. HeldIn(leaves', {}) = 0
    BY <2>1, HeldByNone DEF HonestInv, SplitInv
  <2> QED BY <2>1, <2>2, <2>3 DEF DocInv, ReadingInv, HonestDocVerifies
<1>3. ASSUME NEW wire \in Wires, VerifyLeaf(wire) PROVE DocInv'
  BY <1>3, DocInvLeaf
<1>4. ASSUME NEW claimed, EndOfDoc(claimed) PROVE DocInv'
  BY <1>4, DocInvEnd
<1>5. CASE UNCHANGED vars
  BY <1>5 DEF vars, HonestInv, DocInv, ReadingInv, HonestDocVerifies, OwnLeaves
<1> QED BY <1>1, <1>2, <1>3, <1>4, <1>5 DEF Next

\* With balances that are whole numbers of canonical units, nothing that an honest operator
\* publishes is refused: for any accounts, splits and order of the leaves, and whatever the
\* shape of the tree, every document as his API renders it verifies and counts the balance of
\* its reader (GenerateLiabilityLeaves, LiabilityProofDoc.Verify).
THEOREM HonestDocumentsVerify ==
  ASSUME WholeBalances
  PROVE  Spec => []HonestDocVerifies
<1>1. Init => HonestInv
  BY CommittedInvInit, SplitInvInit, DocInvInit DEF HonestInv
<1>2. HonestInv /\ [Next]_vars => HonestInv'
  BY CommittedInvNext, SplitInvNext, DocInvNext DEF HonestInv
<1>3. HonestInv => HonestDocVerifies
  BY DEF HonestInv, DocInv
<1> QED BY <1>1, <1>2, <1>3, PTL DEF Spec

-----------------------------------------------------------------------------
(* Any number of proofs under one root *)

\* The values of f at the places in G, and nothing at the others; and their sum.
At(f, G, n) == [i \in 1 .. n |-> IF i \in G THEN f[i] ELSE 0]

SumAt(f, G, n) == SumTo(At(f, G, n), n)

\* Places that are apart add their sums, and one place has its value.
LEMMA SumsAt ==
  ASSUME NEW n \in Nat, NEW f, \A i \in 1 .. n : f[i] \in Int
  PROVE  /\ \A G : SumAt(f, G, n) \in Int
         /\ \A A, B : A \cap B = {} => SumAt(f, A \cup B, n) = SumAt(f, A, n) + SumAt(f, B, n)
         /\ \A i \in 1 .. n : SumAt(f, {i}, n) = f[i]
<1>1. \A G : \A k \in 1 .. n : At(f, G, n)[k] \in Int
  BY DEF At
<1>2. ASSUME NEW G PROVE SumAt(f, G, n) \in Int
  <2> DEFINE g == At(f, G, n)
  <2>1. \A k \in 1 .. n : g[k] \in Int
    BY <1>1
  <2> HIDE DEF g
  <2>2. SumTo(g, n) \in Int
    BY <2>1, SumIsInt
  <2> QED BY <2>2 DEF SumAt, g
<1>3. ASSUME NEW A, NEW B, A \cap B = {}
      PROVE  SumAt(f, A \cup B, n) = SumAt(f, A, n) + SumAt(f, B, n)
  <2> DEFINE a == At(f, A, n)
             b == At(f, B, n)
             h == At(f, A \cup B, n)
  <2>1. ASSUME NEW k \in 1 .. n PROVE a[k] \in Int /\ b[k] \in Int /\ h[k] = a[k] + b[k]
    <3>1. ~ (k \in A /\ k \in B)
      BY <1>3
    <3> QED BY <3>1 DEF At
  <2> HIDE DEF a, b, h
  <2>2. SumTo(h, n) = SumTo(a, n) + SumTo(b, n)
    BY <2>1, SumOfBoth
  <2> QED BY <2>2 DEF SumAt, a, b, h
<1>4. ASSUME NEW i \in 1 .. n PROVE SumAt(f, {i}, n) = f[i]
  <2> DEFINE a == At(f, {}, n)
             b == At(f, {i}, n)
  <2>1. /\ \A k \in 1 .. n : a[k] = 0 /\ b[k] \in Int /\ (k # i => b[k] = a[k])
        /\ b[i] = f[i] /\ a[i] = 0
    BY DEF At
  <2> HIDE DEF a, b
  <2>2. SumTo(b, n) = SumTo(a, n) + (b[i] - a[i])
    <3>1. \A k \in 1 .. n : a[k] \in Int /\ b[k] \in Int
      BY <2>1
    <3>2. \A k \in 1 .. n : k # i => b[k] = a[k]
      BY <2>1
    <3> QED BY <3>1, <3>2, SumChanged
  <2>3. SumTo(a, n) = 0
    BY <2>1, SumOfZeros
  <2>4. SumTo(b, n) = f[i]
    BY <2>1, <2>2, <2>3
  <2> QED BY <2>4 DEF SumAt, b
<1> QED BY <1>2, <1>3, <1>4

\* One level of the argument below.  The nodes at the places in A are left children, with sums
\* x and with siblings of sums y; those in B are right children.  If the sum of what is below
\* either of them stays c below any bound of x there, then that of both stays c below T.
LEMMA BothSidesFit ==
  ASSUME NEW n \in Nat, NEW c \in Nat, NEW T \in Int, NEW f, \A i \in 1 .. n : f[i] \in Int,
         NEW A, NEW B, A \cap B = {}, A \cup B # {},
         NEW x, NEW y,
         \A i \in A \cup B : x[i] \in Nat /\ y[i] \in Nat /\ x[i] + y[i] <= T,
         \A a \in A, b \in B : x[b] - y[a] <= c,
         A # {} => \A X \in Int : (\A i \in A : x[i] <= X) => SumAt(f, A, n) <= X - c,
         B # {} => \A X \in Int : (\A i \in B : x[i] <= X) => SumAt(f, B, n) <= X - c
  PROVE  SumAt(f, A \cup B, n) <= T - c
<1>1. /\ SumAt(f, A, n) \in Int /\ SumAt(f, B, n) \in Int
      /\ SumAt(f, A \cup B, n) = SumAt(f, A, n) + SumAt(f, B, n)
  <2>1. /\ \A G : SumAt(f, G, n) \in Int
        /\ \A G, H : G \cap H = {} => SumAt(f, G \cup H, n) = SumAt(f, G, n) + SumAt(f, H, n)
    <3>1. n \in Nat /\ \A i \in 1 .. n : f[i] \in Int
      OBVIOUS
    <3> QED BY <3>1, SumsAt
  <2> QED BY <2>1
<1>2. \A i \in A \cup B : x[i] <= T
  OBVIOUS
<1>3. CASE B = {}
  <2>1. A \cup B = A /\ A # {}
    BY <1>3
  <2> QED BY <1>2, <2>1
<1>4. CASE A = {}
  <2>1. A \cup B = B /\ B # {}
    BY <1>4
  <2> QED BY <1>2, <2>1
<1>5. CASE A # {} /\ B # {}
  <2>1. PICK a \in A : \A i \in A : x[i] <= x[a]
    <3>1. \A i \in A : x[i] \in Int /\ x[i] <= T
      BY <1>2
    <3> QED BY <1>5, <3>1, Greatest
  <2>2. PICK b \in B : \A i \in B : x[i] <= x[b]
    <3>1. \A i \in B : x[i] \in Int /\ x[i] <= T
      BY <1>2
    <3> QED BY <1>5, <3>1, Greatest
  <2>3. /\ x[a] \in Nat /\ y[a] \in Nat /\ x[b] \in Nat /\ x[a] + y[a] <= T
        /\ x[b] - y[a] <= c
    OBVIOUS
  <2>4. SumAt(f, A, n) <= x[a] - c
    BY <1>5, <2>1, <2>3
  <2>5. SumAt(f, B, n) <= x[b] - c
    BY <1>5, <2>2, <2>3
  <2> HIDE DEF SumAt
  <2> QED BY <1>1, <2>3, <2>4, <2>5
<1> QED BY <1>3, <1>4, <1>5

\* An amount, a path and a verdict of the verifier.
Proves(leaf, steps, root, total) ==
  /\ leaf.balance \in Int
  /\ \E Hashes : steps \in ProofSteps(Hashes)
  /\ VerifyLiabilityProof(leaf, steps, root, total)

\* What is known of the walk of an accepted proof, node by node.
LEMMA WalkOfProof ==
  ASSUME NEW leaf, NEW steps, NEW root, NEW total, Proves(leaf, steps, root, total)
  PROVE  LET p == Len(steps)
             w == Walk(leaf, steps)
         IN  /\ p \in Nat
             /\ w[0] = LeafNode(leaf) /\ w[p] = [sum |-> total, hash |-> root]
             /\ \A i \in 0 .. p : w[i].sum \in Nat
             /\ \A i \in 1 .. p : /\ w[i] = Climbed(w[i - 1], steps[i])
                                  /\ steps[i].sum \in Nat
                                  /\ steps[i].isLeft \in BOOLEAN
<1> DEFINE p == Len(steps)
           w == Walk(leaf, steps)
<1>1. PICK Hashes : steps \in ProofSteps(Hashes)
  BY DEF Proves
<1>2. p \in Nat
  BY <1>1 DEF ProofSteps
<1>3. IsWalk(w, leaf, steps, p)
  BY <1>2, WalkDef
<1>4. leaf.balance \in Int /\ WellFormedProof(leaf, steps, root, total)
      /\ w[p] = [sum |-> total, hash |-> root]
  BY DEF Proves, VerifyLiabilityProof
<1>5. \A i \in 0 .. p : w[i].sum \in Nat
  BY <1>1, <1>4, SumsClimb
<1>6. ASSUME NEW i \in 1 .. p PROVE steps[i].sum \in Nat /\ steps[i].isLeft \in BOOLEAN
  <2>1. i \in DOMAIN steps /\ steps[i].sum \in Int /\ steps[i].isLeft \in BOOLEAN
    BY <1>1, StepOfPath
  <2>2. steps[i].sum >= 0
    BY <1>4, <2>1 DEF WellFormedProof
  <2> QED BY <2>1, <2>2
<1> QED BY <1>2, <1>3, <1>4, <1>5, <1>6 DEF IsWalk

\* No liability hides, however many are shown (sumtree.go:13-23).
THEOREM AllLeavesFit ==
  ASSUME NEW n \in Nat \ {0}, NEW root, NEW total \in Int, NEW leaf, NEW steps,
         \A i \in 1 .. n : Proves(leaf[i], steps[i], root, total),
         \A i, j \in 1 .. n : i # j => LiabilityLeafHash(leaf[i]) # LiabilityLeafHash(leaf[j])
  PROVE  SumTo([i \in 1 .. n |-> leaf[i].balance], n) <= total + (n - 1) * (SubScale - 1)
<1> DEFINE c == SubScale - 1
           b == [i \in 1 .. n |-> leaf[i].balance]
           f == [i \in 1 .. n |-> leaf[i].balance - c]
           p == [i \in 1 .. n |-> Len(steps[i])]
           w == [i \in 1 .. n |-> Walk(leaf[i], steps[i])]
<1>1. c \in Nat
  BY ScaleAssumption
<1>2. \A i \in 1 .. n : leaf[i].balance \in Int /\ b[i] = leaf[i].balance /\ f[i] = b[i] - c
  BY DEF Proves
<1>3. \A i \in 1 .. n :
        /\ p[i] \in Nat
        /\ w[i][0] = LeafNode(leaf[i]) /\ w[i][p[i]] = [sum |-> total, hash |-> root]
        /\ \A k \in 0 .. p[i] : w[i][k].sum \in Nat
        /\ \A k \in 1 .. p[i] : /\ w[i][k] = Climbed(w[i][k - 1], steps[i][k])
                                /\ steps[i][k].sum \in Nat
                                /\ steps[i][k].isLeft \in BOOLEAN
  <2>1. ASSUME NEW i \in 1 .. n
        PROVE  /\ p[i] \in Nat
               /\ w[i][0] = LeafNode(leaf[i]) /\ w[i][p[i]] = [sum |-> total, hash |-> root]
               /\ \A k \in 0 .. p[i] : w[i][k].sum \in Nat
               /\ \A k \in 1 .. p[i] : /\ w[i][k] = Climbed(w[i][k - 1], steps[i][k])
                                       /\ steps[i][k].sum \in Nat
                                       /\ steps[i][k].isLeft \in BOOLEAN
    <3> DEFINE q == Len(steps[i])
               v == Walk(leaf[i], steps[i])
    <3>1. p[i] = q /\ w[i] = v
      OBVIOUS
    <3>2. Proves(leaf[i], steps[i], root, total)
      OBVIOUS
    <3>3. /\ q \in Nat
          /\ v[0] = LeafNode(leaf[i]) /\ v[q] = [sum |-> total, hash |-> root]
          /\ \A k \in 0 .. q : v[k].sum \in Nat
          /\ \A k \in 1 .. q : /\ v[k] = Climbed(v[k - 1], steps[i][k])
                               /\ steps[i][k].sum \in Nat
                               /\ steps[i][k].isLeft \in BOOLEAN
      BY <3>2, WalkOfProof
    <3> HIDE DEF p, w, q, v
    <3> QED BY <3>1, <3>3
  <2> HIDE DEF p, w
  <2> QED BY <2>1
<1>4. \A i \in 1 .. n : f[i] \in Int
  BY <1>1, <1>2
<1> HIDE DEF b, f, p, w, c
<1> DEFINE Under(G, j, h, X, m) ==
             \A i \in G : /\ j <= p[i] /\ p[i] - j <= m
                          /\ w[i][p[i] - j].hash = h /\ w[i][p[i] - j].sum <= X
           Fit(m) == \A j \in Nat, X \in Int, G \in SUBSET (1 .. n) : \A h :
                       G # {} /\ Under(G, j, h, X, m) => SumAt(f, G, n) <= X - c
\* Where one of the nodes is a leaf, it is the only one.
<1>5. ASSUME NEW m \in Nat, NEW j \in Nat, NEW X \in Int, NEW G \in SUBSET (1 .. n), NEW h,
             Under(G, j, h, X, m), NEW i \in G, p[i] = j
      PROVE  SumAt(f, G, n) <= X - c
  <2>1. i \in 1 .. n /\ p[i] \in Nat /\ p[i] - j = 0
    BY <1>3, <1>5
  <2>2. w[i][0] = LeafNode(leaf[i]) /\ w[i][0].hash = h /\ w[i][0].sum <= X
    BY <1>3, <1>5, <2>1
  <2>3. h = LiabilityLeafHash(leaf[i]) /\ b[i] <= X
    BY <1>2, <2>1, <2>2 DEF LeafNode
  <2>4. ASSUME NEW k \in G PROVE k = i
    <3>1. k \in 1 .. n /\ p[k] \in Nat /\ j <= p[k] /\ w[k][p[k] - j].hash = h
      BY <1>3, <1>5
    <3>2. p[k] = j
      <4>1. SUFFICES ASSUME p[k] - j \in 1 .. p[k] PROVE FALSE
        BY <3>1
      <4> DEFINE l == p[k] - j
      <4>2. w[k][l] = Climbed(w[k][l - 1], steps[k][l])
        BY <1>3, <3>1, <4>1
      <4> HIDE DEF l
      <4>3. w[k][l].hash # LiabilityLeafHash(leaf[i])
        BY <4>2, NoNodeIsALeaf DEF Climbed, Parent
      <4> QED BY <2>3, <3>1, <4>3 DEF l
    <3>3. p[k] - j = 0 /\ w[k][0] = LeafNode(leaf[k])
      BY <1>3, <3>1, <3>2
    <3>4. LiabilityLeafHash(leaf[k]) = h
      BY <3>1, <3>3 DEF LeafNode
    <3> QED BY <2>1, <2>3, <3>1, <3>4
  <2>5. G = {i}
    BY <2>4
  <2>6. SumAt(f, G, n) = f[i]
    BY <1>4, <2>1, <2>5, SumsAt
  <2> QED BY <1>1, <1>2, <2>1, <2>3, <2>6
<1>6. Fit(0)
  <2>1. SUFFICES ASSUME NEW j \in Nat, NEW X \in Int, NEW G \in SUBSET (1 .. n), NEW h,
                        G # {}, Under(G, j, h, X, 0)
                 PROVE  SumAt(f, G, n) <= X - c
    OBVIOUS
  <2>2. PICK i \in G : TRUE
    BY <2>1
  <2>3. p[i] = j
    <3>1. i \in 1 .. n /\ j <= p[i] /\ p[i] - j <= 0
      BY <2>1, <2>2
    <3>2. p[i] \in Nat
      BY <1>3, <3>1
    <3> QED BY <3>1, <3>2
  <2> HIDE DEF Under
  <2> QED BY <1>5, <2>1, <2>3
\* Where none is, each of them has a child on the way, on the left or on the right.
<1>7. ASSUME NEW m \in Nat \ {0}, Fit(m - 1) PROVE Fit(m)
  <2>1. SUFFICES ASSUME NEW j \in Nat, NEW X \in Int, NEW G \in SUBSET (1 .. n), NEW h,
                        G # {}, Under(G, j, h, X, m), \A i \in G : p[i] # j
                 PROVE  SumAt(f, G, n) <= X - c
    <3> HIDE DEF Under
    <3> QED BY <1>5
  <2> DEFINE s == [i \in 1 .. n |-> steps[i][p[i] - j]]
             u == [i \in 1 .. n |-> w[i][p[i] - (j + 1)]]
             x == [i \in 1 .. n |-> u[i].sum]
             y == [i \in 1 .. n |-> s[i].sum]
             A == {i \in G : ~ s[i].isLeft}
             B == {i \in G : s[i].isLeft}
  <2>2. ASSUME NEW i \in G
        PROVE  /\ i \in 1 .. n /\ p[i] \in Nat /\ j + 1 <= p[i] /\ p[i] - (j + 1) <= m - 1
               /\ u[i] = w[i][p[i] - (j + 1)]
               /\ x[i] = u[i].sum /\ y[i] = s[i].sum
               /\ x[i] \in Nat /\ y[i] \in Nat /\ s[i].isLeft \in BOOLEAN
               /\ Climbed(u[i], s[i]).hash = h /\ x[i] + y[i] <= X
    <3> DEFINE l == p[i] - j
    <3>1. /\ i \in 1 .. n /\ p[i] \in Nat /\ j <= p[i] /\ p[i] - j <= m /\ p[i] # j
          /\ w[i][l].hash = h /\ w[i][l].sum <= X
      BY <1>3, <2>1
    <3>2. /\ l \in 1 .. p[i] /\ l - 1 \in 0 .. p[i] /\ l - 1 = p[i] - (j + 1)
          /\ j + 1 <= p[i] /\ p[i] - (j + 1) <= m - 1
      BY <3>1
    <3>3. s[i] = steps[i][l] /\ u[i] = w[i][l - 1] /\ x[i] = u[i].sum /\ y[i] = s[i].sum
      BY <3>1, <3>2
    <3> HIDE DEF l, s, u, x, y
    <3>4. w[i][l] = Climbed(u[i], s[i]) /\ y[i] \in Nat /\ s[i].isLeft \in BOOLEAN
      BY <1>3, <3>1, <3>2, <3>3
    <3>5. x[i] \in Nat
      BY <1>3, <3>1, <3>2, <3>3
    <3>6. w[i][l].sum = x[i] + y[i]
      <4>1. Climbed(u[i], s[i]).sum = u[i].sum + s[i].sum
            \/ Climbed(u[i], s[i]).sum = s[i].sum + u[i].sum
        BY DEF Climbed, Parent
      <4> QED BY <3>3, <3>4, <3>5, <4>1
    <3> QED BY <3>1, <3>2, <3>3, <3>4, <3>5, <3>6
  <2> HIDE DEF s, u, x, y
  <2>3. /\ \A i \in A : h = LiabilityNodeHash(u[i].sum, u[i].hash, s[i].sum, s[i].hash)
        /\ \A i \in B : h = LiabilityNodeHash(s[i].sum, s[i].hash, u[i].sum, u[i].hash)
    BY <2>2 DEF Climbed, Parent
  <2>4. \A a \in A, d \in B : x[d] - y[a] <= c
    <3>1. SUFFICES ASSUME NEW a \in A, NEW d \in B PROVE x[d] - y[a] <= c
      OBVIOUS
    <3>2. LiabilityNodeHash(u[a].sum, u[a].hash, s[a].sum, s[a].hash)
            = LiabilityNodeHash(s[d].sum, s[d].hash, u[d].sum, u[d].hash)
      BY <2>3
    <3>3. CanonicalAmount(u[d].sum) = CanonicalAmount(s[a].sum)
      BY <3>2, NodeHashTells
    <3>4. x[d] = u[d].sum /\ y[a] = s[a].sum /\ x[d] \in Nat /\ y[a] \in Nat
      BY <2>2
    <3> QED BY <3>3, <3>4, SameCanonicalIsClose DEF c
  \* Nodes on the same side have the same hash, so that what is below them fits.
  <2>5. ASSUME NEW H, H = A \/ H = B, H # {}, NEW Z \in Int, \A i \in H : x[i] <= Z
        PROVE  SumAt(f, H, n) <= Z - c
    <3>1. PICK i0 \in H : TRUE
      BY <2>5
    <3>2. H \subseteq G
      BY <2>5
    <3>3. \A i \in H : u[i].hash = u[i0].hash
      <4>1. CASE H = A
        <5>1. ASSUME NEW i \in H PROVE u[i].hash = u[i0].hash
          <6>1. LiabilityNodeHash(u[i].sum, u[i].hash, s[i].sum, s[i].hash)
                  = LiabilityNodeHash(u[i0].sum, u[i0].hash, s[i0].sum, s[i0].hash)
            BY <2>3, <4>1
          <6> QED BY <6>1, NodeHashTells
        <5> QED BY <5>1
      <4>2. CASE H = B
        <5>1. ASSUME NEW i \in H PROVE u[i].hash = u[i0].hash
          <6>1. LiabilityNodeHash(s[i].sum, s[i].hash, u[i].sum, u[i].hash)
                  = LiabilityNodeHash(s[i0].sum, s[i0].hash, u[i0].sum, u[i0].hash)
            BY <2>3, <4>2
          <6> QED BY <6>1, NodeHashTells
        <5> QED BY <5>1
      <4> QED BY <2>5, <4>1, <4>2
    <3>4. Under(H, j + 1, u[i0].hash, Z, m - 1)
      <4>1. ASSUME NEW i \in H
            PROVE  /\ j + 1 <= p[i] /\ p[i] - (j + 1) <= m - 1
                   /\ w[i][p[i] - (j + 1)].hash = u[i0].hash
                   /\ w[i][p[i] - (j + 1)].sum <= Z
        <5>1. i \in G
          BY <3>2
        <5>2. /\ j + 1 <= p[i] /\ p[i] - (j + 1) <= m - 1
              /\ u[i] = w[i][p[i] - (j + 1)] /\ x[i] = u[i].sum
          BY <2>2, <5>1
        <5>3. u[i].hash = u[i0].hash /\ x[i] <= Z
          BY <2>5, <3>3
        <5> QED BY <5>2, <5>3
      <4> QED BY <4>1
    <3>5. j + 1 \in Nat /\ H \in SUBSET (1 .. n)
      BY <3>2
    <3> HIDE DEF Under
    <3> QED BY <1>7, <2>5, <3>4, <3>5
  <2>6. A \cap B = {} /\ A \cup B = G
    BY <2>2
  <2>7. \A i \in A \cup B : x[i] \in Nat /\ y[i] \in Nat /\ x[i] + y[i] <= X
    BY <2>2, <2>6
  <2> HIDE DEF A, B, Under, Fit
  <2>8. /\ A # {} => \A Z \in Int : (\A i \in A : x[i] <= Z) => SumAt(f, A, n) <= Z - c
        /\ B # {} => \A Z \in Int : (\A i \in B : x[i] <= Z) => SumAt(f, B, n) <= Z - c
    BY <2>5
  <2>9. A \cup B # {}
    BY <2>1, <2>6
  <2>10. SumAt(f, A \cup B, n) <= X - c
    BY <1>1, <1>4, <2>4, <2>6, <2>7, <2>8, <2>9, BothSidesFit
  <2> QED BY <2>6, <2>10
<1>8. PICK M \in Nat : \A i \in 1 .. n : p[i] <= M
  BY <1>3, Bounded
<1>9. Fit(M)
  <2> DEFINE S == {m \in 0 .. M : Fit(m)}
  <2> HIDE DEF Fit
  <2>1. 0 \in S
    BY <1>6
  <2>2. ASSUME NEW m \in 1 .. M, m - 1 \in S PROVE m \in S
    <3>1. m \in Nat \ {0} /\ m \in 0 .. M
      OBVIOUS
    <3> QED BY <1>7, <2>2, <3>1
  <2>3. M \in 0 .. M
    OBVIOUS
  <2>4. M \in S
    <3> HIDE DEF S
    <3> QED BY <2>1, <2>2, <2>3, IntervalInduction
  <2> QED BY <2>4
<1>10. SumAt(f, 1 .. n, n) <= total - c
  <2>1. Under(1 .. n, 0, root, total, M)
    <3>1. ASSUME NEW i \in 1 .. n
          PROVE  /\ 0 <= p[i] /\ p[i] - 0 <= M
                 /\ w[i][p[i] - 0].hash = root /\ w[i][p[i] - 0].sum <= total
      <4>1. p[i] \in Nat /\ p[i] - 0 = p[i] /\ w[i][p[i]] = [sum |-> total, hash |-> root]
        BY <1>3
      <4> QED BY <1>8, <4>1
    <3> QED BY <3>1
  <2>2. 1 .. n # {} /\ 0 \in Nat /\ 1 .. n \in SUBSET (1 .. n)
    OBVIOUS
  <2> HIDE DEF Under
  <2> QED BY <1>9, <2>1, <2>2
<1>11. SumAt(f, 1 .. n, n) = SumTo(f, n)
  <2> DEFINE g == At(f, 1 .. n, n)
  <2>1. \A k \in 1 .. n : g[k] = f[k]
    BY DEF At
  <2> HIDE DEF g
  <2>2. SumTo(g, n) = SumTo(f, n)
    BY <1>4, <2>1, SumsEqual
  <2> QED BY <2>2 DEF SumAt, g
<1>12. SumTo(f, n) = SumTo(b, n) - n * c /\ SumTo(b, n) \in Int
  <2>1. \A k \in 1 .. n : b[k] \in Int /\ f[k] = b[k] - c
    BY <1>2
  <2>2. c \in Int /\ n \in Nat /\ \A k \in 1 .. n : b[k] \in Int
    BY <1>1, <2>1
  <2>3. SumTo(f, n) = SumTo(b, n) - n * c
    BY <2>1, <2>2, SumShifted
  <2>4. SumTo(b, n) \in Int
    BY <2>2, SumIsInt
  <2> QED BY <2>3, <2>4
<1>13. n * c = (n - 1) * c + c /\ (n - 1) * c \in Int
  BY <1>1
<1> DEFINE all == (n - 1) * c
           sum == SumTo(b, n)
<1>14. sum - (all + c) <= total - c /\ all \in Int /\ sum \in Int
  BY <1>10, <1>11, <1>12, <1>13
<1> HIDE DEF all, sum
<1>15. sum <= total + all
  BY <1>1, <1>14
<1> QED BY <1>15 DEF all, sum, b, c

-----------------------------------------------------------------------------
(* Whole numbers everywhere, in whatever tree and document *)

\* A level of nodes whose sums are amounts.
LevelOk(level) ==
  /\ IsSeq(level) /\ Len(level) >= 1
  /\ \A i \in 1 .. Len(level) :
       /\ level[i] = [sum |-> level[i].sum, hash |-> level[i].hash]
       /\ level[i].sum \in Int

\* So are the levels of a tree: those of leaves, those above such levels, and those in which
\* one node declares another sum.
LEMMA LevelsOk ==
  /\ \A ls : IsSeq(ls) /\ Len(ls) >= 1 /\ (\A i \in 1 .. Len(ls) : ls[i].balance \in Int)
       => LevelOk(LeafLevel(ls))
  /\ \A level : LevelOk(level) => LevelOk(NextLevel(level))
  /\ \A level, i : \A s \in Int : LevelOk(level) => LevelOk([level EXCEPT ![i].sum = s])
<1>1. ASSUME NEW ls, IsSeq(ls), Len(ls) >= 1, \A i \in 1 .. Len(ls) : ls[i].balance \in Int
      PROVE  LevelOk(LeafLevel(ls))
  <2> DEFINE n == Len(ls)
             f == LeafLevel(ls)
  <2>1. n \in Nat /\ DOMAIN ls = 1 .. n
    BY <1>1 DEF IsSeq
  <2>2. f = [i \in 1 .. n |-> LeafNode(ls[i])]
    BY <2>1 DEF LeafLevel
  <2>3. f = [i \in 1 .. n |-> f[i]]
    BY <2>2
  <2>4. \A i \in 1 .. n : f[i] = [sum |-> f[i].sum, hash |-> f[i].hash] /\ f[i].sum \in Int
    BY <1>1, <2>2 DEF LeafNode
  <2> HIDE DEF f
  <2>5. IsSeq(f) /\ Len(f) = n
    BY <2>1, <2>3, FunctionIsSeq
  <2> QED BY <1>1, <2>4, <2>5 DEF LevelOk, f
<1>2. ASSUME NEW level, LevelOk(level) PROVE LevelOk(NextLevel(level))
  <2> DEFINE m == Len(level)
             h == (m + 1) \div 2
             f == NextLevel(level)
  <2>1. m \in Nat /\ m >= 1
    BY <1>2 DEF LevelOk, IsSeq
  <2>2. h \in Nat /\ h >= 1
    <3> HIDE DEF m
    <3> QED BY <2>1
  <2>3. f = [i \in 1 .. h |->
               IF 2 * i > m THEN level[2 * i - 1] ELSE Parent(level[2 * i - 1], level[2 * i])]
    BY DEF NextLevel
  <2>4. f = [i \in 1 .. h |-> f[i]]
    BY <2>3
  <2>5. ASSUME NEW i \in 1 .. h
        PROVE  f[i] = [sum |-> f[i].sum, hash |-> f[i].hash] /\ f[i].sum \in Int
    <3>1. 2 * i - 1 \in 1 .. m
      <4> HIDE DEF m
      <4> QED BY <2>1, PairInLevel
    <3>2. CASE 2 * i > m
      <4>1. f[i] = level[2 * i - 1]
        BY <2>3, <3>2
      <4> HIDE DEF f
      <4> QED BY <1>2, <3>1, <4>1 DEF LevelOk
    <3>3. CASE ~ (2 * i > m)
      <4>1. 2 * i \in 1 .. m
        <5> HIDE DEF m
        <5> QED BY <2>1, <2>2, <3>3
      <4>2. f[i] = Parent(level[2 * i - 1], level[2 * i])
        BY <2>3, <3>3
      <4>3. level[2 * i - 1].sum \in Int /\ level[2 * i].sum \in Int
        BY <1>2, <3>1, <4>1 DEF LevelOk
      <4> HIDE DEF f
      <4> QED BY <4>2, <4>3 DEF Parent
    <3> QED BY <3>2, <3>3
  <2> HIDE DEF f, h
  <2>6. IsSeq(f) /\ Len(f) = h
    BY <2>2, <2>4, FunctionIsSeq
  <2> QED BY <2>2, <2>5, <2>6 DEF LevelOk, f
<1>3. ASSUME NEW level, NEW i, NEW s \in Int, LevelOk(level)
      PROVE  LevelOk([level EXCEPT ![i].sum = s])
  <2> DEFINE m == Len(level)
             f == [level EXCEPT ![i].sum = s]
  <2>1. m \in Nat /\ m >= 1 /\ level = [k \in 1 .. m |-> level[k]]
    BY <1>3 DEF LevelOk, IsSeq
  <2>2. ASSUME NEW k \in 1 .. m
        PROVE  f[k] = [sum |-> f[k].sum, hash |-> f[k].hash] /\ f[k].sum \in Int
    <3>1. level[k] = [sum |-> level[k].sum, hash |-> level[k].hash] /\ level[k].sum \in Int
      BY <1>3 DEF LevelOk
    <3>2. k \in DOMAIN level
      BY <2>1
    <3>3. CASE k = i
      <4>1. f[k] = [level[k] EXCEPT !.sum = s]
        BY <3>2, <3>3
      <4>2. f[k] = [sum |-> s, hash |-> level[k].hash]
        <5> HIDE DEF f
        <5> QED BY <3>1, <4>1
      <4> HIDE DEF f
      <4> QED BY <4>2
    <3>4. CASE k # i
      <4>1. f[k] = level[k]
        BY <3>2, <3>4
      <4> HIDE DEF f
      <4> QED BY <3>1, <4>1
    <3> QED BY <3>3, <3>4
  <2>3. f = [k \in 1 .. m |-> f[k]]
    BY <2>1
  <2> HIDE DEF f, m
  <2>4. IsSeq(f) /\ Len(f) = m
    BY <2>1, <2>3, FunctionIsSeq
  <2> QED BY <2>1, <2>2, <2>4 DEF LevelOk, f
<1> QED BY <1>1, <1>2, <1>3

\* A tree that is published, honest or not.
TreeOk(tree) ==
  /\ IsSeq(tree) /\ Len(tree) >= 1
  /\ \A d \in 1 .. Len(tree) : LevelOk(tree[d])

\* What BuildLiabilityTree builds is one.
LEMMA BuiltIsOk ==
  ASSUME NEW Leaves, NEW ls \in Seq(Leaves), ls # <<>>,
         \A i \in 1 .. Len(ls) : ls[i].balance \in Int
  PROVE  TreeOk(BuildLiabilityTree(ls))
<1> DEFINE n == Len(ls)
           level == LevelsOver(ls)
           D == Depth(level)
           tree == BuildLiabilityTree(ls)
           S == {d \in 0 .. n : LevelOk(level[d])}
<1>1. n \in Nat /\ n >= 1 /\ IsSeq(ls)
  BY SeqIsSeq
<1>2. IsLevels(level, ls, n)
  BY <1>1, LevelsDef
<1>3. D \in 0 .. n
  BY LevelsShrink
<1> HIDE DEF level
<1>4. 0 \in S
  <2>1. LevelOk(LeafLevel(ls))
    BY <1>1, LevelsOk
  <2> QED BY <1>1, <1>2, <2>1 DEF IsLevels
<1>5. ASSUME NEW d \in 1 .. n, d - 1 \in S PROVE d \in S
  <2>1. level[d] = NextLevel(level[d - 1]) /\ d \in 0 .. n
    <3>1. level[d] = NextLevel(level[d - 1])
      BY <1>2 DEF IsLevels
    <3> HIDE DEF n
    <3> QED BY <1>1, <3>1
  <2>2. LevelOk(level[d - 1])
    BY <1>5
  <2>3. LevelOk(level[d])
    BY <2>1, <2>2, LevelsOk
  <2> QED BY <2>1, <2>3
<1>6. 0 .. n \subseteq S
  <2> HIDE DEF S, n
  <2> QED BY <1>1, <1>4, <1>5, IntervalInduction
<1>7. tree = [d \in 1 .. D + 1 |-> level[d - 1]]
  BY DEF BuildLiabilityTree, level
<1>8. tree = [d \in 1 .. D + 1 |-> tree[d]]
  BY <1>7
<1> HIDE DEF tree, D, n
<1>9. D + 1 \in Nat /\ D + 1 >= 1 /\ \A d \in 1 .. D + 1 : d - 1 \in 0 .. n
  BY <1>1, <1>3
<1>10. IsSeq(tree) /\ Len(tree) = D + 1
  BY <1>8, <1>9, FunctionIsSeq
<1>11. ASSUME NEW d \in 1 .. D + 1 PROVE LevelOk(tree[d])
  <2>1. tree[d] = level[d - 1] /\ d - 1 \in S
    BY <1>6, <1>7, <1>9
  <2> QED BY <2>1
<1> QED BY <1>9, <1>10, <1>11 DEF TreeOk, tree

\* The levels of Declared, from the first on.
DeclaredLevel(lower, e, d, i, s) ==
  LET plain == IF e = 1 THEN LeafLevel(leaves) ELSE NextLevel(lower)
  IN  IF e = d THEN [plain EXCEPT ![i].sum = s] ELSE plain

IsDeclared(level, n, d, i, s) ==
  /\ level = [e \in 1 .. n |-> level[e]]
  /\ \A e \in 1 .. n : level[e] = DeclaredLevel(level[e - 1], e, d, i, s)

\* A tree in which one node declares its sum is one, too.
LEMMA DeclaredIsOk ==
  ASSUME IsSeq(leaves), Len(leaves) >= 1, \A k \in 1 .. Len(leaves) : leaves[k].balance \in Int,
         TreeOk(BuildLiabilityTree(leaves)), NEW d, NEW i, NEW s \in Int
  PROVE  TreeOk(Declared(d, i, s))
<1> DEFINE N == Len(BuildLiabilityTree(leaves))
           tree == Declared(d, i, s)
<1>1. N \in Nat /\ N >= 1
  BY DEF TreeOk, IsSeq
<1> HIDE DEF N
\* The recursion has a solution.
<1>2. \E level : IsDeclared(level, N, d, i, s)
  <2> DEFINE S == {n \in 0 .. N : \E level : IsDeclared(level, n, d, i, s)}
  <2>1. 0 \in S
    <3> DEFINE v == [e \in 1 .. 0 |-> e]
    <3>1. IsDeclared(v, 0, d, i, s)
      BY DEF IsDeclared
    <3> HIDE DEF v
    <3> QED BY <1>1, <3>1
  <2>2. ASSUME NEW n \in 1 .. N, n - 1 \in S PROVE n \in S
    <3>1. PICK v : IsDeclared(v, n - 1, d, i, s)
      BY <2>2
    <3> DEFINE w == [e \in 1 .. n |->
                       IF e = n THEN DeclaredLevel(v[n - 1], n, d, i, s) ELSE v[e]]
    <3>2. w = [e \in 1 .. n |-> w[e]]
      OBVIOUS
    <3>3. ASSUME NEW e \in 1 .. n PROVE w[e] = DeclaredLevel(w[e - 1], e, d, i, s)
      <4>1. \A x, y : DeclaredLevel(x, 1, d, i, s) = DeclaredLevel(y, 1, d, i, s)
        BY DEF DeclaredLevel
      <4>2. e # 1 => w[e - 1] = v[e - 1]
        OBVIOUS
      <4>3. CASE e = n
        <5>1. w[e] = DeclaredLevel(v[e - 1], e, d, i, s)
          BY <4>3
        <5> HIDE DEF w
        <5> QED BY <4>1, <4>2, <5>1
      <4>4. CASE e # n
        <5>1. e \in 1 .. n - 1 /\ w[e] = v[e]
          BY <4>4
        <5>2. v[e] = DeclaredLevel(v[e - 1], e, d, i, s)
          BY <3>1, <5>1 DEF IsDeclared
        <5> HIDE DEF w
        <5> QED BY <4>1, <4>2, <5>1, <5>2
      <4> QED BY <4>3, <4>4
    <3> HIDE DEF w
    <3>4. IsDeclared(w, n, d, i, s)
      BY <3>2, <3>3 DEF IsDeclared
    <3>5. n \in 0 .. N
      BY <1>1
    <3> QED BY <3>4, <3>5
  <2>3. N \in S
    <3>1. N \in 0 .. N
      BY <1>1
    <3> HIDE DEF S
    <3> QED BY <1>1, <2>1, <2>2, <3>1, IntervalInduction
  <2> QED BY <2>3
<1> DEFINE P(level) ==
             level = [e \in 1 .. N |->
                        LET plain == IF e = 1 THEN LeafLevel(leaves) ELSE NextLevel(level[e - 1])
                        IN  IF e = d THEN [plain EXCEPT ![i].sum = s] ELSE plain]
           level == CHOOSE l : P(l)
<1>3. tree = [e \in 1 .. N |-> level[e]]
  BY DEF Declared, N
<1>4. P(level)
  <2>1. PICK v : IsDeclared(v, N, d, i, s)
    BY <1>2
  <2>2. P(v)
    BY <2>1 DEF IsDeclared, DeclaredLevel
  <2> HIDE DEF P
  <2> QED BY <2>2
<1> HIDE DEF level
<1>5. ASSUME NEW e \in 1 .. N PROVE tree[e] = DeclaredLevel(tree[e - 1], e, d, i, s)
  <2>1. level[e] = DeclaredLevel(level[e - 1], e, d, i, s)
    BY <1>4 DEF DeclaredLevel
  <2>2. e # 1 => tree[e - 1] = level[e - 1]
    BY <1>1, <1>3
  <2>3. \A x, y : DeclaredLevel(x, 1, d, i, s) = DeclaredLevel(y, 1, d, i, s)
    BY DEF DeclaredLevel
  <2> QED BY <1>3, <2>1, <2>2, <2>3
<1>6. tree = [e \in 1 .. N |-> tree[e]]
  BY <1>3
<1> HIDE DEF tree
<1>7. IsSeq(tree) /\ Len(tree) = N
  BY <1>1, <1>6, FunctionIsSeq
<1> DEFINE S == {e \in 0 .. N : e = 0 \/ LevelOk(tree[e])}
<1>8. 0 \in S
  BY <1>1
<1>9. ASSUME NEW e \in 1 .. N, e - 1 \in S PROVE e \in S
  <2> DEFINE plain == IF e = 1 THEN LeafLevel(leaves) ELSE NextLevel(tree[e - 1])
  <2>1. LevelOk(plain)
    <3>1. CASE e = 1
      BY <3>1, LevelsOk
    <3>2. CASE e # 1
      <4>1. LevelOk(tree[e - 1])
        BY <1>9, <3>2
      <4> QED BY <3>2, <4>1, LevelsOk
    <3> QED BY <3>1, <3>2
  <2>2. tree[e] = IF e = d THEN [plain EXCEPT ![i].sum = s] ELSE plain
    BY <1>5 DEF DeclaredLevel
  <2> HIDE DEF plain
  <2>3. LevelOk(tree[e])
    <3>1. LevelOk([plain EXCEPT ![i].sum = s])
      BY <2>1, LevelsOk
    <3> QED BY <2>1, <2>2, <3>1
  <2>4. e \in 0 .. N
    OBVIOUS
  <2> QED BY <2>3, <2>4
<1>10. 0 .. N \subseteq S
  <2> HIDE DEF S
  <2> QED BY <1>1, <1>8, <1>9, IntervalInduction
<1>11. \A e \in 1 .. N : LevelOk(tree[e])
  <2>1. \A e \in 1 .. N : e \in S /\ e # 0
    BY <1>10
  <2> QED BY <2>1
<1> QED BY <1>1, <1>7, <1>11 DEF TreeOk, tree

\* There are as many parts as weights, and every part is an amount.
LEMMA PartsAreInt ==
  ASSUME NEW k \in Nat \ {0}, NEW w \in [1 .. k -> Weights], NEW total \in Int
  PROVE  LET parts == RandPartition(total, w)
         IN  /\ IsSeq(parts) /\ Len(parts) = k
             /\ \A j \in 1 .. k : parts[j] \in Int
<1> DEFINE W == SumOfSeq(w)
           part == [i \in 1 .. k - 1 |-> FloorRatioShares(total * w[i], W)]
           parts == RandPartition(total, w)
           rest == total - SumOfSeq(part)
<1>1. Len(w) = k /\ W \in Nat \ {0} /\ \A i \in 1 .. k : w[i] \in Nat
  BY WeightsAddUp
<1> HIDE DEF W
<1>2. \A i \in 1 .. k - 1 : part[i] \in Int
  <2>1. ASSUME NEW i \in 1 .. k - 1 PROVE part[i] \in Int
    <3>1. total * w[i] \in Int
      BY <1>1
    <3> QED BY <1>1, <3>1, FloorIsWhole DEF Whole
  <2> QED BY <2>1
<1>3. IsSeq(part) /\ Len(part) = k - 1 /\ k - 1 \in Nat
  <2>1. part = [i \in 1 .. k - 1 |-> part[i]]
    OBVIOUS
  <2>2. k - 1 \in Nat
    OBVIOUS
  <2> HIDE DEF part
  <2> QED BY <2>1, <2>2, FunctionIsSeq
<1>4. parts = Append(part, rest)
  BY <1>1 DEF RandPartition, W
<1> HIDE DEF part
<1>5. rest \in Int
  <2>1. SumTo(part, k - 1) \in Int
    BY <1>2, <1>3, SumIsInt
  <2> QED BY <1>3, <2>1 DEF SumOfSeq
<1>6. IsSeq(parts) /\ Len(parts) = k
  BY <1>3, <1>4, AppendIsSeq
<1>7. parts[k] = rest /\ \A i \in 1 .. k - 1 : parts[i] = part[i]
  <2> DEFINE A == {part[i] : i \in 1 .. Len(part)}
  <2>1. part \in Seq(A)
    BY <1>3, IsSeqTyped
  <2> HIDE DEF A
  <2> QED BY <1>3, <1>4, <2>1
<1> HIDE DEF parts, rest
<1>8. ASSUME NEW j \in 1 .. k PROVE parts[j] \in Int
  <2>1. j = k \/ j \in 1 .. k - 1
    OBVIOUS
  <2> QED BY <1>2, <1>5, <1>7, <2>1
<1> QED BY <1>6, <1>8 DEF parts

-----------------------------------------------------------------------------
(* Leaves and trees *)

\* The leaves that GenerateLiabilityLeaves makes of balances that need not be whole.
AnyLeaf == [salt : {Salt(n) : n \in Nat}, publicId : Accounts, balance : Int]

\* Whatever the stage, leaves have amounts, and so has the tree that is published.
TreeInv ==
  /\ balances \in InputSets
  /\ leaves \in Seq(AnyLeaf)
  /\ stage = "split" => place \in Accounts
  /\ stage = "shuffle" => place \in 0 .. Len(leaves)
  /\ stage \in {"shuffle", "build", "published"} => Len(leaves) >= 1
  /\ stage = "published" => TreeOk(levels)

\* There is no leaf and no tree at first.
LEMMA TreeInvInit ==
  ASSUME Init
  PROVE  TreeInv
<1>1. balances \in InputSets /\ leaves = <<>> /\ stage = "split" /\ place = 1
  BY DEF Init
<1>2. 1 \in Accounts
  BY SplitAssumption DEF Accounts
<1> QED BY <1>1, <1>2 DEF TreeInv

\* A split adds leaves.
LEMMA TreeInvSplit ==
  ASSUME TreeInv, SplitAccount
  PROVE  TreeInv'
<1>1. SplitOf(place) \subseteq Nat \ {0}
  BY SplitAssumption DEF SplitOf
<1> DEFINE Step(w) ==
             LET all == leaves \o Fragments(place, RandPartition(balances[place], w))
             IN  /\ leaves' = all
                 /\ IF place < NumAccounts
                    THEN stage' = "split" /\ place' = place + 1
                    ELSE stage' = "shuffle" /\ place' = Len(all)
<1>2. PICK k \in SplitOf(place) : \E w \in [1 .. k -> Weights] : Step(w)
  BY DEF SplitAccount
<1>3. PICK w \in [1 .. k -> Weights] : Step(w)
  BY <1>2
<1> DEFINE total == balances[place]
           parts == RandPartition(total, w)
           more == Fragments(place, parts)
           n == Len(leaves)
<1>4. /\ stage = "split" /\ UNCHANGED balances
      /\ place \in Accounts /\ leaves \in Seq(AnyLeaf) /\ balances \in InputSets
  BY DEF SplitAccount, TreeInv
<1>5. total \in Int /\ k \in Nat \ {0} /\ n \in Nat
  <2>1. balances \in [Accounts -> Int]
    BY <1>4, SplitAssumption
  <2> QED BY <1>1, <1>4, <2>1
<1> HIDE DEF total
<1>6. IsSeq(parts) /\ Len(parts) = k /\ \A j \in 1 .. k : parts[j] \in Int
  BY <1>5, PartsAreInt
<1> HIDE DEF parts
<1>7. more \in Seq(AnyLeaf) /\ Len(more) = k
  <2>1. DOMAIN parts = 1 .. k
    BY <1>6 DEF IsSeq
  <2>2. more = [j \in 1 .. k |->
                  [salt |-> Salt(n + j), publicId |-> place, balance |-> parts[j]]]
    BY <2>1 DEF Fragments
  <2> HIDE DEF more
  <2>3. ASSUME NEW j \in 1 .. k PROVE more[j] \in AnyLeaf
    <3>1. n + j \in Nat /\ parts[j] \in Int
      BY <1>5, <1>6
    <3>2. Salt(n + j) \in {Salt(i) : i \in Nat}
      BY <3>1
    <3>3. more[j] = [salt |-> Salt(n + j), publicId |-> place, balance |-> parts[j]]
      BY <2>2
    <3> QED BY <1>4, <3>1, <3>2, <3>3 DEF AnyLeaf
  <2>4. more = [j \in 1 .. k |-> more[j]] /\ k \in Nat
    BY <1>5, <2>2
  <2> QED BY <2>3, <2>4, LenOfFunction
<1>8. /\ leaves' = leaves \o more
      /\ IF place < NumAccounts
         THEN stage' = "split" /\ place' = place + 1
         ELSE stage' = "shuffle" /\ place' = Len(leaves')
  BY <1>3 DEF total, parts
<1> HIDE DEF more
<1>9. leaves' \in Seq(AnyLeaf) /\ Len(leaves') = n + k
  BY <1>4, <1>7, <1>8
<1> HIDE DEF n
<1>10. Len(leaves') >= 1 /\ Len(leaves') \in 0 .. Len(leaves')
  BY <1>5, <1>9
<1>11. place < NumAccounts => place + 1 \in Accounts
  BY <1>4, SplitAssumption DEF Accounts
<1> QED BY <1>4, <1>8, <1>9, <1>10, <1>11 DEF TreeInv

\* A swap changes their order.
LEMMA TreeInvShuffle ==
  ASSUME TreeInv, Shuffle
  PROVE  TreeInv'
<1>1. /\ stage = "shuffle" /\ UNCHANGED balances
      /\ leaves \in Seq(AnyLeaf) /\ place \in 0 .. Len(leaves) /\ Len(leaves) >= 1
      /\ balances \in InputSets
  BY DEF Shuffle, TreeInv
<1>2. CASE place > 1
  <2>1. PICK j \in 1 .. place : leaves' = Swapped(leaves, place, j)
    BY <1>2 DEF Shuffle, Swapped
  <2>2. place' = place - 1 /\ stage' = "shuffle"
    BY <1>1, <1>2 DEF Shuffle
  <2> DEFINE n == Len(leaves)
             new == Swapped(leaves, place, j)
  <2>3. /\ n \in Nat /\ place \in 1 .. n /\ j \in 1 .. n
        /\ leaves \in [1 .. n -> AnyLeaf]
    BY <1>1, <1>2
  <2>4. new = [i \in 1 .. n |-> new[i]] /\ \A i \in 1 .. n : new[i] \in AnyLeaf
    <3> HIDE DEF n
    <3> QED BY <2>3 DEF Swapped
  <2> HIDE DEF n, new
  <2>5. new \in Seq(AnyLeaf) /\ Len(new) = n
    BY <2>3, <2>4, LenOfFunction
  <2>6. leaves' = new
    BY <2>1 DEF new
  <2>7. place' \in 0 .. Len(leaves') /\ Len(leaves') >= 1
    BY <1>1, <2>2, <2>3, <2>5, <2>6 DEF n
  <2> QED BY <1>1, <2>2, <2>5, <2>6, <2>7 DEF TreeInv
<1>3. CASE ~ (place > 1)
  <2>1. stage' = "build" /\ leaves' = leaves
    BY <1>3 DEF Shuffle
  <2> QED BY <1>1, <2>1 DEF TreeInv
<1> QED BY <1>2, <1>3

\* What is published has amounts at all of its nodes.
LEMMA TreeInvPublish ==
  ASSUME TreeInv, Publish \/ PublishForged
  PROVE  TreeInv'
<1>1. /\ stage = "build" /\ stage' = "published" /\ UNCHANGED <<balances, leaves>>
  BY DEF Publish, PublishForged
<1>2. leaves \in Seq(AnyLeaf) /\ Len(leaves) >= 1 /\ balances \in InputSets
  BY <1>1 DEF TreeInv
<1>3. IsSeq(leaves) /\ leaves # <<>>
  BY <1>2, SeqIsSeq
<1>4. ASSUME NEW i \in 1 .. Len(leaves) PROVE leaves[i].balance \in Int
  <2>1. leaves[i] \in AnyLeaf
    BY <1>2
  <2> QED BY <2>1 DEF AnyLeaf
<1>5. TreeOk(BuildLiabilityTree(leaves))
  BY <1>2, <1>3, <1>4, BuiltIsOk
<1>6. TreeOk(levels')
  <2>1. CASE Publish
    BY <1>5, <2>1 DEF Publish
  <2>2. CASE PublishForged
    <3>1. \E d, i : \E s \in Sums : levels' = Declared(d, i, s)
      BY <2>2 DEF PublishForged
    <3>2. Sums \subseteq Int
      BY SplitAssumption
    <3> QED BY <1>2, <1>3, <1>4, <1>5, <3>1, <3>2, DeclaredIsOk
  <2> QED BY <2>1, <2>2
<1> QED BY <1>1, <1>2, <1>6 DEF TreeInv

\* Every step keeps it.
LEMMA TreeInvNext ==
  ASSUME TreeInv, [Next]_vars
  PROVE  TreeInv'
<1>1. CASE SplitAccount
  BY <1>1, TreeInvSplit
<1>2. CASE Shuffle
  BY <1>2, TreeInvShuffle
<1>3. CASE Publish \/ PublishForged
  BY <1>3, TreeInvPublish
<1>4. CASE RefuseNegative \/ RandomnessFails
  <2>1. leaves' = <<>> /\ stage' = "refused" /\ balances' = balances
    BY <1>4 DEF RefuseNegative, RandomnessFails
  <2> QED BY <2>1 DEF TreeInv
<1>5. ASSUME UNCHANGED <<balances, leaves, stage, place, levels>> PROVE TreeInv'
  BY <1>5 DEF TreeInv
<1>6. CASE OpenDoc
  BY <1>5, <1>6 DEF OpenDoc, treeVars
<1>7. ASSUME NEW wire \in Wires, VerifyLeaf(wire) PROVE TreeInv'
  BY <1>5, <1>7 DEF VerifyLeaf, Refuse, treeVars
<1>8. ASSUME NEW claimed, EndOfDoc(claimed) PROVE TreeInv'
  BY <1>5, <1>8 DEF EndOfDoc, Refuse, treeVars
<1>9. CASE UNCHANGED vars
  BY <1>5, <1>9 DEF vars
<1> QED BY <1>1, <1>2, <1>3, <1>4, <1>6, <1>7, <1>8, <1>9 DEF Next

-----------------------------------------------------------------------------
(* Whatever documents are made of such a tree *)

\* The hashes that occur in a tree.
HashesOf(tree) ==
  UNION {{tree[d][i].hash : i \in 1 .. Len(tree[d])} : d \in 1 .. Len(tree)}

\* A generated path consists of steps with amounts.
LEMMA GeneratedIsPath ==
  ASSUME NEW tree, TreeOk(tree), NEW index \in Nat
  PROVE  ProofFor(tree, index) \in ProofSteps(HashesOf(tree))
<1> DEFINE top == Len(tree) - 1
           pos == Positions(index, top)
           H == HashesOf(tree)
           ss == [d \in 1 .. top |-> SiblingStep(tree[d], pos[d - 1])]
<1>1. top \in Nat /\ \A d \in 1 .. top : d \in 1 .. Len(tree) /\ LevelOk(tree[d])
  BY DEF TreeOk, IsSeq
<1>2. IsPlaces(pos, index, top)
  BY <1>1, PositionsDef
<1> HIDE DEF top, pos
<1>3. \A d \in 0 .. top : pos[d] \in Nat
  <2> DEFINE S == {d \in 0 .. top : pos[d] \in Nat}
  <2>1. 0 \in S
    <3>1. 0 \in 0 .. top /\ pos[0] \in Nat
      BY <1>1, <1>2 DEF IsPlaces
    <3> QED BY <3>1
  <2>2. ASSUME NEW d \in 1 .. top, d - 1 \in S PROVE d \in S
    <3>1. pos[d] = pos[d - 1] \div 2
      BY <1>2 DEF IsPlaces
    <3>2. d \in 0 .. top
      BY <1>1
    <3> QED BY <2>2, <3>1, <3>2
  <2>3. 0 .. top \subseteq S
    <3> HIDE DEF S
    <3> QED BY <1>1, <2>1, <2>2, IntervalInduction
  <2> QED BY <2>3
<1>4. ASSUME NEW d \in 1 .. top PROVE ss[d] \in ProofSteps(H)
  <2> DEFINE level == tree[d]
             p == pos[d - 1]
             sibling == IF p % 2 = 0 THEN p + 1 ELSE p - 1
  <2>1. LevelOk(level) /\ d \in 1 .. Len(tree) /\ p \in Nat
    BY <1>1, <1>3
  <2>2. \A i \in 1 .. Len(level) : level[i].hash \in H
    BY <2>1 DEF HashesOf
  <2>3. ss[d] = SiblingStep(level, p)
    OBVIOUS
  <2> HIDE DEF level, p, ss, H
  <2>4. sibling \in Nat
    <3>1. p \in Nat /\ (p % 2 # 0 => p >= 1)
      BY <2>1
    <3> QED BY <3>1
  <2>5. CASE sibling >= Len(level)
    <3>1. ss[d] = <<>>
      BY <2>3, <2>5 DEF SiblingStep
    <3> QED BY <3>1 DEF ProofSteps
  <2>6. CASE ~ (sibling >= Len(level))
    <3> DEFINE i == sibling + 1
               s == [sum |-> level[i].sum, hash |-> level[i].hash, isLeft |-> p % 2 = 1]
    <3>1. ss[d] = <<s>>
      BY <2>3, <2>6 DEF SiblingStep
    <3>2. i \in 1 .. Len(level)
      <4>1. Len(level) \in Nat
        BY <2>1 DEF LevelOk, IsSeq
      <4> HIDE DEF sibling
      <4> QED BY <2>4, <2>6, <4>1
    <3> HIDE DEF i
    <3>3. level[i].sum \in Int /\ level[i].hash \in H
      BY <2>1, <2>2, <3>2 DEF LevelOk
    <3>4. (p % 2 = 1) \in BOOLEAN
      OBVIOUS
    <3>5. s \in Steps(H)
      BY <3>3, <3>4 DEF Steps
    <3> HIDE DEF s
    <3> QED BY <3>1, <3>5 DEF ProofSteps
  <2> QED BY <2>5, <2>6
<1>5. ss = [d \in 1 .. top |-> ss[d]]
  OBVIOUS
<1>6. ProofFor(tree, index) = FlattenSeq(ss)
  BY DEF ProofFor, top, pos
<1> HIDE DEF ss, H
<1>7. \A d \in 1 .. top : IsSeq(ss[d])
  BY <1>4, SeqIsSeq DEF ProofSteps
<1>8. PICK f : /\ f[0] = <<>> /\ f[top] = FlattenSeq(ss)
               /\ \A d \in 0 .. top : IsSeq(f[d])
               /\ \A d \in 1 .. top : f[d] = f[d - 1] \o ss[d]
  <2>1. top \in Nat
    BY <1>1
  <2> QED BY <1>5, <1>7, <2>1, FlattenSteps
<1> DEFINE S == {d \in 0 .. top : f[d] \in ProofSteps(H)}
<1>9. 0 \in S
  <2>1. 0 \in 0 .. top /\ <<>> \in ProofSteps(H)
    BY <1>1 DEF ProofSteps
  <2> QED BY <1>8, <2>1
<1>10. ASSUME NEW d \in 1 .. top, d - 1 \in S PROVE d \in S
  <2>1. f[d] = f[d - 1] \o ss[d] /\ f[d - 1] \in ProofSteps(H) /\ ss[d] \in ProofSteps(H)
    BY <1>4, <1>8, <1>10
  <2>2. f[d] \in ProofSteps(H) /\ d \in 0 .. top
    BY <2>1 DEF ProofSteps
  <2> QED BY <2>2
<1>11. top \in S
  <2>1. top \in 0 .. top
    BY <1>1
  <2> HIDE DEF S
  <2> QED BY <1>1, <1>9, <1>10, <2>1, IntervalInduction
<1> QED BY <1>6, <1>8, <1>11 DEF H

\* A record of a document with an amount that decodes, or that is no amount, and a path.
WireOk(wire, H) ==
  /\ wire = [leaf |-> wire.leaf, proof |-> wire.proof]
  /\ wire.leaf = [salt |-> wire.leaf.salt, publicId |-> wire.leaf.publicId,
                  balance |-> wire.leaf.balance]
  /\ wire.leaf.balance \in Int \cup {Absent, Malformed}
  /\ wire.proof \in ProofSteps(H)

\* What is served is one.
LEMMA ServedIsOk ==
  ASSUME TreeOk(levels), leaves \in Seq(AnyLeaf), NEW i \in DOMAIN leaves
  PROVE  WireOk(Served(i), HashesOf(levels))
<1> DEFINE H == HashesOf(levels)
           steps == ProofFor(levels, i - 1)
           l == leaves[i]
           path == [j \in DOMAIN steps |-> [steps[j] EXCEPT !.sum = CanonicalAmount(@)]]
<1>1. i - 1 \in Nat /\ l \in AnyLeaf
  OBVIOUS
<1>2. steps \in ProofSteps(H)
  BY <1>1, GeneratedIsPath
<1>3. /\ l = [salt |-> l.salt, publicId |-> l.publicId, balance |-> l.balance]
      /\ l.balance \in Int
  BY <1>1 DEF AnyLeaf
<1>4. Served(i) = [leaf |-> [l EXCEPT !.balance = CanonicalAmount(@)], proof |-> path]
  BY DEF Served, NewLiabilityWireLeaf
<1> HIDE DEF steps, l, H
<1>5. [l EXCEPT !.balance = CanonicalAmount(@)]
        = [salt |-> l.salt, publicId |-> l.publicId, balance |-> CanonicalAmount(l.balance)]
  BY <1>3
<1>6. CanonicalAmount(l.balance) \in Int
  BY <1>3, CanonicalIsInt
<1>7. path \in ProofSteps(H)
  <2>1. DOMAIN steps = 1 .. Len(steps) /\ Len(steps) \in Nat
    BY <1>2 DEF ProofSteps
  <2>2. ASSUME NEW j \in 1 .. Len(steps)
        PROVE  [steps[j] EXCEPT !.sum = CanonicalAmount(@)] \in Steps(H)
    <3> DEFINE s == steps[j]
    <3>1. s \in Steps(H)
      BY <1>2 DEF ProofSteps
    <3> HIDE DEF s
    <3>2. CanonicalAmount(s.sum) \in Int
      BY <3>1, CanonicalIsInt DEF Steps
    <3>3. [s EXCEPT !.sum = CanonicalAmount(@)] \in Steps(H)
      BY <3>1, <3>2 DEF Steps
    <3> QED BY <3>3 DEF s
  <2> QED BY <2>1, <2>2 DEF ProofSteps
<1> HIDE DEF path
<1> QED BY <1>4, <1>5, <1>6, <1>7 DEF WireOk, H

\* So is whatever is made of it: other sums.
LEMMA RedeclaredIsOk ==
  ASSUME Total(levels) \in Int, NEW H, NEW old, WireOk(old, H), NEW wire \in Redeclared(old)
  PROVE  WireOk(wire, H)
<1> DEFINE n == Len(old.proof)
           sums == [j \in 1 .. n - 1 |-> old.proof[j].sum]
           lies == {sums} \cup {[sums EXCEPT ![j] = s] : j \in 1 .. n - 1, s \in Sums}
           path(b, ss) == [j \in 1 .. n |-> [old.proof[j] EXCEPT !.sum =
                             IF j < n THEN ss[j] ELSE Total(levels) - b - SumOfSeq(ss)]]
           claim(b, ss) == [leaf |-> [old.leaf EXCEPT !.balance = b], proof |-> path(b, ss)]
<1>1. wire \in {claim(b, ss) : b \in Sums, ss \in lies}
  BY DEF Redeclared
<1>2. PICK b \in Sums, ss \in lies : wire = claim(b, ss)
  <2> HIDE DEF lies, claim
  <2> QED BY <1>1
<1>3. b \in Int /\ Sums \subseteq Int
  BY SplitAssumption
<1>4. n \in Nat /\ \A j \in 1 .. n : old.proof[j] \in Steps(H)
  BY DEF WireOk, ProofSteps
<1>5. \A j \in 1 .. n : old.proof[j].sum \in Int
  BY <1>4 DEF Steps
<1> HIDE DEF n
<1>6. ss = [j \in 1 .. n - 1 |-> ss[j]] /\ \A j \in 1 .. n - 1 : ss[j] \in Int
  <2>1. sums \in [1 .. n - 1 -> Int]
    BY <1>4, <1>5
  <2> HIDE DEF sums
  <2>2. ss = sums \/ \E j \in 1 .. n - 1 : \E s \in Sums : ss = [sums EXCEPT ![j] = s]
    OBVIOUS
  <2>3. ss \in [1 .. n - 1 -> Int]
    BY <1>3, <2>1, <2>2
  <2> QED BY <2>3
<1> HIDE DEF lies
<1>7. ASSUME NEW j \in 1 .. n
      PROVE  (IF j < n THEN ss[j] ELSE Total(levels) - b - SumOfSeq(ss)) \in Int
  <2>1. CASE j < n
    <3>1. j \in 1 .. n - 1
      BY <1>4, <2>1
    <3> QED BY <1>6, <2>1, <3>1
  <2>2. CASE ~ (j < n)
    <3>1. n - 1 \in Nat
      BY <1>4
    <3>2. Len(ss) = n - 1
      BY <1>6, <3>1, LenOfFunction
    <3>3. SumOfSeq(ss) \in Int
      BY <1>6, <3>1, <3>2, SumIsInt DEF SumOfSeq
    <3> QED BY <1>3, <2>2, <3>3
  <2> QED BY <2>1, <2>2
<1> DEFINE amount(j) == IF j < n THEN ss[j] ELSE Total(levels) - b - SumOfSeq(ss)
<1>8. path(b, ss) = [j \in 1 .. n |-> [old.proof[j] EXCEPT !.sum = amount(j)]]
  OBVIOUS
<1>9. \A j \in 1 .. n : amount(j) \in Int
  BY <1>7
<1> HIDE DEF amount
<1>10. path(b, ss) \in ProofSteps(H)
  <2>1. ASSUME NEW j \in 1 .. n PROVE [old.proof[j] EXCEPT !.sum = amount(j)] \in Steps(H)
    <3> DEFINE s == old.proof[j]
               a == amount(j)
    <3>1. s \in Steps(H) /\ a \in Int
      BY <1>4, <1>9
    <3> HIDE DEF s, a
    <3>2. [s EXCEPT !.sum = a] \in Steps(H)
      BY <3>1 DEF Steps
    <3> QED BY <3>2 DEF s, a
  <2> DEFINE q == path(b, ss)
  <2>2. q = [j \in 1 .. n |-> q[j]] /\ \A j \in 1 .. n : q[j] \in Steps(H)
    BY <1>8, <2>1
  <2> HIDE DEF path, q
  <2>3. q \in ProofSteps(H)
    BY <1>4, <2>2 DEF ProofSteps
  <2> QED BY <2>3 DEF q
<1>11. wire.proof = path(b, ss) /\ wire.leaf = [old.leaf EXCEPT !.balance = b]
       /\ wire = [leaf |-> wire.leaf, proof |-> wire.proof]
  <2> HIDE DEF path
  <2> QED BY <1>2
<1> HIDE DEF path, claim
<1>12. wire.leaf = [salt |-> old.leaf.salt, publicId |-> old.leaf.publicId, balance |-> b]
  BY <1>11 DEF WireOk
<1> QED BY <1>3, <1>10, <1>11, <1>12 DEF WireOk

\* And other owners, sides and lengths of the path.
LEMMA AlteredIsOk ==
  ASSUME NEW H, NEW old, WireOk(old, H), NEW wire \in Altered(old)
  PROVE  WireOk(wire, H)
<1> DEFINE l == old.leaf
           p == old.proof
           MadeOf(leaf, proof) == wire = [leaf |-> leaf, proof |-> proof]
<1>1. /\ old = [leaf |-> l, proof |-> p]
      /\ l = [salt |-> l.salt, publicId |-> l.publicId, balance |-> l.balance]
      /\ l.balance \in Int \cup {Absent, Malformed} /\ p \in ProofSteps(H)
  BY DEF WireOk
<1>2. \/ \E a : wire = [old EXCEPT !.leaf.publicId = a]
      \/ wire = [old EXCEPT !.leaf.salt = Misfit]
      \/ wire = [old EXCEPT !.leaf.balance = Malformed]
      \/ wire = [old EXCEPT !.leaf.balance = Absent]
      \/ \E i \in DOMAIN old.proof : wire = [old EXCEPT !.proof[i].isLeft = ~@]
      \/ \E i \in DOMAIN old.proof : wire = [old EXCEPT !.proof = RemoveAt(@, i)]
  BY DEF Altered
<1> HIDE DEF l, p
<1>3. CASE \/ \E a : wire = [old EXCEPT !.leaf.publicId = a]
           \/ wire = [old EXCEPT !.leaf.salt = Misfit]
           \/ wire = [old EXCEPT !.leaf.balance = Malformed]
           \/ wire = [old EXCEPT !.leaf.balance = Absent]
  <2>1. \E s, a : \E b \in Int \cup {Absent, Malformed} :
          wire = [leaf |-> [salt |-> s, publicId |-> a, balance |-> b], proof |-> p]
    <3>1. CASE \E a : wire = [old EXCEPT !.leaf.publicId = a]
      <4>1. PICK a : wire = [old EXCEPT !.leaf.publicId = a]
        BY <3>1
      <4>2. wire = [leaf |-> [salt |-> l.salt, publicId |-> a, balance |-> l.balance],
                    proof |-> p]
        BY <1>1, <4>1
      <4> QED BY <1>1, <4>2
    <3>2. CASE wire = [old EXCEPT !.leaf.salt = Misfit]
      <4>1. wire = [leaf |-> [salt |-> Misfit, publicId |-> l.publicId, balance |-> l.balance],
                    proof |-> p]
        BY <1>1, <3>2
      <4> QED BY <1>1, <4>1
    <3>3. CASE wire = [old EXCEPT !.leaf.balance = Malformed]
      <4>1. wire = [leaf |-> [salt |-> l.salt, publicId |-> l.publicId, balance |-> Malformed],
                    proof |-> p]
        BY <1>1, <3>3
      <4> QED BY <1>1, <4>1
    <3>4. CASE wire = [old EXCEPT !.leaf.balance = Absent]
      <4>1. wire = [leaf |-> [salt |-> l.salt, publicId |-> l.publicId, balance |-> Absent],
                    proof |-> p]
        BY <1>1, <3>4
      <4> QED BY <1>1, <4>1
    <3> QED BY <1>3, <3>1, <3>2, <3>3, <3>4
  <2> QED BY <1>1, <2>1 DEF WireOk
<1>4. ASSUME NEW proof \in ProofSteps(H), wire = [leaf |-> l, proof |-> proof]
      PROVE  WireOk(wire, H)
  BY <1>1, <1>4 DEF WireOk
<1>5. DOMAIN p = 1 .. Len(p) /\ Len(p) \in Nat /\ \A j \in 1 .. Len(p) : p[j] \in Steps(H)
  BY <1>1 DEF ProofSteps
<1>6. CASE \E i \in DOMAIN old.proof : wire = [old EXCEPT !.proof[i].isLeft = ~@]
  <2>1. PICK i \in DOMAIN p : wire = [old EXCEPT !.proof[i].isLeft = ~@]
    BY <1>6 DEF p
  <2> DEFINE new == [p EXCEPT ![i].isLeft = ~@]
  <2>2. wire = [leaf |-> l, proof |-> new]
    BY <1>1, <2>1
  <2>3. new \in ProofSteps(H)
    <3> DEFINE s == p[i]
               t == [sum |-> s.sum, hash |-> s.hash, isLeft |-> ~ s.isLeft]
    <3>1. s \in Steps(H) /\ s = [sum |-> s.sum, hash |-> s.hash, isLeft |-> s.isLeft]
      BY <1>5 DEF Steps
    <3>2. t \in Steps(H)
      BY <3>1 DEF Steps
    <3>3. new = [p EXCEPT ![i] = t]
      <4>1. [s EXCEPT !.isLeft = ~@] = t
        BY <3>1
      <4>2. new = [p EXCEPT ![i] = [p[i] EXCEPT !.isLeft = ~@]]
        OBVIOUS
      <4> HIDE DEF t, new
      <4> QED BY <4>1, <4>2
    <3> HIDE DEF new, t
    <3> QED BY <1>1, <3>2, <3>3 DEF ProofSteps
  <2> HIDE DEF new
  <2> QED BY <1>4, <2>2, <2>3
<1>7. CASE \E i \in DOMAIN old.proof : wire = [old EXCEPT !.proof = RemoveAt(@, i)]
  <2>1. PICK i \in DOMAIN p : wire = [old EXCEPT !.proof = RemoveAt(@, i)]
    BY <1>7 DEF p
  <2> DEFINE new == RemoveAt(p, i)
  <2>2. wire = [leaf |-> l, proof |-> new]
    BY <1>1, <2>1
  <2>3. new \in ProofSteps(H)
    <3> DEFINE n == Len(p)
    <3>1. p \in Seq(Steps(H)) /\ n \in Nat /\ i \in 1 .. n
      BY <1>1, <1>5 DEF ProofSteps
    <3>2. SubSeq(p, 1, i - 1) \in Seq(Steps(H))
      BY <3>1
    <3>3. SubSeq(p, i + 1, n) \in Seq(Steps(H))
      BY <3>1
    <3>4. new = SubSeq(p, 1, i - 1) \o SubSeq(p, i + 1, n)
      BY DEF RemoveAt
    <3> HIDE DEF new
    <3> QED BY <3>2, <3>3, <3>4 DEF ProofSteps
  <2> HIDE DEF new
  <2> QED BY <1>4, <2>2, <2>3
<1> QED BY <1>2, <1>3, <1>6, <1>7

\* The total of such a tree is an amount.
LEMMA TotalIsInt ==
  ASSUME TreeOk(levels)
  PROVE  Total(levels) \in Int
<1>1. Len(levels) \in Nat /\ LevelOk(levels[Len(levels)])
  BY DEF TreeOk, IsSeq
<1>2. 1 \in 1 .. Len(levels[Len(levels)])
  BY <1>1 DEF LevelOk, IsSeq
<1> QED BY <1>1, <1>2 DEF LevelOk, Total, Last

\* What the verifier accepts of a document proves an amount.
LEMMA AcceptedProves ==
  ASSUME TreeOk(levels), leaves \in Seq(AnyLeaf), NEW wire \in Wires,
         WireLeafOk(wire, RootHash(levels), Total(levels))
  PROVE  /\ Total(levels) \in Int
         /\ Proves(DecodedLeaf(wire), DecodedProof(wire), RootHash(levels), Total(levels))
<1> DEFINE H == HashesOf(levels)
           p == wire.proof
           steps == DecodedProof(wire)
           leaf == DecodedLeaf(wire)
<1>1. Total(levels) \in Int
  BY TotalIsInt
<1>2. WireOk(wire, H)
  <2>1. PICK i \in DOMAIN leaves :
          \/ wire = Served(i)
          \/ wire \in Redeclared(Served(i))
          \/ wire \in Altered(Served(i))
    BY DEF Wires
  <2>2. WireOk(Served(i), H)
    BY ServedIsOk
  <2> HIDE DEF H
  <2> QED BY <1>1, <2>1, <2>2, RedeclaredIsOk, AlteredIsOk
<1>3. Decodes(wire)
  BY DEF WireLeafOk
<1>4. leaf.balance \in Int
  <2> DEFINE l == wire.leaf
  <2>1. /\ l = [salt |-> l.salt, publicId |-> l.publicId, balance |-> l.balance]
        /\ l.balance \in Int \cup {Absent} /\ leaf = [l EXCEPT !.balance = ParsedAmount(@)]
    BY <1>2, <1>3 DEF WireOk, Decodes, DecodedLeaf
  <2> HIDE DEF l, leaf
  <2>2. leaf.balance = ParsedAmount(l.balance)
    BY <2>1
  <2> QED BY <2>1, <2>2 DEF ParsedAmount
<1>5. steps \in ProofSteps(H)
  <2>1. p \in Seq(Steps(H)) /\ DOMAIN p = 1 .. Len(p) /\ Len(p) \in Nat
    BY <1>2 DEF WireOk, ProofSteps
  <2>2. steps = [i \in 1 .. Len(p) |-> [p[i] EXCEPT !.sum = ParsedAmount(@)]]
    BY <2>1 DEF DecodedProof
  <2>3. ASSUME NEW i \in 1 .. Len(p) PROVE [p[i] EXCEPT !.sum = ParsedAmount(@)] \in Steps(H)
    <3> DEFINE s == p[i]
    <3>1. s \in Steps(H)
      BY <2>1
    <3> HIDE DEF s
    <3>2. ParsedAmount(s.sum) \in Int
      BY <3>1 DEF Steps, ParsedAmount
    <3>3. [s EXCEPT !.sum = ParsedAmount(@)] \in Steps(H)
      BY <3>1, <3>2 DEF Steps
    <3> QED BY <3>3 DEF s
  <2> HIDE DEF steps, p, H
  <2> QED BY <2>1, <2>2, <2>3 DEF ProofSteps
<1>6. VerifyLiabilityProof(leaf, steps, RootHash(levels), Total(levels))
  BY DEF WireLeafOk
<1> HIDE DEF leaf, steps
<1> QED BY <1>1, <1>4, <1>5, <1>6 DEF Proves, leaf, steps

-----------------------------------------------------------------------------
(* The reports of careful readers *)

\* n accepted proofs of n different leaves, and the sum of what they prove.
Reports(ps, n) ==
  /\ \A i \in 1 .. n : Proves(ps[i].leaf, ps[i].steps, RootHash(levels), Total(levels))
  /\ \A i, j \in 1 .. n :
       i # j => LiabilityLeafHash(ps[i].leaf) # LiabilityLeafHash(ps[j].leaf)

Proven(ps, n) == SumTo([i \in 1 .. n |-> ps[i].leaf.balance], n)

\* The leaves of the document at hand that will be counted if it is accepted.
Pending == IF careful THEN read ELSE 0

\* What was counted, and what a careful reader has seen so far, goes back to proofs of different
\* leaves: those of earlier readers carry earlier accounts, the others were shown.
Backed(ps) ==
  /\ Reports(ps, counted.leaves + Pending)
  /\ counted.sum = Proven(ps, counted.leaves)
  /\ careful => counted.sum + own = Proven(ps, counted.leaves + read)
  /\ \A i \in 1 .. counted.leaves :
       /\ ps[i].leaf.publicId \in Nat
       /\ ps[i].leaf.publicId <= reader
       /\ verdict = "reading" => ps[i].leaf.publicId < reader
  /\ \A i \in counted.leaves + 1 .. counted.leaves + Pending :
       ps[i].leaf.publicId = reader /\ ps[i].leaf \in shown

ReportsInv ==
  /\ reader \in Nat /\ read \in Nat /\ own \in Int
  /\ counted.sum \in Int /\ counted.leaves \in Nat
  /\ careful \in BOOLEAN
  /\ careful => verdict = "reading"
  /\ stage # "published" => verdict = "none" /\ counted.sum = 0 /\ counted.leaves = 0
  /\ \E ps : Backed(ps)

\* One more proof adds its amount; those of fewer proofs are the same.
LEMMA ProvenSteps ==
  ASSUME NEW n \in Nat, NEW ps, NEW qs
  PROVE  /\ (\A i \in 1 .. n : ps[i].leaf.balance \in Int) => Proven(ps, n) \in Int
         /\ (\A i \in 1 .. n : qs[i] = ps[i]) => Proven(qs, n) = Proven(ps, n)
         /\ (\A i \in 1 .. n + 1 : ps[i].leaf.balance \in Int)
              => Proven(ps, n + 1) = Proven(ps, n) + ps[n + 1].leaf.balance
         /\ Proven(ps, 0) = 0
<1>1. ASSUME \A i \in 1 .. n : ps[i].leaf.balance \in Int PROVE Proven(ps, n) \in Int
  <2> DEFINE b == [i \in 1 .. n |-> ps[i].leaf.balance]
  <2>1. \A i \in 1 .. n : b[i] \in Int
    BY <1>1
  <2> HIDE DEF b
  <2>2. SumTo(b, n) \in Int
    BY <2>1, SumIsInt
  <2> QED BY <2>2 DEF Proven, b
<1>2. ASSUME \A i \in 1 .. n : qs[i] = ps[i] PROVE Proven(qs, n) = Proven(ps, n)
  <2>1. [i \in 1 .. n |-> qs[i].leaf.balance] = [i \in 1 .. n |-> ps[i].leaf.balance]
    BY <1>2
  <2> QED BY <2>1 DEF Proven
<1>3. ASSUME \A i \in 1 .. n + 1 : ps[i].leaf.balance \in Int
      PROVE  Proven(ps, n + 1) = Proven(ps, n) + ps[n + 1].leaf.balance
  <2> DEFINE b == [i \in 1 .. n + 1 |-> ps[i].leaf.balance]
             a == [i \in 1 .. n |-> ps[i].leaf.balance]
  <2>1. /\ \A i \in 1 .. n + 1 : b[i] \in Int
        /\ \A i \in 1 .. n : b[i] \in Int /\ a[i] = b[i]
        /\ b[n + 1] = ps[n + 1].leaf.balance
    BY <1>3
  <2> HIDE DEF a, b
  <2>2. SumTo(b, n + 1) = SumTo(b, n) + b[n + 1]
    BY <2>1, SumStep
  <2>3. SumTo(a, n) = SumTo(b, n)
    BY <2>1, SumsEqual
  <2>4. Proven(ps, n + 1) = SumTo(b, n + 1) /\ Proven(ps, n) = SumTo(a, n)
    BY DEF Proven, a, b
  <2> QED BY <2>1, <2>2, <2>3, <2>4
<1>4. Proven(ps, 0) = 0
  BY SumOfNone DEF Proven
<1> QED BY <1>1, <1>2, <1>3, <1>4

\* Whoever has the first of some proofs, has reports.
LEMMA FewerReports ==
  ASSUME NEW n \in Nat, NEW m \in Nat, NEW ps, Reports(ps, n + m)
  PROVE  Reports(ps, n)
<1>1. 1 .. n \subseteq 1 .. n + m
  OBVIOUS
<1> QED BY <1>1 DEF Reports

\* At first there are none.
LEMMA ReportsInvInit ==
  ASSUME Init
  PROVE  ReportsInv
<1>1. /\ reader = 0 /\ read = 0 /\ own = 0 /\ careful = FALSE /\ verdict = "none"
      /\ counted.sum = 0 /\ counted.leaves = 0 /\ shown = {} /\ stage = "split"
  BY DEF Init
<1>2. Backed(<<>>)
  <2>1. Proven(<<>>, 0) = 0
    BY ProvenSteps
  <2>2. 0 + 0 = 0 /\ 1 .. 0 = {} /\ 0 + 1 .. 0 + 0 = {}
    OBVIOUS
  <2>3. /\ counted.leaves + Pending = 0 /\ counted.leaves + 1 .. counted.leaves + Pending = {}
        /\ Reports(<<>>, 0)
    BY <1>1, <2>2 DEF Pending, Reports
  <2> QED BY <1>1, <2>1, <2>2, <2>3 DEF Backed
<1>3. /\ reader \in Nat /\ read \in Nat /\ own \in Int
      /\ counted.sum \in Int /\ counted.leaves \in Nat
  BY <1>1
<1>4. careful \in BOOLEAN /\ ~careful
  BY <1>1
<1>5. stage # "published" => verdict = "none" /\ counted.sum = 0 /\ counted.leaves = 0
  BY <1>1
<1>6. \E ps : Backed(ps)
  BY <1>2, Zenon
<1> QED BY <1>3, <1>4, <1>5, <1>6, Zenon DEF ReportsInv

\* Nor while the tree is made and published.
LEMMA ReportsInvTree ==
  ASSUME ReportsInv, stage # "published", UNCHANGED docVars
  PROVE  ReportsInv'
<1>1. UNCHANGED <<reader, shown, own, read, careful, verdict, counted>>
  BY DEF docVars
<1>2. /\ verdict = "none" /\ ~careful /\ counted.sum = 0 /\ counted.leaves = 0
  BY DEF ReportsInv
<1>3. Backed(<<>>)'
  <2>1. Proven(<<>>, 0) = 0
    BY ProvenSteps
  <2>2. 0 + 0 = 0 /\ 1 .. 0 = {} /\ 0 + 1 .. 0 + 0 = {}
    OBVIOUS
  <2> QED BY <1>1, <1>2, <2>1, <2>2 DEF Backed, Reports, Pending, Proven
<1> QED BY <1>1, <1>2, <1>3 DEF ReportsInv

\* A document is opened for the next account.
LEMMA ReportsInvOpen ==
  ASSUME ReportsInv, OpenDoc
  PROVE  ReportsInv'
<1>1. /\ reader' = reader + 1 /\ shown' = {} /\ own' = 0 /\ read' = 0 /\ careful' = TRUE
      /\ verdict' = "reading" /\ verdict # "reading" /\ stage = "published"
      /\ UNCHANGED <<counted, stage, levels>>
  BY DEF OpenDoc, treeVars
<1>2. ~careful /\ reader \in Nat /\ counted.leaves \in Nat /\ counted.sum \in Int
  BY <1>1 DEF ReportsInv
<1>3. PICK ps : Backed(ps)
  BY DEF ReportsInv
<1>4. PICK n \in Nat : n = counted.leaves
  BY <1>2
<1>5. Reports(ps, n)'
  <2>1. Pending = 0 /\ n + 0 = n
    BY <1>2 DEF Pending
  <2>2. Reports(ps, n)
    BY <1>3, <1>4, <2>1 DEF Backed
  <2> QED BY <1>1, <2>2 DEF Reports
<1>6. \A i \in 1 .. n : ps[i].leaf.publicId \in Nat /\ ps[i].leaf.publicId <= reader'
                        /\ ps[i].leaf.publicId < reader'
  BY <1>1, <1>2, <1>3, <1>4 DEF Backed
<1>7. /\ (counted.leaves)' = n /\ (counted.sum)' = Proven(ps, n)
      /\ (counted.sum)' + own' = Proven(ps, n)
  BY <1>1, <1>2, <1>3, <1>4 DEF Backed
<1>8. /\ Pending' = 0 /\ read' = 0
      /\ (counted.leaves)' + 0 = n /\ (counted.leaves)' + 1 .. (counted.leaves)' + 0 = {}
  BY <1>1, <1>7 DEF Pending
<1>9. Backed(ps)'
  BY <1>5, <1>6, <1>7, <1>8 DEF Backed, Proven
<1> QED BY <1>1, <1>2, <1>9 DEF ReportsInv

\* A reader who was not careful, or stops, leaves what was counted.
LEMMA ReportsInvDrop ==
  ASSUME ReportsInv, careful' = FALSE, UNCHANGED <<reader, counted, stage, levels>>,
         read' \in Nat, own' \in Int, stage = "published",
         verdict' = "reading" => verdict = "reading"
  PROVE  ReportsInv'
<1>1. PICK ps : Backed(ps)
  BY DEF ReportsInv
<1>2. reader \in Nat /\ read \in Nat /\ counted.leaves \in Nat /\ counted.sum \in Int
  BY DEF ReportsInv
<1>3. PICK n \in Nat : n = counted.leaves
  BY <1>2
<1>4. Reports(ps, n)'
  <2>1. Pending \in Nat /\ Reports(ps, n + Pending)
    BY <1>1, <1>2, <1>3 DEF Backed, Pending
  <2>2. Reports(ps, n)
    BY <2>1, FewerReports
  <2> QED BY <2>2 DEF Reports
<1>5. \A i \in 1 .. n : /\ ps[i].leaf.publicId \in Nat /\ ps[i].leaf.publicId <= reader'
                        /\ verdict' = "reading" => ps[i].leaf.publicId < reader'
  BY <1>1, <1>3 DEF Backed
<1>6. (counted.leaves)' = n /\ (counted.sum)' = Proven(ps, n)
  BY <1>1, <1>3 DEF Backed
<1>7. /\ Pending' = 0
      /\ (counted.leaves)' + 0 = n /\ (counted.leaves)' + 1 .. (counted.leaves)' + 0 = {}
  BY <1>6 DEF Pending
<1>8. Backed(ps)'
  BY <1>4, <1>5, <1>6, <1>7 DEF Backed, Proven
<1> QED BY <1>2, <1>8 DEF ReportsInv

\* A leaf that a careful reader sees verified is none of those before.
LEMMA ReportsInvLeaf ==
  ASSUME ReportsInv, stage = "published", NEW leaf, NEW steps,
         Proves(leaf, steps, RootHash(levels), Total(levels)),
         careful', careful, leaf.publicId = reader, \A l \in shown : ~SameLeaf(l, leaf),
         shown' = shown \cup {leaf}, own' = own + leaf.balance, read' = read + 1,
         UNCHANGED <<reader, verdict, counted, stage, levels>>
  PROVE  ReportsInv'
<1>1. PICK ps : Backed(ps)
  BY DEF ReportsInv
<1>2. /\ reader \in Nat /\ read \in Nat /\ own \in Int
      /\ counted.leaves \in Nat /\ counted.sum \in Int
      /\ verdict = "reading" /\ careful = TRUE
  BY DEF ReportsInv
<1>3. leaf.balance \in Int
  BY DEF Proves
<1> PICK n \in Nat : n = counted.leaves
  BY <1>2
<1> PICK m \in Nat : m = n + read
  BY <1>2
<1> DEFINE qs == [i \in 1 .. m + 1 |->
                    IF i = m + 1 THEN [leaf |-> leaf, steps |-> steps] ELSE ps[i]]
<1>4. /\ Reports(ps, m)
      /\ counted.sum = Proven(ps, n) /\ counted.sum + own = Proven(ps, m)
      /\ \A i \in 1 .. n : ps[i].leaf.publicId \in Nat /\ ps[i].leaf.publicId < reader
      /\ \A i \in n + 1 .. m : ps[i].leaf.publicId = reader /\ ps[i].leaf \in shown
  BY <1>1, <1>2 DEF Backed, Pending
<1>5. /\ m \in Nat /\ n <= m /\ m + 1 \in 1 .. m + 1 /\ n + (read + 1) = m + 1
      /\ \A i \in 1 .. m : i \in 1 .. m + 1 /\ i # m + 1
      /\ \A i \in 1 .. n : i \in 1 .. m
      /\ \A i \in n + 1 .. m : i \in 1 .. m
      /\ \A i \in 1 .. m : i \in 1 .. n \/ i \in n + 1 .. m
      /\ \A i \in 1 .. m + 1 : i = m + 1 \/ i \in 1 .. m
      /\ \A i \in n + 1 .. m + 1 : i = m + 1 \/ i \in n + 1 .. m
  BY <1>2
<1>6. /\ \A i \in 1 .. m : qs[i] = ps[i]
      /\ qs[m + 1].leaf = leaf /\ qs[m + 1].steps = steps
  BY <1>5
<1> HIDE DEF qs
<1>7. ASSUME NEW i \in 1 .. m
      PROVE  LiabilityLeafHash(ps[i].leaf) # LiabilityLeafHash(leaf)
  <2>1. CASE i \in 1 .. n
    <3>1. ps[i].leaf.publicId # leaf.publicId
      BY <1>2, <1>4, <2>1
    <3> QED BY <3>1 DEF LiabilityLeafHash
  <2>2. CASE i \in n + 1 .. m
    <3>1. ~SameLeaf(ps[i].leaf, leaf)
      BY <1>4, <2>2
    <3> QED BY <3>1 DEF LiabilityLeafHash, SameLeaf
  <2> QED BY <1>5, <2>1, <2>2
<1>8. Reports(qs, m + 1)
  <2>1. ASSUME NEW i \in 1 .. m + 1
        PROVE  Proves(qs[i].leaf, qs[i].steps, RootHash(levels), Total(levels))
    <3>1. CASE i = m + 1
      BY <1>6, <3>1
    <3>2. CASE i \in 1 .. m
      BY <1>4, <1>6, <3>2 DEF Reports
    <3> QED BY <1>5, <3>1, <3>2
  <2>2. ASSUME NEW i \in 1 .. m + 1, NEW j \in 1 .. m + 1, i # j
        PROVE  LiabilityLeafHash(qs[i].leaf) # LiabilityLeafHash(qs[j].leaf)
    <3>1. CASE i = m + 1
      <4>1. j \in 1 .. m
        BY <1>5, <2>2, <3>1
      <4> QED BY <1>6, <1>7, <3>1, <4>1
    <3>2. CASE j = m + 1
      <4>1. i \in 1 .. m
        BY <1>5, <2>2, <3>2
      <4> QED BY <1>6, <1>7, <3>2, <4>1
    <3>3. CASE i \in 1 .. m /\ j \in 1 .. m
      BY <1>4, <1>6, <2>2, <3>3 DEF Reports
    <3> QED BY <1>5, <3>1, <3>2, <3>3
  <2> QED BY <2>1, <2>2 DEF Reports
<1>9. Proven(qs, m + 1) = counted.sum + (own + leaf.balance)
  <2>1. \A i \in 1 .. m + 1 : qs[i].leaf.balance \in Int
    BY <1>8 DEF Reports, Proves
  <2>2. Proven(qs, m + 1) = Proven(qs, m) + qs[m + 1].leaf.balance
    BY <1>5, <2>1, ProvenSteps
  <2>3. Proven(qs, m) = Proven(ps, m)
    BY <1>5, <1>6, ProvenSteps
  <2> QED BY <1>2, <1>3, <1>4, <1>6, <2>2, <2>3
<1>10. Proven(qs, n) = counted.sum
  <2>1. \A i \in 1 .. n : qs[i] = ps[i]
    BY <1>5, <1>6
  <2>2. Proven(qs, n) = Proven(ps, n)
    BY <2>1, ProvenSteps
  <2> QED BY <1>4, <2>2
<1>11. \A i \in 1 .. n : qs[i].leaf.publicId \in Nat /\ qs[i].leaf.publicId < reader
                         /\ qs[i].leaf.publicId <= reader
  BY <1>2, <1>4, <1>5, <1>6
<1>12. \A i \in n + 1 .. m + 1 :
         qs[i].leaf.publicId = reader /\ qs[i].leaf \in shown \cup {leaf}
  BY <1>4, <1>5, <1>6
<1>13. /\ (counted.leaves)' = n /\ (counted.sum)' = counted.sum
       /\ n + Pending' = m + 1 /\ n + read' = m + 1
       /\ reader' = reader /\ shown' = shown \cup {leaf}
       /\ (counted.sum)' + own' = Proven(qs, m + 1)
  BY <1>2, <1>5, <1>9 DEF Pending
<1>14. Reports(qs, m + 1)'
  BY <1>8 DEF Reports
<1>15. Backed(qs)'
  BY <1>10, <1>11, <1>12, <1>13, <1>14 DEF Backed, Proven
<1> QED BY <1>2, <1>3, <1>13, <1>15 DEF ReportsInv

\* A careful reader's document is accepted: what was pending is counted.
LEMMA ReportsInvCount ==
  ASSUME ReportsInv, careful, careful' = FALSE, verdict' = "ok",
         counted' = [sum |-> counted.sum + own, leaves |-> counted.leaves + read],
         UNCHANGED <<reader, own, read, stage, levels>>
  PROVE  ReportsInv'
<1>1. PICK ps : Backed(ps)
  BY DEF ReportsInv
<1>2. /\ reader \in Nat /\ read \in Nat /\ own \in Int
      /\ counted.leaves \in Nat /\ counted.sum \in Int
      /\ stage = "published" /\ verdict = "reading" /\ careful = TRUE
  BY DEF ReportsInv
<1> PICK n \in Nat : n = counted.leaves
  BY <1>2
<1> PICK m \in Nat : m = n + read
  BY <1>2
<1>3. /\ Reports(ps, m)
      /\ counted.sum + own = Proven(ps, m)
      /\ \A i \in 1 .. n : ps[i].leaf.publicId \in Nat /\ ps[i].leaf.publicId < reader
      /\ \A i \in n + 1 .. m : ps[i].leaf.publicId = reader
  BY <1>1, <1>2 DEF Backed, Pending
<1>4. /\ m \in Nat /\ m + 0 = m /\ m + 1 .. m + 0 = {}
      /\ \A i \in 1 .. m : i \in 1 .. n \/ i \in n + 1 .. m
      /\ counted.sum + own \in Int
  BY <1>2
<1>5. /\ (counted.leaves)' = m /\ (counted.sum)' = Proven(ps, m) /\ Pending' = 0
      /\ (counted.leaves)' + 0 = m /\ (counted.leaves)' + 1 .. (counted.leaves)' + 0 = {}
  BY <1>3 DEF Pending
<1>6. \A i \in 1 .. m : ps[i].leaf.publicId \in Nat /\ ps[i].leaf.publicId <= reader'
  BY <1>2, <1>3, <1>4
<1>7. Reports(ps, m)'
  BY <1>3 DEF Reports
<1>8. Backed(ps)'
  BY <1>4, <1>5, <1>6, <1>7 DEF Backed, Proven
<1>9. (counted.sum)' \in Int
  BY <1>3, <1>4, <1>5
<1> QED BY <1>2, <1>4, <1>5, <1>8, <1>9 DEF ReportsInv

\* Every step keeps it.
LEMMA ReportsInvNext ==
  ASSUME TreeInv, ReportsInv, [Next]_vars
  PROVE  ReportsInv'
<1>1. CASE \/ SplitAccount \/ RefuseNegative \/ RandomnessFails \/ Shuffle
           \/ Publish \/ PublishForged
  <2>1. stage # "published" /\ UNCHANGED docVars
    BY <1>1 DEF SplitAccount, RefuseNegative, RandomnessFails, Shuffle, Publish, PublishForged
  <2> QED BY <2>1, ReportsInvTree
<1>2. CASE OpenDoc
  BY <1>2, ReportsInvOpen
<1>3. ASSUME NEW wire \in Wires, VerifyLeaf(wire) PROVE ReportsInv'
  <2> DEFINE leaf == DecodedLeaf(wire)
             steps == DecodedProof(wire)
  <2>1. verdict = "reading" /\ stage = "published"
    BY <1>3 DEF VerifyLeaf, ReportsInv
  <2>2. CASE WireLeafOk(wire, RootHash(levels), Total(levels))
    <3>1. Proves(leaf, steps, RootHash(levels), Total(levels))
      BY <2>1, <2>2, AcceptedProves DEF TreeInv
    <3>2. /\ shown' = shown \cup {leaf}
          /\ own' = own + leaf.balance
          /\ read' = read + 1
          /\ careful' = (careful /\ leaf.publicId = reader
                           /\ \A l \in shown : ~SameLeaf(l, leaf))
          /\ UNCHANGED <<reader, verdict, counted, stage, levels>>
      BY <1>3, <2>2 DEF VerifyLeaf, treeVars
    <3>3. read' \in Nat /\ own' \in Int
      BY <3>1, <3>2 DEF ReportsInv, Proves
    <3> HIDE DEF leaf, steps
    <3>4. CASE careful'
      BY <2>1, <3>1, <3>2, <3>4, ReportsInvLeaf
    <3>5. CASE ~careful'
      <4>1. careful' = FALSE
        BY <3>2, <3>5
      <4> QED BY <2>1, <3>2, <3>3, <4>1, ReportsInvDrop
    <3> QED BY <3>4, <3>5
  <2>3. CASE ~WireLeafOk(wire, RootHash(levels), Total(levels))
    <3>1. Refuse
      BY <1>3, <2>3 DEF VerifyLeaf
    <3>2. /\ careful' = FALSE /\ verdict' # "reading" /\ read' \in Nat /\ own' \in Int
          /\ UNCHANGED <<reader, counted, stage, levels>>
      BY <3>1 DEF Refuse, treeVars
    <3> QED BY <2>1, <3>2, ReportsInvDrop
  <2> QED BY <2>2, <2>3
<1>4. ASSUME NEW claimed, EndOfDoc(claimed) PROVE ReportsInv'
  <2>1. verdict = "reading" /\ stage = "published"
    BY <1>4 DEF EndOfDoc, ReportsInv
  <2>2. CASE read > 0 /\ OwnBalanceOk(claimed, own)
    <3>1. /\ verdict' = "ok" /\ careful' = FALSE
          /\ counted' = IF careful THEN [sum    |-> counted.sum + own,
                                         leaves |-> counted.leaves + read]
                        ELSE counted
          /\ UNCHANGED <<reader, own, read, stage, levels>>
      BY <1>4, <2>2 DEF EndOfDoc, treeVars
    <3>2. CASE careful
      BY <3>1, <3>2, ReportsInvCount
    <3>3. CASE ~careful
      <4>1. UNCHANGED <<reader, counted, stage, levels>> /\ read' \in Nat /\ own' \in Int
        BY <3>1, <3>3 DEF ReportsInv
      <4> QED BY <2>1, <3>1, <4>1, ReportsInvDrop
    <3> QED BY <3>2, <3>3
  <2>3. CASE ~ (read > 0 /\ OwnBalanceOk(claimed, own))
    <3>1. Refuse
      BY <1>4, <2>3 DEF EndOfDoc
    <3>2. /\ careful' = FALSE /\ verdict' # "reading" /\ read' \in Nat /\ own' \in Int
          /\ UNCHANGED <<reader, counted, stage, levels>>
      BY <3>1 DEF Refuse, treeVars
    <3> QED BY <2>1, <3>2, ReportsInvDrop
  <2> QED BY <2>2, <2>3
<1>5. CASE UNCHANGED vars
  <2>1. UNCHANGED <<stage, levels, reader, shown, own, read, careful, verdict, counted>>
    BY <1>5 DEF vars
  <2>2. ASSUME NEW ps, Backed(ps) PROVE Backed(ps)'
    BY <2>1, <2>2 DEF Backed, Reports, Proven, Pending
  <2> QED BY <2>1, <2>2 DEF ReportsInv
<1> QED BY <1>1, <1>2, <1>3, <1>4, <1>5 DEF Next

\* Then what careful readers have counted fits into the total.
LEMMA ReportsInvFits ==
  ASSUME TreeInv, ReportsInv
  PROVE  ReportsFitTotal
<1>1. SUFFICES ASSUME counted.leaves > 0
               PROVE  counted.sum <= Total(levels) + (counted.leaves - 1) * (SubScale - 1)
  BY DEF ReportsFitTotal
<1> DEFINE n == counted.leaves
<1>2. n \in Nat \ {0} /\ counted.sum \in Int /\ read \in Nat /\ stage = "published"
  BY <1>1 DEF ReportsInv
<1>3. PICK ps : Backed(ps)
  BY DEF ReportsInv
<1> DEFINE leaf == [i \in 1 .. n |-> ps[i].leaf]
           steps == [i \in 1 .. n |-> ps[i].steps]
<1>4. Reports(ps, n)
  <2>1. Pending \in Nat /\ n \in Nat /\ Reports(ps, n + Pending)
    BY <1>2, <1>3 DEF Pending, Backed
  <2> HIDE DEF n
  <2> QED BY <2>1, FewerReports
<1>5. counted.sum = SumTo([i \in 1 .. n |-> ps[i].leaf.balance], n)
  BY <1>3 DEF Backed, Proven
<1>6. Total(levels) \in Int
  BY <1>2, TotalIsInt DEF TreeInv
<1> HIDE DEF n
<1>7. /\ \A i \in 1 .. n : Proves(leaf[i], steps[i], RootHash(levels), Total(levels))
      /\ \A i, j \in 1 .. n : i # j => LiabilityLeafHash(leaf[i]) # LiabilityLeafHash(leaf[j])
  BY <1>4 DEF Reports
<1>8. [i \in 1 .. n |-> leaf[i].balance] = [i \in 1 .. n |-> ps[i].leaf.balance]
  OBVIOUS
<1> HIDE DEF leaf, steps
<1>9. SumTo([i \in 1 .. n |-> leaf[i].balance], n)
        <= Total(levels) + (n - 1) * (SubScale - 1)
  BY <1>2, <1>6, <1>7, AllLeavesFit
<1> QED BY <1>5, <1>8, <1>9 DEF n

\* No liability hides, in any number of documents (sumtree.go:13-23).
THEOREM ReportsAlwaysFit == Spec => []ReportsFitTotal
<1>1. Init => TreeInv /\ ReportsInv
  BY TreeInvInit, ReportsInvInit
<1>2. TreeInv /\ ReportsInv /\ [Next]_vars => TreeInv' /\ ReportsInv'
  BY TreeInvNext, ReportsInvNext
<1>3. TreeInv /\ ReportsInv => ReportsFitTotal
  BY ReportsInvFits
<1> QED BY <1>1, <1>2, <1>3, PTL DEF Spec
=============================================================================
