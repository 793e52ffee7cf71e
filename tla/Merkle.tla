------------------------------- MODULE Merkle -------------------------------
(***************************************************************************)
(* pkg/translog/merkle.go: the RFC 6962 Merkle tree over a pool's entry     *)
(* hashes, its inclusion and consistency proofs, their verifiers and the    *)
(* incremental Frontier.                                                    *)
(*                                                                         *)
(* Hashes are terms: two are equal only when they were built the same way   *)
(* from the same leaves (no SHA-256 collisions).  A proof is a sequence of  *)
(* hashes, bottom up; an element that is not 32 bytes long is Misfit.       *)
(***************************************************************************)
EXTENDS Integers, SequencesExt

EmptyRoot == [kind |-> "empty"]

\* Mutant: no prefix tells leaves from nodes.
LeafHashBare(entryHash) == entryHash

LeafHash(entryHash) == [kind |-> "leaf", of |-> entryHash]

\* Mutant: siblings are sorted before they are hashed.
NodeHashUnordered(left, right) == [kind |-> "node", of |-> {left, right}]

NodeHash(left, right) == [kind |-> "node", left |-> left, right |-> right]

Misfit == [kind |-> "misfit"]

HashSized(h) == h # Misfit

-----------------------------------------------------------------------------
(* Roots *)

\* The highest bit of x, as bits.Len finds it.
TopBit[x \in Nat] == IF x <= 1 THEN x ELSE 2 * TopBit[x \div 2]

IsPowerOfTwo(n) == TopBit[n] = n

\* The largest power of two strictly below n, for n >= 2.
LargestPowerOfTwoBelow(n) == TopBit[n - 1]

LeafHashes(entryHashes) == [i \in DOMAIN entryHashes |-> LeafHash(entryHashes[i])]

\* mth: the roots of the runs of nodes of d, each split at a power of two.  The run of n
\* nodes from place i on has the root Roots(d)[n][i].
Roots(d) ==
  LET mth[n \in DOMAIN d] ==
        LET k == LargestPowerOfTwoBelow(n)
        IN  [i \in 1 .. Len(d) - n + 1 |->
               IF n = 1 THEN d[i] ELSE NodeHash(mth[k][i], mth[n - k][i + k])]
  IN  mth

Mth(d) == Roots(d)[Len(d)][1]

MerkleRoot(entryHashes) ==
  IF entryHashes = <<>> THEN EmptyRoot ELSE Mth(LeafHashes(entryHashes))

FirstOf(d, k) == SubSeq(d, 1, k)

-----------------------------------------------------------------------------
(* Proof generation *)

\* PATH(m, D[n]), m counted from 0: the path of that node in the run of n from place i on.
Paths(d, m) ==
  LET roots == Roots(d)
      path[n \in DOMAIN d] ==
        LET k == LargestPowerOfTwoBelow(n)
        IN  [i \in 1 .. Len(d) - n + 1 |->
               IF n = 1 THEN <<>>
               ELSE IF m + 1 < i + k THEN Append(path[k][i], roots[n - k][i + k])
               ELSE Append(path[n - k][i + k], roots[k][i])]
  IN  path

Path(d, m) == Paths(d, m)[Len(d)][1]

\* Defined for index < Len(entryHashes); the code returns ErrMerkleRange otherwise.
InclusionProof(entryHashes, index) == Path(LeafHashes(entryHashes), index)

\* SUBPROOF(m, D[n], b), 1 <= m <= n, of the run of n nodes from place i on, which node m is
\* in.  Its subtree is complete, and known to the reader, as long as nothing was split off to
\* its left.
SubProofs(d, m) ==
  LET roots == Roots(d)
      sub[n \in DOMAIN d] ==
        LET k == LargestPowerOfTwoBelow(n)
        IN  [i \in (1 .. Len(d) - n + 1) \cap (m - n + 1 .. m) |->
               IF m + 1 = i + n THEN IF i = 1 THEN <<>> ELSE <<roots[n][i]>>
               ELSE IF m < i + k THEN Append(sub[k][i], roots[n - k][i + k])
               ELSE Append(sub[n - k][i + k], roots[k][i])]
  IN  sub

SubProof(d, m) == SubProofs(d, m)[Len(d)][1]

\* Outside this range ConsistencyProof returns ErrMerkleRange.
ConsistencyInRange(entryHashes, oldSize, newSize) ==
  1 <= oldSize /\ oldSize <= newSize /\ newSize <= Len(entryHashes)

ConsistencyProof(entryHashes, oldSize, newSize) ==
  IF oldSize = newSize THEN <<>>
  ELSE SubProof(LeafHashes(FirstOf(entryHashes, newSize)), oldSize)

-----------------------------------------------------------------------------
(* Proof verification.  fn and sn are the node's place and the last node's place at the *)
(* level reached; the shifts climb the tree. *)

\* Both shifted right for as long as the low bit of fn is the given one and fn is not 0.
Shifted[fn \in Nat] ==
  [sn \in Nat |-> [bit \in 0 .. 1 |->
     IF fn # 0 /\ fn % 2 = bit THEN Shifted[fn \div 2][sn \div 2][bit]
     ELSE [fn |-> fn, sn |-> sn]]]

Skip(s, bit) ==
  LET to == Shifted[s.fn][s.sn][bit] IN [s EXCEPT !.fn = to.fn, !.sn = to.sn]

Climbed(s) == [s EXCEPT !.fn = @ \div 2, !.sn = @ \div 2]

\* Mutant: a node without a right sibling is not seen to have been promoted.
SiblingIsLeftIfOdd(s) == s.fn % 2 = 1

\* Is the node reached a right child, or the last, promoted one?
SiblingIsLeft(s) == s.fn % 2 = 1 \/ s.fn = s.sn

InclusionStep(s, p) ==
  IF ~HashSized(p) \/ s.sn = 0 THEN [s EXCEPT !.ok = FALSE]
  ELSE IF SiblingIsLeft(s) THEN Climbed(Skip([s EXCEPT !.r = NodeHash(p, @)], 0))
  ELSE Climbed([s EXCEPT !.r = NodeHash(@, p)])

InclusionWalk(start, proof) ==
  LET walk[i \in 0 .. Len(proof)] ==
        IF i = 0 THEN start ELSE InclusionStep(walk[i - 1], proof[i])
  IN  walk[Len(proof)]

VerifyInclusion(leafHash, index, treeSize, proof, root) ==
  LET start == [fn |-> index, sn |-> treeSize - 1, r |-> leafHash, ok |-> TRUE]
      end   == InclusionWalk(start, proof)
  IN  /\ 0 <= index /\ index < treeSize
      /\ HashSized(leafHash) /\ HashSized(root)
      /\ end.ok /\ end.sn = 0 /\ end.r = root

ConsistencyStep(s, c) ==
  IF s.sn = 0 THEN [s EXCEPT !.ok = FALSE]
  ELSE IF SiblingIsLeft(s)
  THEN Climbed(Skip([s EXCEPT !.fr = NodeHash(c, @), !.sr = NodeHash(c, @)], 0))
  ELSE Climbed([s EXCEPT !.sr = NodeHash(@, c)])

ConsistencyWalk(start, proof) ==
  LET walk[i \in 0 .. Len(proof)] ==
        IF i = 0 THEN start ELSE ConsistencyStep(walk[i - 1], proof[i])
  IN  walk[Len(proof)]

\* The walk starts at the subtree the two trees share: its root comes with the proof, or is
\* the whole of the old tree.
SharedNodes(oldRoot, oldSize, proof) ==
  IF IsPowerOfTwo(oldSize) THEN <<oldRoot>> \o proof ELSE proof

WalkOfBoth(oldSize, newSize, nodes) ==
  LET first == [fn |-> oldSize - 1, sn |-> newSize - 1, fr |-> nodes[1], sr |-> nodes[1],
                ok |-> TRUE]
  IN  ConsistencyWalk(Skip(first, 1), Tail(nodes))

\* Mutant: the old root is not recomputed.
VerifyConsistencyOfNew(oldRoot, oldSize, newRoot, newSize, proof) ==
  LET nodes == SharedNodes(oldRoot, oldSize, proof)
      end   == WalkOfBoth(oldSize, newSize, nodes)
  IN  /\ 1 <= oldSize /\ oldSize <= newSize
      /\ IF oldSize = newSize THEN proof = <<>> /\ oldRoot = newRoot
         ELSE nodes # <<>> /\ end.ok /\ end.sn = 0 /\ end.sr = newRoot

VerifyConsistency(oldRoot, oldSize, newRoot, newSize, proof) ==
  LET nodes == SharedNodes(oldRoot, oldSize, proof)
      end   == WalkOfBoth(oldSize, newSize, nodes)
  IN  /\ 1 <= oldSize /\ oldSize <= newSize
      /\ HashSized(oldRoot) /\ HashSized(newRoot)
      /\ IF oldSize = newSize
         THEN proof = <<>> /\ oldRoot = newRoot
         ELSE /\ \A i \in DOMAIN proof : HashSized(proof[i])
              /\ nodes # <<>>
              /\ end.ok /\ end.sn = 0 /\ end.fr = oldRoot /\ end.sr = newRoot

-----------------------------------------------------------------------------
(* Frontier: roots of perfect subtrees, tallest first, with their leaf counts. *)

NewFrontier == [roots |-> <<>>, sizes |-> <<>>, size |-> 0]

\* Mutant: a new leaf merges with its neighbour and no further.
FrontierAppendOnce(f, entryHash) ==
  LET leaf  == LeafHash(entryHash)
      pairs == f.sizes # <<>> /\ Last(f.sizes) = 1
  IN  [roots |-> IF pairs THEN Append(Front(f.roots), NodeHash(Last(f.roots), leaf))
                 ELSE Append(f.roots, leaf),
       sizes |-> IF pairs THEN Append(Front(f.sizes), 2) ELSE Append(f.sizes, 1),
       size |-> f.size + 1]

\* The last two subtrees become one, if they are of one size.
Merged(f) ==
  LET n == Len(f.roots)
  IN  IF n >= 2 /\ f.sizes[n] = f.sizes[n - 1]
      THEN [f EXCEPT !.roots = Append(SubSeq(@, 1, n - 2), NodeHash(@[n - 1], @[n])),
                     !.sizes = Append(SubSeq(@, 1, n - 2), 2 * @[n - 1])]
      ELSE f

\* Frontier.Append: equal-sized neighbours merge, from the right, until two differ, which
\* takes at most one merge for each old subtree.
FrontierAppend(f, entryHash) ==
  LET pushed == [roots |-> Append(f.roots, LeafHash(entryHash)),
                 sizes |-> Append(f.sizes, 1), size |-> f.size + 1]
      carry[i \in 0 .. Len(f.roots)] == IF i = 0 THEN pushed ELSE Merged(carry[i - 1])
  IN  carry[Len(f.roots)]

\* Frontier.Root: the range folded from the right.
FrontierRoot(f) ==
  LET acc[i \in DOMAIN f.roots] ==
        IF i = Len(f.roots) THEN f.roots[i] ELSE NodeHash(f.roots[i], acc[i + 1])
  IN  IF f.roots = <<>> THEN EmptyRoot ELSE acc[1]
=============================================================================
