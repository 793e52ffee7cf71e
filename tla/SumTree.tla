------------------------------- MODULE SumTree ------------------------------
(***************************************************************************)
(* The proof-of-liabilities tree of package translog: leaves, a tree whose  *)
(* inner hashes commit to the sums of both subtrees, sibling paths and      *)
(* their verifier (sumtree.go), the split of a balance over several leaves  *)
(* (sumtree_privacy.go) and the wire form (sumtree_wire.go).                *)
(*                                                                         *)
(* Hashes are terms without collisions.  Field by field a preimage has one  *)
(* parse (sumtree.go:25-31), so a term keeps the fields apart.  A salt or a *)
(* hash of the wrong length is Misfit.                                      *)
(***************************************************************************)
EXTENDS Translog, RunningSums, SequencesExt

Misfit == [kind |-> "misfit"]

HashSized(h) == h # Misfit

-----------------------------------------------------------------------------
(* Leaves and nodes.  A leaf is [salt, publicId, balance]; a node [sum, hash]. *)

\* LiabilityLeaf.validate
LeafOk(leaf) == leaf.salt # Misfit /\ leaf.balance >= 0

\* Mutant: the account is not part of the leaf's preimage.
LiabilityLeafHashNameless(leaf) ==
  [kind |-> "leaf", salt |-> leaf.salt, balance |-> CanonicalAmount(leaf.balance)]

LiabilityLeafHash(leaf) ==
  [kind |-> "leaf", salt |-> leaf.salt, publicId |-> leaf.publicId,
   balance |-> CanonicalAmount(leaf.balance)]

\* Mutant: the sums travel beside the hashes instead of inside them.
LiabilityNodeHashOfHashes(sumL, hashL, sumR, hashR) ==
  [kind |-> "node", left |-> hashL, right |-> hashR]

LiabilityNodeHash(sumL, hashL, sumR, hashR) ==
  [kind |-> "node", sumL |-> CanonicalAmount(sumL), left |-> hashL,
   sumR |-> CanonicalAmount(sumR), right |-> hashR]

\* The parent of two nodes.  Both the builder and the verifier add the sums themselves.
Parent(l, r) ==
  [sum |-> l.sum + r.sum, hash |-> LiabilityNodeHash(l.sum, l.hash, r.sum, r.hash)]

-----------------------------------------------------------------------------
(* The tree: its levels, leaves first. *)

LeafNode(leaf) == [sum |-> leaf.balance, hash |-> LiabilityLeafHash(leaf)]

LeafLevel(leaves) == [i \in DOMAIN leaves |-> LeafNode(leaves[i])]

\* Nodes are paired left to right; an unpaired last node is promoted unchanged.
NextLevel(level) ==
  [i \in 1 .. (Len(level) + 1) \div 2 |->
     IF 2 * i > Len(level) THEN level[2 * i - 1] ELSE Parent(level[2 * i - 1], level[2 * i])]

\* The levels over the leaves: the first one of a single node is the root's.
LevelsOver(leaves) ==
  LET level[d \in 0 .. Len(leaves)] ==
        IF d = 0 THEN LeafLevel(leaves) ELSE NextLevel(level[d - 1])
  IN  level

Depth(level) == Min({d \in DOMAIN level : Len(level[d]) = 1})

\* BuildLiabilityTree; without leaves, or with a leaf that is not LeafOk, it refuses.
BuildLiabilityTree(leaves) ==
  LET level == LevelsOver(leaves)
  IN  [d \in 1 .. Depth(level) + 1 |-> level[d - 1]]

RootHash(levels) == Last(levels)[1].hash

Total(levels) == Last(levels)[1].sum

\* Mutant: a promoted node is paired with itself.
SiblingStepOfPromoted(level, pos) ==
  LET sibling == Min({IF pos % 2 = 0 THEN pos + 1 ELSE pos - 1, Len(level) - 1})
  IN  <<[sum |-> level[sibling + 1].sum, hash |-> level[sibling + 1].hash,
         isLeft |-> pos % 2 = 1]>>

\* The step that a node at place pos of a level contributes; none where it is promoted.
SiblingStep(level, pos) ==
  LET sibling == IF pos % 2 = 0 THEN pos + 1 ELSE pos - 1
  IN  IF sibling >= Len(level) THEN <<>>
      ELSE <<[sum |-> level[sibling + 1].sum, hash |-> level[sibling + 1].hash,
              isLeft |-> pos % 2 = 1]>>

\* pos in the loop of ProofFor, level after level.
Positions(index, n) ==
  LET pos[d \in 0 .. n] == IF d = 0 THEN index ELSE pos[d - 1] \div 2
  IN  pos

\* ProofFor, for an index below the leaf count; leaves are counted from 0.
ProofFor(levels, index) ==
  LET top == Len(levels) - 1
  IN  FlattenSeq([d \in 1 .. top |-> SiblingStep(levels[d], Positions(index, top)[d - 1])])

-----------------------------------------------------------------------------
(* Verification *)

\* One level up: the sum and the hash of the parent are derived, never declared.
Climbed(node, step) == IF step.isLeft THEN Parent(step, node) ELSE Parent(node, step)

\* The nodes on the way from the leaf, at 0, to the end of the path.
Walk(leaf, steps) ==
  LET node[i \in 0 .. Len(steps)] ==
        IF i = 0 THEN LeafNode(leaf) ELSE Climbed(node[i - 1], steps[i])
  IN  node

WellFormedProof(leaf, steps, root, expectedTotal) ==
  /\ LeafOk(leaf)
  /\ HashSized(root)
  /\ expectedTotal >= 0
  /\ \A i \in DOMAIN steps : HashSized(steps[i].hash) /\ steps[i].sum >= 0

\* VerifyLiabilityProof returns (true, nil).
VerifyLiabilityProof(leaf, steps, root, expectedTotal) ==
  /\ WellFormedProof(leaf, steps, root, expectedTotal)
  /\ Walk(leaf, steps)[Len(steps)] = [sum |-> expectedTotal, hash |-> root]

-----------------------------------------------------------------------------
(* The split of a balance *)

SumOfSeq(s) == SumTo(s, Len(s))

\* randPartition, from the weights drawn: each part but the last is its share, rounded down
\* to canonical units, and the last is what remains.  (The code's shortcut for one part or a
\* zero total comes to the same; its guard against a negative rest never acts, as
\* SplitsAreExact proves.)
RandPartition(total, weights) ==
  LET k    == Len(weights)
      part == [i \in 1 .. k - 1 |-> FloorRatioShares(total * weights[i], SumOfSeq(weights))]
  IN  Append(part, total - SumOfSeq(part))

-----------------------------------------------------------------------------
(* The wire form *)

\* NewLiabilityWireLeaf
NewLiabilityWireLeaf(leaf, steps) ==
  [leaf  |-> [leaf EXCEPT !.balance = CanonicalAmount(@)],
   proof |-> [i \in DOMAIN steps |-> [steps[i] EXCEPT !.sum = CanonicalAmount(@)]]]

\* money.Parse: an empty string is zero.
ParsedAmount(s) == IF s = Absent THEN 0 ELSE s

\* LiabilityWireLeaf.decode fails on an amount that is not a decimal.
Decodes(wire) ==
  /\ wire.leaf.balance # Malformed
  /\ \A i \in DOMAIN wire.proof : wire.proof[i].sum # Malformed

DecodedLeaf(wire) == [wire.leaf EXCEPT !.balance = ParsedAmount(@)]

DecodedProof(wire) ==
  [i \in DOMAIN wire.proof |-> [wire.proof[i] EXCEPT !.sum = ParsedAmount(@)]]

\* One turn of the loop of LiabilityProofDoc.Verify.
WireLeafOk(wire, root, total) ==
  /\ Decodes(wire)
  /\ VerifyLiabilityProof(DecodedLeaf(wire), DecodedProof(wire), root, total)

\* LiabilityProofDoc.Verify, last: an ownBalance, when there is one, is the sum proven.
OwnBalanceOk(claimed, own) == claimed # Absent => claimed = own
=============================================================================
