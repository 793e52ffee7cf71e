-------------------------- MODULE ProofOfLiabilities ------------------------
(***************************************************************************)
(* An operator publishes the root and the total of a liability tree, and    *)
(* each account holder checks with -pol the leaves shown to him             *)
(* (sumtree_privacy.go, sumtree_wire.go and cmd/staking-verify/pol.go).     *)
(*                                                                         *)
(* The leaves come out of GenerateLiabilityLeaves.  The tree over them is   *)
(* built as BuildLiabilityTree does, or one node declares a sum of the      *)
(* operator's choosing; and whoever serves a document may put anything in   *)
(* it.  The operator is not in this repository, its functions are.  Root    *)
(* and total of a document are the published ones, which the holder can     *)
(* compare: the report prints both.                                         *)
(***************************************************************************)
EXTENDS SumTree, FiniteSets

CONSTANTS
  NumAccounts,  \* accounts of the pool
  House,        \* those that belong to the house
  InputSets,    \* the balances of all accounts, as sequences
  UserSplit,    \* leaves of an account, 1 .. 4 in the code
  HouseSplit,   \* leaves of a house account, 8 .. 16 in the code
  Weights,      \* bound: weights drawn for a split
  Draws(_),     \* bound: places drawn for the i-th place of the shuffle, out of 1 .. i
  Sums,         \* amounts that false declarations use
  MaxForged,    \* bound: leaves of a tree in which a sum is declared
  MaxShown      \* bound: leaves of a document

Accounts == 1 .. NumAccounts

ASSUME SplitAssumption ==
  /\ NumAccounts \in Nat \ {0}
  /\ InputSets \subseteq [Accounts -> Int]
  /\ UserSplit \subseteq Nat \ {0}
  /\ HouseSplit \subseteq Nat \ {0}
  /\ Weights \subseteq Nat \ {0}
  /\ Sums \subseteq Int

VARIABLES
  balances,  \* the accounts' balances
  leaves,    \* GenerateLiabilityLeaves: the leaf list
  stage,     \* "split", "shuffle", "build", "published" or "refused"
  place,     \* the account to be split, or the place to be shuffled
  levels,    \* the published tree, <<>> before
  forged,    \* history: a sum in the tree was declared
  reader,    \* the account whose document is being verified; they come one after another
  shown,     \* the leaves of it verified so far
  own,       \* the sum of their balances
  read,      \* how many they were, repetitions included
  careful,   \* history: they are the reader's own and all different
  clean,     \* history: the document is what the operator's API renders for the reader
  verdict,   \* of the current document: "none", "reading", "ok" or "refused"
  counted    \* history: what careful readers have seen verified, and in how many leaves

treeVars == <<balances, leaves, stage, place, levels, forged>>
docVars == <<reader, shown, own, read, careful, clean, verdict, counted>>
vars == <<balances, leaves, stage, place, levels, forged,
          reader, shown, own, read, careful, clean, verdict, counted>>

Salt(n) == [kind |-> "salt", number |-> n]

\* One leaf, as a document prints it.
SameLeaf(l, m) ==
  /\ l.salt = m.salt
  /\ l.publicId = m.publicId
  /\ CanonicalAmount(l.balance) = CanonicalAmount(m.balance)

-----------------------------------------------------------------------------
(* GenerateLiabilityLeaves *)

SplitOf(a) == IF a \in House THEN HouseSplit ELSE UserSplit

Fragments(a, parts) ==
  [j \in DOMAIN parts |->
     [salt |-> Salt(Len(leaves) + j), publicId |-> a, balance |-> parts[j]]]

SplitAccount ==
  /\ stage = "split"
  /\ balances[place] >= 0
  /\ \E k \in SplitOf(place) : \E w \in [1 .. k -> Weights] :
       LET all == leaves \o Fragments(place, RandPartition(balances[place], w))
       IN  /\ leaves' = all
           /\ IF place < NumAccounts
              THEN stage' = "split" /\ place' = place + 1
              ELSE stage' = "shuffle" /\ place' = Len(all)
  /\ UNCHANGED <<balances, levels, forged>>
  /\ UNCHANGED docVars

RefuseNegative ==
  /\ stage = "split"
  /\ balances[place] < 0
  /\ stage' = "refused"
  /\ leaves' = <<>>
  /\ UNCHANGED <<balances, place, levels, forged>>
  /\ UNCHANGED docVars

\* The source of randomness fails: no list is returned.
RandomnessFails ==
  /\ stage \in {"split", "shuffle"}
  /\ stage' = "refused"
  /\ leaves' = <<>>
  /\ UNCHANGED <<balances, place, levels, forged>>
  /\ UNCHANGED docVars

\* One swap of the Fisher-Yates shuffle, from the last place down to the second.
Shuffle ==
  /\ stage = "shuffle"
  /\ IF place > 1
     THEN /\ \E j \in Draws(place) \cap 1 .. place :
               leaves' = [leaves EXCEPT ![place] = leaves[j], ![j] = leaves[place]]
          /\ place' = place - 1
          /\ stage' = stage
     ELSE stage' = "build" /\ UNCHANGED <<leaves, place>>
  /\ UNCHANGED <<balances, levels, forged>>
  /\ UNCHANGED docVars

-----------------------------------------------------------------------------
(* Publication *)

Publish ==
  /\ stage = "build"
  /\ \A i \in DOMAIN leaves : LeafOk(leaves[i])
  /\ levels' = BuildLiabilityTree(leaves)
  /\ stage' = "published"
  /\ UNCHANGED <<balances, leaves, place, forged>>
  /\ UNCHANGED docVars

\* The tree as BuildLiabilityTree would build it if node i of level d had sum s.
Declared(d, i, s) ==
  LET height == Len(BuildLiabilityTree(leaves))
      level[e \in 1 .. height] ==
        LET plain == IF e = 1 THEN LeafLevel(leaves) ELSE NextLevel(level[e - 1])
        IN  IF e = d THEN [plain EXCEPT ![i].sum = s] ELSE plain
  IN  [e \in 1 .. height |-> level[e]]

PublishForged ==
  /\ stage = "build"
  /\ Len(leaves) <= MaxForged
  /\ LET built == BuildLiabilityTree(leaves)
     IN  \E d \in DOMAIN built : \E i \in DOMAIN built[d], s \in Sums :
           /\ s # built[d][i].sum
           /\ levels' = Declared(d, i, s)
  /\ forged' = TRUE
  /\ stage' = "published"
  /\ UNCHANGED <<balances, leaves, place>>
  /\ UNCHANGED docVars

-----------------------------------------------------------------------------
(* Documents *)

Served(i) == NewLiabilityWireLeaf(leaves[i], ProofFor(levels, i - 1))

ServedTo(a) == {Served(i) : i \in {j \in DOMAIN leaves : leaves[j].publicId = a}}

\* A balance, and one sibling sum, of the server's choosing; the last sum is the one that
\* completes the published total, since any other is refused.
Redeclared(wire) ==
  LET n     == Len(wire.proof)
      sums  == [i \in 1 .. n - 1 |-> wire.proof[i].sum]
      lies  == {sums} \cup {[sums EXCEPT ![i] = s] : i \in 1 .. n - 1, s \in Sums}
      claim(b, ss) ==
        [leaf  |-> [wire.leaf EXCEPT !.balance = b],
         proof |-> [i \in 1 .. n |-> [wire.proof[i] EXCEPT !.sum =
                      IF i < n THEN ss[i] ELSE Total(levels) - b - SumOfSeq(ss)]]]
  IN  {claim(b, ss) : b \in Sums, ss \in lies}

\* Other changes to what is served: another owner, a broken field, another path.
Altered(wire) ==
  {[wire EXCEPT !.leaf.publicId = a] : a \in Accounts}
    \cup {[wire EXCEPT !.leaf.salt = Misfit], [wire EXCEPT !.leaf.balance = Malformed],
          [wire EXCEPT !.leaf.balance = Absent]}
    \cup {[wire EXCEPT !.proof[i].isLeft = ~@] : i \in DOMAIN wire.proof}
    \cup {[wire EXCEPT !.proof = RemoveAt(@, i)] : i \in DOMAIN wire.proof}

Wires ==
  UNION {{Served(i)} \cup Redeclared(Served(i)) \cup Altered(Served(i)) : i \in DOMAIN leaves}

OpenDoc ==
  /\ stage = "published"
  /\ verdict # "reading"
  /\ reader < NumAccounts
  /\ reader' = reader + 1
  /\ shown' = {}
  /\ own' = 0
  /\ read' = 0
  /\ careful' = TRUE
  /\ clean' = TRUE
  /\ verdict' = "reading"
  /\ UNCHANGED counted
  /\ UNCHANGED treeVars

Refuse ==
  /\ verdict' = "refused"
  /\ shown' = {}
  /\ own' = 0
  /\ read' = 0
  /\ careful' = FALSE
  /\ UNCHANGED <<reader, counted>>
  /\ UNCHANGED treeVars

\* One leaf of the document, in LiabilityProofDoc.Verify.
VerifyLeaf(wire) ==
  /\ verdict = "reading"
  /\ read < MaxShown
  /\ clean' = (clean /\ wire \in ServedTo(reader) /\ wire.leaf \notin shown)
  /\ IF WireLeafOk(wire, RootHash(levels), Total(levels))
     THEN LET leaf == DecodedLeaf(wire)
          IN  /\ shown' = shown \cup {leaf}
              /\ own' = own + leaf.balance
              /\ read' = read + 1
              /\ careful' = (careful /\ leaf.publicId = reader
                               /\ \A l \in shown : ~SameLeaf(l, leaf))
              /\ UNCHANGED <<reader, verdict, counted>>
              /\ UNCHANGED treeVars
     ELSE Refuse

\* The end of the document, with the balance it claims: a document without leaves does not
\* parse, and a claim other than the sum proven is refused.
EndOfDoc(claimed) ==
  /\ verdict = "reading"
  /\ clean' = (clean /\ Cardinality(shown) = Cardinality(ServedTo(reader))
                     /\ claimed \in {Absent, CanonicalAmount(balances[reader])})
  /\ IF read > 0 /\ OwnBalanceOk(claimed, own)
     THEN /\ verdict' = "ok"
          /\ counted' = IF careful THEN [sum    |-> counted.sum + own,
                                         leaves |-> counted.leaves + read]
                        ELSE counted
          /\ shown' = {}
          /\ careful' = FALSE
          /\ UNCHANGED <<reader, own, read>>
          /\ UNCHANGED treeVars
     ELSE Refuse

-----------------------------------------------------------------------------

Init ==
  /\ balances \in InputSets
  /\ leaves = <<>>
  /\ stage = "split"
  /\ place = 1
  /\ levels = <<>>
  /\ forged = FALSE
  /\ reader = 0
  /\ shown = {}
  /\ own = 0
  /\ read = 0
  /\ careful = FALSE
  /\ clean = FALSE
  /\ verdict = "none"
  /\ counted = [sum |-> 0, leaves |-> 0]

Next ==
  \/ SplitAccount
  \/ RefuseNegative
  \/ RandomnessFails
  \/ Shuffle
  \/ Publish
  \/ PublishForged
  \/ OpenDoc
  \/ \E wire \in Wires : VerifyLeaf(wire)
  \/ \E claimed \in {Absent, own, own + 1} : EndOfDoc(claimed)

Spec == Init /\ [][Next]_vars

-----------------------------------------------------------------------------
(* Properties *)

\* A split never loses or makes up balance, and nothing an honest operator publishes is
\* refused: the document of an account verifies for every split, padding and order of the
\* leaves and every shape of the tree, and counted that account's balance
\* (sumtree_privacy.go:14-25, sumtree.go:185-187).
HonestDocVerifies ==
  clean /\ ~forged =>
    /\ verdict # "refused"
    /\ verdict = "ok" => own = balances[reader]

\* Only leaves of the tree verify under its root and total, whatever sums, sides and owners a
\* document declares (sumtree.go:268-270); of an amount the first 18 digits count.
CommittedLeavesOnly ==
  ~forged => \A l \in shown : \E j \in DOMAIN leaves : SameLeaf(l, leaves[j])

\* No liability hides: whatever sums the operator declared in the tree, and whatever he
\* declares to each holder, the balances that careful holders see verified fit together
\* into the published total (sumtree.go:13-23).  A total that is not a whole number of
\* canonical units may hide less than one such unit per leaf.
ReportsFitTotal ==
  counted.leaves > 0 =>
    counted.sum <= Total(levels) + (counted.leaves - 1) * (SubScale - 1)
=============================================================================
