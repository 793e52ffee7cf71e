----------------------------- MODULE MCTreeHeads ----------------------------
(* Small instances of TreeHeads. *)
EXTENDS TreeHeads

\* Signing starts at time 2; the key rotates at time 3.
MCPublished ==
  "k1" :> [pub |-> "k1", validFrom |-> 2, validTo |-> 3]
  @@ "k2" :> [pub |-> "k2", validFrom |-> 3, validTo |-> Absent]

MCOption(has, allow) ==
  [hasRegistry |-> has, registry |-> MCPublished, allowUnsigned |-> allow]

MCStrict == {MCOption(TRUE, FALSE)}

\* With a registry, and without one on a development log.
MCOptions == MCStrict \cup {MCOption(FALSE, TRUE)}

MCNoHeadEdits(h, exported) == {}

\* The same key's signature over an entry hash, which is a receipt and not a head.
Receipt(h) == [key |-> h.keyId, context |-> "receipt", over |-> h.root]

\* One edit of each field, also with the root rebuilt to fit the export, and without the
\* signature.
MCHeadEdits(h, exported) ==
  LET fits(x) ==
        IF x.treeSize <= Len(exported[x.pool])
        THEN {[x EXCEPT !.root = MerkleRoot(FirstOf(exported[x.pool], x.treeSize))]} ELSE {}
      edits == {[h EXCEPT !.ts = 5 - @], [h EXCEPT !.operator = "op2"]}
                 \cup {[h EXCEPT !.treeSize = n] : n \in 1 .. MaxLog}
                 \cup {[h EXCEPT !.pool = p] : p \in Pools}
      fitted == UNION {fits(x) : x \in edits \cup {h}}
      bare(x) == [x EXCEPT !.sig = NoHeadSignature]
  IN  (edits \cup fitted \cup {bare(x) : x \in fitted} \cup {bare(h)}
        \cup {[h EXCEPT !.keyId = k] : k \in DOMAIN MCPublished}
        \cup {[h EXCEPT !.sig = Receipt(h)]}) \ {h}

\* A mirror alters the head when there is only one; with more, it drops, repeats and
\* reorders them.
MCLoneHeadEdits(h, exported) ==
  IF Cardinality(published) = 1 /\ rewrites = 0 THEN MCHeadEdits(h, exported) ELSE {}

\* Payloads are only ever compared.
MCSymmetry == Permutations(Payloads)

MCNoAnchorEdits(h, heads) == {}

\* A digest of another head, a ref without a digest, another size.
MCAnchorEdits(h, heads) ==
  {[AnchorOf(h) EXCEPT !.digest = CanonicalHead(x)] : x \in heads}
    \cup {[AnchorOf(h) EXCEPT !.digest = NoDigest],
          [AnchorOf(h) EXCEPT !.treeSize = @ + 1]}
=============================================================================
