------------------------------ MODULE TreeHeads -----------------------------
(***************************************************************************)
(* The -sth and -anchors half of cmd/staking-verify (VerifySTHs and         *)
(* VerifyAnchors): tree heads that somebody recorded, checked against an    *)
(* export that has passed VerifyStream.                                     *)
(*                                                                         *)
(* The operator is modelled as it may misbehave: it may replace a log by    *)
(* another one, chained and signed as well as the first, and go on          *)
(* publishing heads.  The verified export then shows its latest log.  The   *)
(* head file comes from a mirror, which keeps, repeats, reorders and alters *)
(* heads but cannot sign.  Operator, mirror and calendar are not in this    *)
(* repository.                                                              *)
(***************************************************************************)
EXTENDS Merkle, Translog

CONSTANTS
  Pools,        \* pool ids, numbered in the order of their ids
  OptionSets,   \* the command lines considered
  Published,    \* the key registry the operator publishes
  Owner,        \* the operator's id
  Payloads,     \* the canonical entries it logs
  Times,        \* the instants it publishes heads at
  HeadEdits(_, _),    \* the heads a mirror may make of one, given the exported leaves
  AnchorEdits(_, _),  \* the anchor records made of one, given the published heads
  MaxLog,       \* bound: entries in the pools' logs together
  MaxHeads,     \* bound: heads published
  MaxRewrites,  \* bound: logs replaced
  MaxFile,      \* bound: lines of the head file
  MaxAnchors    \* bound: lines of the anchor file

\* A private key goes by the id its public half is published under.
ASSUME KeyNamesAssumption == \A k \in DOMAIN Published : Published[k].pub = k

VARIABLES
  log,        \* the operator's current log of each pool: canonical entries
  published,  \* history: the heads published, each with the log it was published over
  rewrites,   \* history: how often a log was replaced
  opts,       \* the run's options
  leaves,     \* Summary.Pools[p].Leaves: the entry hashes of the verified export
  file,       \* the parsed -sth file
  todo,       \* places of file still to check
  verified,   \* the heads that passed, in that order; last of them is prev
  anchors,    \* anchor records still to check
  reported,   \* anchor records that passed
  verdict     \* the stage reached, or the check that failed

operatorVars == <<log, published, rewrites>>
inputVars == <<opts, leaves, file>>
vars == <<log, published, rewrites, opts, leaves, file, todo, verified, anchors, reported,
          verdict>>

-----------------------------------------------------------------------------
(* Heads *)

\* STH.CanonicalJSON: the fields a signature covers.
CanonicalHead(h) ==
  [operator |-> h.operator, pool |-> h.pool, treeSize |-> h.treeSize, root |-> h.root,
   ts |-> h.ts]

\* STH.Validate, of a parsed head: the pool is named, the tree holds an event, the root is of
\* a hash's length, the time is given.
ValidHead(h) ==
  h.pool \in Int /\ h.treeSize \in Nat \ {0} /\ HashSized(h.root) /\ h.ts \in Int

NoHeadSignature == [key |-> Absent, context |-> Absent, over |-> Absent]

\* SignSTH: the context keeps head signatures apart from receipt signatures.
SignHead(key, h) == [key |-> key, context |-> "sth", over |-> CanonicalHead(h)]

\* Mutant: the bytes signed are not compared.
VerifySTHKey(pub, h) == h.sig.context = "sth" /\ h.sig.key = pub

VerifySTH(pub, h) ==
  h.sig.context = "sth" /\ h.sig.key = pub /\ h.sig.over = CanonicalHead(h)

IsUnsignedHead(h) == h.sig = NoHeadSignature

\* Entry hashes of a log: each commits to every entry up to its own.
EntryHashesOf(entries) == [i \in DOMAIN entries |-> FirstOf(entries, i)]

-----------------------------------------------------------------------------
(* The operator *)

\* Entries logged, over all pools.
Logged == SumFunction([p \in Pools |-> Len(log[p])])

LogEntry(p, e) ==
  /\ verdict = "running"
  /\ Logged < MaxLog
  /\ log' = [log EXCEPT ![p] = Append(@, e)]
  /\ UNCHANGED <<published, rewrites>>

PublishHead(p, ts) ==
  LET unsigned == [operator |-> Owner, pool |-> p, treeSize |-> Len(log[p]),
                   root |-> MerkleRoot(EntryHashesOf(log[p])), ts |-> ts,
                   keyId |-> KeyAt(Published, ts), sig |-> NoHeadSignature]
      head == IF unsigned.keyId = Absent THEN unsigned
              ELSE [unsigned EXCEPT !.sig = SignHead(unsigned.keyId, unsigned)]
  IN  /\ verdict = "running"
      /\ log[p] # <<>>
      /\ Cardinality(published) < MaxHeads
      /\ published' = published \cup {[head |-> head, over |-> log[p]]}
      /\ UNCHANGED <<log, rewrites>>

Rewrite(p) ==
  /\ verdict = "running"
  /\ rewrites < MaxRewrites
  /\ \E other \in BoundedSeq(Payloads, MaxLog - (Logged - Len(log[p]))) :
       other # log[p] /\ log' = [log EXCEPT ![p] = other]
  /\ rewrites' = rewrites + 1
  /\ UNCHANGED published

Operate ==
  /\ \E p \in Pools :
       \/ \E e \in Payloads : LogEntry(p, e)
       \/ \E ts \in Times : PublishHead(p, ts)
       \/ Rewrite(p)
  /\ UNCHANGED <<opts, leaves, file, todo, verified, anchors, reported, verdict>>

-----------------------------------------------------------------------------
(* The verifier's inputs *)

PublishedHeads == {r.head : r \in published}

\* The anchor of a head: it names the head and carries the digest of its canonical form.
AnchorOf(h) == [pool |-> h.pool, treeSize |-> h.treeSize, digest |-> CanonicalHead(h)]

\* What is left of a ref that is not of the shape {"digest": ...}.
NoDigest == [ref |-> "opaque"]

\* Mutant: heads are ordered by time alone within a pool.
BeforeInTime(heads, i, j) ==
  LET x == heads[i]
      y == heads[j]
  IN  \/ x.pool < y.pool
      \/ x.pool = y.pool /\ x.ts < y.ts
      \/ x.pool = y.pool /\ x.ts = y.ts /\ i < j

\* VerifySTHs' order: by pool, then tree size, then time, then place in the file.
Before(heads, i, j) ==
  LET x == heads[i]
      y == heads[j]
  IN  \/ x.pool < y.pool
      \/ x.pool = y.pool /\ x.treeSize < y.treeSize
      \/ x.pool = y.pool /\ x.treeSize = y.treeSize /\ x.ts < y.ts
      \/ x.pool = y.pool /\ x.treeSize = y.treeSize /\ x.ts = y.ts /\ i < j

\* The place of todo that is next in that order.
IsNext(i) == i \in todo /\ \A j \in todo \ {i} : Before(file, i, j)

\* What a mirror can show: it cannot sign, though it can copy signatures.
Makeable(h) ==
  \/ IsUnsignedHead(h)
  \/ h.sig.context # "sth"
  \/ \E x \in PublishedHeads : h.sig = x.sig

\* VerifyStream has accepted the operator's current log; the files are read.
TakeInputs ==
  LET exported == [p \in Pools |-> EntryHashesOf(log[p])]
      heads    == PublishedHeads \cup UNION {HeadEdits(h, exported) : h \in PublishedHeads}
      records  == {AnchorOf(h) : h \in PublishedHeads}
                    \cup UNION {AnchorEdits(h, PublishedHeads) : h \in PublishedHeads}
  IN  /\ verdict = "running"
      /\ leaves' = exported
      /\ file' \in BoundedSeq({h \in heads : Makeable(h) /\ ValidHead(h)}, MaxFile)
      /\ anchors' \in BoundedSeq(records, MaxAnchors)
      /\ todo' = DOMAIN file'
      /\ verdict' = "heads"
      /\ UNCHANGED <<opts, verified, reported>>
      /\ UNCHANGED operatorVars

\* A head file is parsed whole before the first head is checked, an anchor file before the
\* first anchor is: a line that does not parse, or is no ValidHead, ends the run there.
RefuseFile ==
  /\ verdict = "running" \/ (verdict = "anchors" /\ reported = <<>>)
  /\ verdict' = "parse"
  /\ UNCHANGED <<todo, verified, anchors, reported>>
  /\ UNCHANGED operatorVars
  /\ UNCHANGED inputVars

-----------------------------------------------------------------------------
(* VerifySTHs *)

\* Mutant: the root is not recomputed from the leaves.
HeadMatchesSize(h) ==
  leaves[h.pool] # <<>> /\ h.operator = Owner /\ h.treeSize <= Len(leaves[h.pool])

\* The head must be of this export, and its root the one recomputed from the leaves.
HeadMatches(h) ==
  /\ h.pool \in Pools /\ leaves[h.pool] # <<>>
  /\ h.operator = Owner
  /\ h.treeSize <= Len(leaves[h.pool])
  /\ h.root = MerkleRoot(FirstOf(leaves[h.pool], h.treeSize))

HeadSignatureOk(h) ==
  IF IsUnsignedHead(h) THEN opts.allowUnsigned
  ELSE /\ opts.hasRegistry
       /\ Resolves(opts.registry, h.keyId, h.ts)
       /\ VerifySTH(opts.registry[h.keyId].pub, h)

\* Mutant: a second head of one size is taken for a fork.
ExtendsStrictly(h) ==
  verified # <<>> /\ Last(verified).pool = h.pool => Last(verified).treeSize < h.treeSize

\* Append-only extension of the previous head of the same pool.
Extends(h) ==
  verified # <<>> /\ Last(verified).pool = h.pool =>
    LET prev == Last(verified)
        ls   == leaves[h.pool]
    IN  IF prev.treeSize = h.treeSize THEN prev.root = h.root
        ELSE /\ ConsistencyInRange(ls, prev.treeSize, h.treeSize)
             /\ VerifyConsistency(prev.root, prev.treeSize, h.root, h.treeSize,
                                  ConsistencyProof(ls, prev.treeSize, h.treeSize))

CheckHead(h) ==
  IF ~HeadMatches(h) THEN "sth"
  ELSE IF ~HeadSignatureOk(h) THEN "sth-signature"
  ELSE IF ~Extends(h) THEN "sth-consistency"
  ELSE "ok"

VerifyHead ==
  /\ verdict = "heads"
  /\ \E i \in todo :
       /\ IsNext(i)
       /\ IF CheckHead(file[i]) = "ok"
          THEN /\ verified' = Append(verified, file[i])
               /\ todo' = todo \ {i}
               /\ UNCHANGED verdict
          ELSE /\ verdict' = CheckHead(file[i])
               /\ UNCHANGED <<todo, verified>>
  /\ UNCHANGED <<anchors, reported>>
  /\ UNCHANGED operatorVars
  /\ UNCHANGED inputVars

EndOfHeads ==
  /\ verdict = "heads"
  /\ todo = {}
  /\ verdict' = "anchors"
  /\ UNCHANGED <<todo, verified, anchors, reported>>
  /\ UNCHANGED operatorVars
  /\ UNCHANGED inputVars

-----------------------------------------------------------------------------
(* VerifyAnchors *)

\* byKey: the heads with that pool and size; a later line of the file replaces an earlier.
PlacesFor(a) == {i \in DOMAIN file : file[i].pool = a.pool /\ file[i].treeSize = a.treeSize}

\* Mutant: the anchor only has to name a verified head.
AnchorNamesHead(a) == PlacesFor(a) # {}

\* A record whose ref carries no digest is reported unchecked.
AnchorOk(a) ==
  /\ PlacesFor(a) # {}
  /\ a.digest # NoDigest => a.digest = CanonicalHead(file[Max(PlacesFor(a))])

VerifyAnchor ==
  /\ verdict = "anchors"
  /\ anchors # <<>>
  /\ IF AnchorOk(Head(anchors))
     THEN /\ reported' = Append(reported, Head(anchors))
          /\ anchors' = Tail(anchors)
          /\ UNCHANGED verdict
     ELSE /\ verdict' = "anchor"
          /\ UNCHANGED <<anchors, reported>>
  /\ UNCHANGED <<todo, verified>>
  /\ UNCHANGED operatorVars
  /\ UNCHANGED inputVars

EndOfAnchors ==
  /\ verdict = "anchors"
  /\ anchors = <<>>
  /\ verdict' = "ok"
  /\ UNCHANGED <<todo, verified, anchors, reported>>
  /\ UNCHANGED operatorVars
  /\ UNCHANGED inputVars

-----------------------------------------------------------------------------

Init ==
  /\ log = [p \in Pools |-> <<>>]
  /\ published = {}
  /\ rewrites = 0
  /\ opts \in OptionSets
  /\ leaves = [p \in Pools |-> <<>>]
  /\ file = <<>>
  /\ todo = {}
  /\ verified = <<>>
  /\ anchors = <<>>
  /\ reported = <<>>
  /\ verdict = "running"

Next ==
  \/ Operate
  \/ TakeInputs
  \/ RefuseFile
  \/ VerifyHead
  \/ EndOfHeads
  \/ VerifyAnchor
  \/ EndOfAnchors

Spec == Init /\ [][Next]_vars

-----------------------------------------------------------------------------
(* Properties *)

\* The exported log of a pool, as the reader sees it once the export is taken.
ExportedPrefix(p, n) == FirstOf(log[p], n)

\* cmd/staking-verify/sth.go check 1: whoever recorded a published head, and later has it
\* verified against an export, holds that export to the log the head was published over,
\* even when the operator has rewritten, re-chained and re-signed its log since.
VerifiedHeadsPinHistory ==
  \A i \in DOMAIN verified : \A r \in published :
    CanonicalHead(r.head) = CanonicalHead(verified[i]) =>
      ExportedPrefix(verified[i].pool, verified[i].treeSize) = r.over

\* A run that accepts a signed head accepts one the operator published for that pool, size
\* and time: no altered head, and no receipt signature, passes (pkg/translog/sth.go:8-10).
SignedHeadsWerePublished ==
  \A i \in DOMAIN verified :
    ~IsUnsignedHead(verified[i]) =>
      \E r \in published : CanonicalHead(r.head) = CanonicalHead(verified[i])

\* Once both roots are recomputed from the same leaves, the generated consistency proof
\* always verifies, so check 3 refuses nothing that check 1 let through (SPEC.md 5, "the
\* log has forked" is found by the roots).
RootsImplyConsistency == verdict # "sth-consistency"

HonestInputs ==
  /\ rewrites = 0
  /\ \A i \in DOMAIN file : file[i] \in PublishedHeads
  /\ opts.hasRegistry /\ opts.registry = Published
  /\ opts.allowUnsigned \/ \A i \in DOMAIN file : ~IsUnsignedHead(file[i])

\* No false alarm: heads of a log that was only ever appended to verify, in any number,
\* order and repetition, across key rotation.
HonestHeadsVerify ==
  HonestInputs => verdict \notin {"sth", "sth-signature", "sth-consistency"}

\* An anchor reported as bound holds the export to the log that was anchored.
AnchoredHistoryStands ==
  \A i \in DOMAIN reported : \A r \in published :
    reported[i].digest = CanonicalHead(r.head) =>
      ExportedPrefix(r.head.pool, r.head.treeSize) = r.over

\* cmd/staking-verify/sth.go:265-269: an anchor whose digest is that of a verified head of the
\* pool and size it names binds to that head, and is not refused.
HonestAnchorsVerify ==
  verdict = "anchor" =>
    ~\E i \in DOMAIN verified : Head(anchors) = AnchorOf(verified[i])
=============================================================================
