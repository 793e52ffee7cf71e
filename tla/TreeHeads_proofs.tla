-------------------------- MODULE TreeHeads_proofs --------------------------
(***************************************************************************)
(* For trees of any size, any logs, rewrites and head files: the heads and  *)
(* anchors that pass hold the export to the log they were made over, and    *)
(* heads of a log that was only appended to pass.  For the publisher: its   *)
(* frontier commits to what it observed, and the proofs served over the log *)
(* verify exactly for what the log holds.                                   *)
(***************************************************************************)
EXTENDS TreeHeads, TreePublisher, Merkle_proofs

-----------------------------------------------------------------------------
(* The last of some places *)

\* A nonempty set of numbers up to n has a maximum.
LEMMA MaxIsMember ==
  ASSUME NEW n \in Nat, NEW T, T \subseteq 1 .. n, T # {}
  PROVE  Max(T) \in T
<1> DEFINE Gaps == {n - x : x \in T}
<1>1. Gaps \subseteq Nat /\ Gaps # {}
  <2>1. \A x \in T : n - x \in Nat
    OBVIOUS
  <2>2. PICK x \in T : TRUE
    OBVIOUS
  <2>3. n - x \in Gaps
    OBVIOUS
  <2> QED BY <2>1, <2>3
<1>2. PICK g \in Gaps : \A y \in Gaps : g <= y
  <2> HIDE DEF Gaps
  <2> QED BY <1>1, Least
<1>3. PICK x \in T : g = n - x
  OBVIOUS
<1>4. ASSUME NEW y \in T PROVE x >= y
  <2>1. n - y \in Gaps /\ x \in Int /\ y \in Int
    OBVIOUS
  <2> HIDE DEF Gaps
  <2> QED BY <1>2, <1>3, <2>1
<1> QED BY <1>4 DEF Max

-----------------------------------------------------------------------------
(* What the heads and the inputs are *)

LogInv == log \in [Pools -> Seq(Payloads)]

\* A published head is about the log it was published over.
TrueHead(r) ==
  /\ r.head.pool \in Pools
  /\ r.over \in Seq(Payloads) /\ r.over # <<>>
  /\ r.head.treeSize = Len(r.over)
  /\ r.head.root = MerkleRoot(EntryHashesOf(r.over))
  /\ r.head.sig = NoHeadSignature \/ r.head.sig.over = CanonicalHead(r.head)

PublishedInv == \A r \in published : TrueHead(r)

\* A head that passed its own two checks, and that was at hand to be passed.
Passed(h) == HeadMatches(h) /\ HeadSignatureOk(h) /\ Makeable(h)

\* The verified export is the operator's current log.
Taken == leaves = [p \in Pools |-> EntryHashesOf(log[p])]

\* The verifier's inputs, and how far it is in the head file.
HeadFileInv ==
  /\ Taken \/ (verdict \notin {"heads", "anchors"} /\ verified = <<>> /\ reported = <<>>)
  /\ \E H : file \in Seq(H) /\ verified \in Seq(H)
  /\ todo \subseteq DOMAIN file
  /\ \A i \in DOMAIN file : Makeable(file[i])
  /\ \A i \in DOMAIN file : i \notin todo => HeadMatches(file[i])
  /\ \A i \in DOMAIN verified : Passed(verified[i])
  /\ verdict = "running" => verified = <<>> /\ reported = <<>> /\ file = <<>>
  /\ verdict = "anchors" => todo = {}

\* An anchor that passed carries no digest, or the one of a head that passed.
Bound(a) ==
  \/ a.digest = NoDigest
  \/ \E i \in DOMAIN file : HeadMatches(file[i]) /\ a.digest = CanonicalHead(file[i])

AnchorFileInv ==
  /\ \E A : anchors \in Seq(A) /\ reported \in Seq(A)
  /\ \A i \in DOMAIN reported : Bound(reported[i])

HeadsInv == LogInv /\ PublishedInv /\ HeadFileInv /\ AnchorFileInv

-----------------------------------------------------------------------------
(* The properties follow *)

\* A log's entry hashes are a sequence as long as the log.
LEMMA EntryHashesType ==
  ASSUME NEW e \in Seq(Payloads)
  PROVE  /\ EntryHashesOf(e) \in Seq(Seq(Payloads)) /\ Len(EntryHashesOf(e)) = Len(e)
         /\ \A i \in 1 .. Len(e) : EntryHashesOf(e)[i] = FirstOf(e, i)
<1>1. \A i \in 1 .. Len(e) : FirstOf(e, i) \in Seq(Payloads)
  BY DEF FirstOf
<1>2. DOMAIN e = 1 .. Len(e) /\ Len(e) \in Nat
  OBVIOUS
<1>3. EntryHashesOf(e) = [i \in 1 .. Len(e) |-> FirstOf(e, i)]
  BY <1>2 DEF EntryHashesOf
<1> DEFINE n == Len(e)
           f == [i \in 1 .. n |-> FirstOf(e, i)]
<1>4. f \in [1 .. n -> Seq(Payloads)] /\ \A i \in 1 .. n : f[i] = FirstOf(e, i)
  BY <1>1
<1>5. n \in Nat
  BY <1>2
<1> HIDE DEF n, f
<1>6. f \in Seq(Seq(Payloads)) /\ Len(f) = n
  BY <1>4, <1>5
<1> QED BY <1>3, <1>4, <1>6 DEF n, f

\* A root that is both the one of log o and that of the first entries of log e, as many as o
\* has, makes these o: the last entry hash commits to all of them.
LEMMA RootPinsLog ==
  ASSUME NEW e \in Seq(Payloads), NEW o \in Seq(Payloads), o # <<>>,
         Len(o) <= Len(EntryHashesOf(e)),
         MerkleRoot(FirstOf(EntryHashesOf(e), Len(o))) = MerkleRoot(EntryHashesOf(o))
  PROVE  FirstOf(e, Len(o)) = o
<1> DEFINE d == EntryHashesOf(e)
           n == Len(o)
           f == FirstOf(d, n)
<1>1. n \in 1 .. Len(e) /\ n \in 1 .. n
  BY EntryHashesType
<1>2. d \in Seq(Seq(Payloads)) /\ Len(d) = Len(e) /\ d[n] = FirstOf(e, n)
  BY <1>1, EntryHashesType
<1> HIDE DEF d
<1>3. f \in Seq(Seq(Payloads)) /\ f[n] = d[n]
  BY <1>1, <1>2 DEF FirstOf
<1>4. EntryHashesOf(o) \in Seq(Seq(Payloads)) /\ EntryHashesOf(o)[n] = FirstOf(o, n)
  BY <1>1, EntryHashesType
<1>5. f = EntryHashesOf(o)
  BY <1>3, <1>4, RootsCommit DEF d
<1>6. FirstOf(o, n) = o
  BY DEF FirstOf
<1> QED BY <1>2, <1>3, <1>4, <1>5, <1>6

\* A head that matches the export, and reads as a published one, pins its log.
LEMMA MatchPinsLog ==
  ASSUME HeadsInv, Taken, NEW h, HeadMatches(h), NEW r \in published,
         CanonicalHead(r.head) = CanonicalHead(h)
  PROVE  /\ h.pool = r.head.pool /\ h.treeSize = r.head.treeSize
         /\ ExportedPrefix(r.head.pool, r.head.treeSize) = r.over
<1>1. h.pool = r.head.pool /\ h.treeSize = r.head.treeSize /\ h.root = r.head.root
  <2>1. /\ CanonicalHead(h).pool = h.pool /\ CanonicalHead(h).treeSize = h.treeSize
        /\ CanonicalHead(h).root = h.root
    BY DEF CanonicalHead
  <2>2. /\ CanonicalHead(r.head).pool = r.head.pool
        /\ CanonicalHead(r.head).treeSize = r.head.treeSize
        /\ CanonicalHead(r.head).root = r.head.root
    BY DEF CanonicalHead
  <2> QED BY <2>1, <2>2
<1> DEFINE p == r.head.pool
           e == log[p]
           o == r.over
<1>2. TrueHead(r)
  BY DEF HeadsInv, PublishedInv
<1>3. p \in Pools /\ o \in Seq(Payloads) /\ o # <<>> /\ h.treeSize = Len(o)
      /\ h.root = MerkleRoot(EntryHashesOf(o))
  BY <1>1, <1>2 DEF TrueHead
<1>4. e \in Seq(Payloads) /\ leaves[p] = EntryHashesOf(e)
  BY <1>3 DEF HeadsInv, LogInv, Taken
<1>5. h.treeSize <= Len(leaves[p]) /\ h.root = MerkleRoot(FirstOf(leaves[p], h.treeSize))
  BY <1>1 DEF HeadMatches
<1> HIDE DEF e, o
<1>6. FirstOf(e, Len(o)) = o
  BY <1>3, <1>4, <1>5, RootPinsLog
<1> QED BY <1>1, <1>3, <1>6 DEF ExportedPrefix, e, o

\* Nothing passed before the inputs were taken.
LEMMA PassedMeansTaken ==
  ASSUME HeadsInv
  PROVE  /\ \A i \in DOMAIN verified : Taken
         /\ \A i \in DOMAIN reported : Taken
<1>1. DOMAIN <<>> = {}
  OBVIOUS
<1> QED BY <1>1 DEF HeadsInv, HeadFileInv

\* The invariant implies each of the three properties.
LEMMA InvPins == HeadsInv => VerifiedHeadsPinHistory
<1> SUFFICES ASSUME HeadsInv, NEW i \in DOMAIN verified, NEW r \in published,
                    CanonicalHead(r.head) = CanonicalHead(verified[i])
             PROVE  ExportedPrefix(verified[i].pool, verified[i].treeSize) = r.over
  BY DEF VerifiedHeadsPinHistory
<1>1. HeadMatches(verified[i])
  BY DEF HeadsInv, HeadFileInv, Passed
<1> QED BY <1>1, PassedMeansTaken, MatchPinsLog

\* An anchor that passed is bound to a head that matches.
LEMMA InvAnchors == HeadsInv => AnchoredHistoryStands
<1> SUFFICES ASSUME HeadsInv, NEW i \in DOMAIN reported, NEW r \in published,
                    reported[i].digest = CanonicalHead(r.head)
             PROVE  ExportedPrefix(r.head.pool, r.head.treeSize) = r.over
  BY DEF AnchoredHistoryStands
<1>1. Bound(reported[i])
  BY DEF HeadsInv, AnchorFileInv
<1>2. NoDigest # CanonicalHead(r.head)
  <2>1. DOMAIN NoDigest = {"ref"} /\ "pool" \in DOMAIN CanonicalHead(r.head)
    BY DEF NoDigest, CanonicalHead
  <2> QED BY <2>1
<1>3. PICK j \in DOMAIN file :
        HeadMatches(file[j]) /\ CanonicalHead(r.head) = CanonicalHead(file[j])
  BY <1>1, <1>2 DEF Bound
<1> QED BY <1>3, PassedMeansTaken, MatchPinsLog

\* A signature at hand that a key's owner made for heads is that of a published head.
LEMMA InvPublished == HeadsInv => SignedHeadsWerePublished
<1> SUFFICES ASSUME HeadsInv, NEW i \in DOMAIN verified, ~IsUnsignedHead(verified[i])
             PROVE  \E r \in published : CanonicalHead(r.head) = CanonicalHead(verified[i])
  BY DEF SignedHeadsWerePublished
<1> DEFINE h == verified[i]
<1>1. HeadSignatureOk(h) /\ Makeable(h)
  BY DEF HeadsInv, HeadFileInv, Passed
<1>2. h.sig.context = "sth" /\ h.sig.over = CanonicalHead(h)
  BY <1>1 DEF HeadSignatureOk, VerifySTH
<1>3. PICK r \in published : h.sig = r.head.sig
  BY <1>1, <1>2 DEF Makeable, PublishedHeads
<1>4. TrueHead(r) /\ h.sig # NoHeadSignature
  BY DEF HeadsInv, PublishedInv, IsUnsignedHead
<1>5. r.head.sig.over = CanonicalHead(r.head)
  BY <1>3, <1>4 DEF TrueHead
<1> QED BY <1>2, <1>3, <1>5

-----------------------------------------------------------------------------
(* Every step keeps the invariant *)

\* BoundedSeq makes sequences.
LEMMA BoundedSeqType ==
  ASSUME NEW T, NEW n, NEW s \in BoundedSeq(T, n)
  PROVE  s \in Seq(T)
<1>1. PICK m \in 0 .. n : s \in [1 .. m -> T]
  BY DEF BoundedSeq, SeqOf
<1> QED BY <1>1

\* Empty logs and empty files.
LEMMA InitHeadsInv == Init => HeadsInv
<1> SUFFICES ASSUME Init PROVE HeadsInv
  OBVIOUS
<1>1. LogInv /\ PublishedInv
  BY DEF Init, LogInv, PublishedInv
<1>2. /\ file = <<>> /\ todo = {} /\ verified = <<>> /\ anchors = <<>> /\ reported = <<>>
      /\ verdict = "running"
  BY DEF Init
<1>3. <<>> \in Seq({}) /\ DOMAIN <<>> = {}
  OBVIOUS
<1> QED BY <1>1, <1>2, <1>3 DEF HeadsInv, HeadFileInv, AnchorFileInv

\* While the operator is at work there are no files to speak of.
LEMMA OperatorKeepsHeads ==
  ASSUME HeadsInv, verdict = "running", LogInv', PublishedInv',
         UNCHANGED <<opts, leaves, file, todo, verified, anchors, reported, verdict>>
  PROVE  HeadsInv'
<1>1. file = <<>> /\ verified = <<>> /\ reported = <<>> /\ DOMAIN <<>> = {}
  BY DEF HeadsInv, HeadFileInv
<1>2. HeadFileInv'
  BY <1>1 DEF HeadsInv, HeadFileInv
<1>3. AnchorFileInv'
  BY <1>1 DEF HeadsInv, AnchorFileInv
<1> QED BY <1>2, <1>3 DEF HeadsInv

\* A head is published over the log.
LEMMA PublishKeeps ==
  ASSUME HeadsInv, NEW p \in Pools, NEW ts, PublishHead(p, ts)
  PROVE  LogInv' /\ PublishedInv'
<1> DEFINE e == log[p]
           bare == [operator |-> Owner, pool |-> p, treeSize |-> Len(e),
                    root |-> MerkleRoot(EntryHashesOf(e)), ts |-> ts,
                    keyId |-> KeyAt(Published, ts), sig |-> NoHeadSignature]
           signed == [bare EXCEPT !.sig = SignHead(bare.keyId, bare)]
           head == IF bare.keyId = Absent THEN bare ELSE signed
           rec == [head |-> head, over |-> e]
<1>1. LogInv'
  BY DEF HeadsInv, LogInv, PublishHead
<1>2. e \in Seq(Payloads) /\ e # <<>> /\ published' = published \cup {rec}
  BY DEF HeadsInv, LogInv, PublishHead
<1>3. /\ head.pool = p /\ head.treeSize = Len(e) /\ head.root = MerkleRoot(EntryHashesOf(e))
      /\ CanonicalHead(head) = CanonicalHead(bare)
  BY DEF CanonicalHead
<1>4. head.sig = NoHeadSignature \/ head.sig.over = CanonicalHead(bare)
  <2>1. bare.sig = NoHeadSignature /\ signed.sig = SignHead(bare.keyId, bare)
    OBVIOUS
  <2>2. SignHead(bare.keyId, bare).over = CanonicalHead(bare)
    BY DEF SignHead
  <2> QED BY <2>1, <2>2
<1> HIDE DEF e, bare, signed, head
<1>5. TrueHead(rec)
  BY <1>2, <1>3, <1>4 DEF TrueHead
<1>6. \A r \in published : TrueHead(r)
  BY DEF HeadsInv, PublishedInv
<1> HIDE DEF rec
<1> QED BY <1>1, <1>2, <1>5, <1>6 DEF PublishedInv

\* A step of the operator.
LEMMA OperateKeeps ==
  ASSUME HeadsInv, Operate
  PROVE  HeadsInv'
<1>1. UNCHANGED <<opts, leaves, file, todo, verified, anchors, reported, verdict>>
  BY DEF Operate
<1>2. PICK p \in Pools :
        \/ \E e \in Payloads : LogEntry(p, e)
        \/ \E ts \in Times : PublishHead(p, ts)
        \/ Rewrite(p)
  BY DEF Operate
<1>3. log \in [Pools -> Seq(Payloads)] /\ log[p] \in Seq(Payloads)
  BY DEF HeadsInv, LogInv
<1>4. ASSUME NEW e \in Payloads, LogEntry(p, e)
      PROVE  verdict = "running" /\ LogInv' /\ PublishedInv'
  <2>1. log' = [log EXCEPT ![p] = Append(log[p], e)] /\ published' = published
    BY <1>4 DEF LogEntry
  <2>2. Append(log[p], e) \in Seq(Payloads)
    BY <1>3
  <2>3. LogInv'
    BY <1>3, <2>1, <2>2 DEF LogInv
  <2> QED BY <1>4, <2>1, <2>3 DEF LogEntry, HeadsInv, PublishedInv
<1>5. ASSUME NEW ts \in Times, PublishHead(p, ts)
      PROVE  verdict = "running" /\ LogInv' /\ PublishedInv'
  BY <1>5, PublishKeeps DEF PublishHead
<1>6. ASSUME Rewrite(p)
      PROVE  verdict = "running" /\ LogInv' /\ PublishedInv'
  <2>1. PICK other \in BoundedSeq(Payloads, MaxLog - (Logged - Len(log[p]))) :
          log' = [log EXCEPT ![p] = other]
    BY <1>6 DEF Rewrite
  <2>2. other \in Seq(Payloads)
    BY BoundedSeqType
  <2>3. LogInv'
    BY <1>3, <2>1, <2>2 DEF LogInv
  <2> QED BY <1>6, <2>3 DEF Rewrite, HeadsInv, PublishedInv
<1> QED BY <1>1, <1>2, <1>4, <1>5, <1>6, OperatorKeepsHeads

\* The files are read, and nothing is verified yet.
LEMMA TakeKeeps ==
  ASSUME HeadsInv, TakeInputs
  PROVE  HeadsInv'
<1>1. /\ verdict = "running" /\ verdict' = "heads"
      /\ UNCHANGED <<opts, verified, reported, log, published>>
  BY DEF TakeInputs, operatorVars
<1>2. verified = <<>> /\ reported = <<>> /\ DOMAIN <<>> = {}
  BY <1>1 DEF HeadsInv, HeadFileInv
<1>3. PICK H : file' \in BoundedSeq({h \in H : Makeable(h) /\ ValidHead(h)}, MaxFile)
  BY DEF TakeInputs
<1>4. PICK A : anchors' \in Seq(A)
  BY BoundedSeqType DEF TakeInputs
<1>5. file' \in Seq({h \in H : Makeable(h) /\ ValidHead(h)})
  BY <1>3, BoundedSeqType
<1>6. todo' = DOMAIN file' /\ Taken'
  BY <1>1 DEF TakeInputs, Taken
<1>7. \A h : Makeable(h)' <=> Makeable(h)
  BY <1>1 DEF Makeable, PublishedHeads
<1>8. \A i \in DOMAIN file' : Makeable(file'[i])
  BY <1>5
<1>9. HeadFileInv'
  <2>1. <<>> \in Seq({h \in H : Makeable(h) /\ ValidHead(h)})
    OBVIOUS
  <2> QED BY <1>1, <1>2, <1>5, <1>6, <1>7, <1>8, <2>1 DEF HeadFileInv
<1>10. AnchorFileInv'
  <2>1. <<>> \in Seq(A)
    OBVIOUS
  <2> QED BY <1>1, <1>2, <1>4, <2>1 DEF AnchorFileInv
<1> QED BY <1>1, <1>9, <1>10 DEF HeadsInv, LogInv, PublishedInv

\* Once the inputs are taken, what matches goes on matching and what passed has passed.
LEMMA SameInputs ==
  ASSUME UNCHANGED operatorVars, UNCHANGED inputVars
  PROVE  /\ LogInv' <=> LogInv
         /\ PublishedInv' <=> PublishedInv
         /\ Taken' <=> Taken
         /\ \A h :
              /\ Makeable(h)' <=> Makeable(h)
              /\ HeadMatches(h)' <=> HeadMatches(h)
              /\ Passed(h)' <=> Passed(h)
              /\ Bound(h)' <=> Bound(h)
<1>1. UNCHANGED <<log, published, opts, leaves, file>>
  BY DEF operatorVars, inputVars
<1>2. LogInv' <=> LogInv
  BY <1>1 DEF LogInv
<1>3. PublishedInv' <=> PublishedInv
  BY <1>1 DEF PublishedInv
<1>4. Taken' <=> Taken
  BY <1>1 DEF Taken
<1>5. ASSUME NEW h
      PROVE  /\ Makeable(h)' <=> Makeable(h)
             /\ HeadMatches(h)' <=> HeadMatches(h)
             /\ Passed(h)' <=> Passed(h)
             /\ Bound(h)' <=> Bound(h)
  BY <1>1 DEF Makeable, PublishedHeads, HeadMatches, HeadSignatureOk, Passed, Bound
<1> QED BY <1>2, <1>3, <1>4, <1>5

\* A step of the verifier is about the inputs as they are: only the rest has to be kept.
LEMMA VerifierKeeps ==
  ASSUME HeadsInv, UNCHANGED operatorVars, UNCHANGED inputVars,
         \E H : file \in Seq(H) /\ verified' \in Seq(H),
         \E A : anchors' \in Seq(A) /\ reported' \in Seq(A),
         todo' \subseteq DOMAIN file,
         \A i \in DOMAIN file : i \notin todo' => HeadMatches(file[i]),
         \A i \in DOMAIN verified' : Passed(verified'[i]),
         \A i \in DOMAIN reported' : Bound(reported'[i]),
         Taken \/ (verdict' \notin {"heads", "anchors"} /\ verified' = <<>> /\ reported' = <<>>),
         verdict' # "running",
         verdict' = "anchors" => todo' = {}
  PROVE  HeadsInv'
<1>1. file' = file /\ \A i \in DOMAIN file : Makeable(file[i])
  BY DEF inputVars, HeadsInv, HeadFileInv
<1>2. LogInv' /\ PublishedInv'
  BY SameInputs DEF HeadsInv
<1>3. HeadFileInv'
  BY <1>1, SameInputs DEF HeadFileInv
<1>4. AnchorFileInv'
  BY SameInputs DEF AnchorFileInv
<1> QED BY <1>2, <1>3, <1>4 DEF HeadsInv

\* One more element of a sequence, and what the others are.
LEMMA OneMore ==
  ASSUME NEW T, NEW s \in Seq(T), NEW x, NEW i \in DOMAIN Append(s, x)
  PROVE  Append(s, x)[i] = x \/ (i \in DOMAIN s /\ Append(s, x)[i] = s[i])
OBVIOUS

\* The next head passes, or ends the run.
LEMMA HeadKeeps ==
  ASSUME HeadsInv, VerifyHead
  PROVE  HeadsInv'
<1>1. PICK k \in todo :
        IF CheckHead(file[k]) = "ok"
        THEN verified' = Append(verified, file[k]) /\ todo' = todo \ {k} /\ UNCHANGED verdict
        ELSE verdict' = CheckHead(file[k]) /\ UNCHANGED <<todo, verified>>
  BY DEF VerifyHead
<1>2. /\ verdict = "heads" /\ UNCHANGED <<anchors, reported>>
      /\ UNCHANGED operatorVars /\ UNCHANGED inputVars
  BY DEF VerifyHead
<1>3. Taken /\ AnchorFileInv /\ HeadFileInv
  BY <1>2 DEF HeadsInv, HeadFileInv
<1>4. PICK H : file \in Seq(H) /\ verified \in Seq(H)
  BY <1>3 DEF HeadFileInv
<1>5. CASE CheckHead(file[k]) = "ok"
  <2>1. HeadMatches(file[k]) /\ HeadSignatureOk(file[k])
    BY <1>5 DEF CheckHead
  <2>2. PICK x : x = file[k]
    OBVIOUS
  <2>3. k \in DOMAIN file /\ x \in H /\ Makeable(x)
    BY <1>3, <1>4, <2>2 DEF HeadFileInv
  <2>4. Passed(x)
    BY <2>1, <2>2, <2>3 DEF Passed
  <2>5. verified' = Append(verified, x) /\ todo' = todo \ {k} /\ verdict' = "heads"
    BY <1>1, <1>2, <1>5, <2>2
  <2>6. verified' \in Seq(H)
    BY <1>4, <2>3, <2>5
  <2>7. \A i \in DOMAIN verified' : Passed(verified'[i])
    BY <1>3, <1>4, <2>4, <2>5, OneMore DEF HeadFileInv
  <2>8. \A i \in DOMAIN file : i \notin todo' => HeadMatches(file[i])
    BY <1>3, <2>1, <2>5 DEF HeadFileInv
  <2>9. todo' \subseteq DOMAIN file
    BY <1>3, <2>5 DEF HeadFileInv
  <2> QED BY <1>2, <1>3, <1>4, <2>5, <2>6, <2>7, <2>8, <2>9, VerifierKeeps DEF AnchorFileInv
<1>6. CASE CheckHead(file[k]) # "ok"
  <2>1. verdict' \in {"sth", "sth-signature", "sth-consistency"}
    BY <1>1, <1>6 DEF CheckHead
  <2>2. UNCHANGED <<todo, verified>>
    BY <1>1, <1>6
  <2> QED BY <1>2, <1>3, <2>1, <2>2, VerifierKeeps DEF HeadFileInv, AnchorFileInv
<1> QED BY <1>5, <1>6

\* Steps that end a file or the run, and pass nothing.
LEMMA EndKeeps ==
  ASSUME HeadsInv, RefuseFile \/ EndOfHeads \/ EndOfAnchors
  PROVE  HeadsInv'
<1>1. /\ UNCHANGED operatorVars /\ UNCHANGED inputVars
      /\ UNCHANGED <<todo, verified, anchors, reported>>
      /\ verdict' \in {"parse", "anchors", "ok"}
  BY DEF RefuseFile, EndOfHeads, EndOfAnchors
<1>2. verdict' = "anchors" => todo = {} /\ verdict = "heads"
  BY DEF RefuseFile, EndOfHeads, EndOfAnchors
<1>3. HeadFileInv /\ AnchorFileInv
  BY DEF HeadsInv
<1>4. Taken \/ (verdict' \notin {"heads", "anchors"} /\ verified' = <<>> /\ reported' = <<>>)
  BY <1>1, <1>2, <1>3 DEF HeadFileInv
<1> QED BY <1>1, <1>2, <1>3, <1>4, VerifierKeeps DEF HeadFileInv, AnchorFileInv

\* The next anchor is bound to a head that passed, or ends the run.
LEMMA AnchorKeeps ==
  ASSUME HeadsInv, VerifyAnchor
  PROVE  HeadsInv'
<1>1. /\ verdict = "anchors" /\ anchors # <<>> /\ UNCHANGED <<todo, verified>>
      /\ UNCHANGED operatorVars /\ UNCHANGED inputVars
  BY DEF VerifyAnchor
<1>2. Taken /\ todo = {} /\ AnchorFileInv /\ HeadFileInv
  BY <1>1 DEF HeadsInv, HeadFileInv
<1>3. PICK A : anchors \in Seq(A) /\ reported \in Seq(A)
  BY <1>2 DEF AnchorFileInv
<1>4. CASE AnchorOk(Head(anchors))
  <2> DEFINE a == Head(anchors)
             k == Max(PlacesFor(a))
  <2>1. reported' = Append(reported, a) /\ anchors' = Tail(anchors) /\ verdict' = "anchors"
    BY <1>1, <1>4 DEF VerifyAnchor
  <2>2. k \in DOMAIN file
    <3>1. PICK H : file \in Seq(H)
      BY <1>2 DEF HeadFileInv
    <3>2. DOMAIN file = 1 .. Len(file) /\ Len(file) \in Nat
      BY <3>1
    <3>3. PlacesFor(a) \subseteq DOMAIN file /\ PlacesFor(a) # {}
      BY <1>4 DEF AnchorOk, PlacesFor
    <3> QED BY <3>2, <3>3, MaxIsMember
  <2>3. HeadMatches(file[k])
    BY <1>2, <2>2 DEF HeadFileInv
  <2>4. Bound(a)
    BY <1>4, <2>2, <2>3 DEF Bound, AnchorOk
  <2> HIDE DEF k
  <2>5. a \in A /\ anchors' \in Seq(A)
    BY <1>1, <1>3, <2>1
  <2> HIDE DEF a
  <2>6. reported' \in Seq(A)
    BY <1>3, <2>1, <2>5
  <2>7. \A i \in DOMAIN reported' : Bound(reported'[i])
    BY <1>2, <1>3, <2>1, <2>4, OneMore DEF AnchorFileInv
  <2> QED BY <1>1, <1>2, <2>1, <2>5, <2>6, <2>7, VerifierKeeps DEF HeadFileInv
<1>5. CASE ~AnchorOk(Head(anchors))
  <2>1. verdict' = "anchor" /\ UNCHANGED <<anchors, reported>>
    BY <1>5 DEF VerifyAnchor
  <2> QED BY <1>1, <1>2, <2>1, VerifierKeeps DEF HeadFileInv, AnchorFileInv
<1> QED BY <1>4, <1>5

\* Nothing happens.
LEMMA StutterKeepsHeads ==
  ASSUME HeadsInv, UNCHANGED vars
  PROVE  HeadsInv'
<1>1. /\ UNCHANGED operatorVars /\ UNCHANGED inputVars
      /\ UNCHANGED <<todo, verified, anchors, reported, verdict>>
  BY DEF vars, operatorVars, inputVars
<1>2. HeadFileInv'
  BY <1>1, SameInputs DEF HeadsInv, HeadFileInv, inputVars
<1>3. AnchorFileInv'
  BY <1>1, SameInputs DEF HeadsInv, AnchorFileInv
<1> QED BY <1>1, <1>2, <1>3, SameInputs DEF HeadsInv

\* The invariant holds throughout.
LEMMA HeadsInvariant == Spec => []HeadsInv
<1>1. HeadsInv /\ [Next]_vars => HeadsInv'
  BY OperateKeeps, TakeKeeps, HeadKeeps, AnchorKeeps, EndKeeps, StutterKeepsHeads DEF Next
<1> QED BY <1>1, InitHeadsInv, PTL DEF Spec

\* Whoever recorded a published head, and later has it verified against an export, holds
\* that export to the log the head was published over, whatever the operator did to its log
\* since (cmd/staking-verify/sth.go, check 1).
THEOREM HeadsPinHistory == Spec => []VerifiedHeadsPinHistory
BY HeadsInvariant, InvPins, PTL

\* A signed head that passes was published by the operator, for that pool, size and time
\* (pkg/translog/sth.go:8-10).
THEOREM PassedHeadsWerePublished == Spec => []SignedHeadsWerePublished
BY HeadsInvariant, InvPublished, PTL

\* An anchor reported as bound holds the export to the log that was anchored.
THEOREM AnchorsPinHistory == Spec => []AnchoredHistoryStands
BY HeadsInvariant, InvAnchors, PTL

-----------------------------------------------------------------------------
(* The publisher *)

\* The frontier at r stands for the first events of the log.
StandsForLog(r) == Covers(heap[r], LeafHashes(events))

PublisherInv ==
  /\ events \in Seq(EntryHashes)
  /\ DOMAIN heap = Refs
  /\ cached \in Refs /\ (working = Nil \/ working = CloneOf(cached))
  /\ StandsForLog(cached) /\ heap[cached].size = served
  /\ working # Nil => StandsForLog(working)

\* The clone has a place of its own.
LEMMA CloneIsApart ==
  ASSUME NEW r \in Refs
  PROVE  CloneOf(r) \in Refs /\ CloneOf(r) # r /\ CloneOf(r) # Nil /\ r # Nil
<1>1. \E q \in Refs : q # r
  BY DEF Refs
<1>2. CloneOf(r) \in Refs /\ CloneOf(r) # r
  BY <1>1 DEF CloneOf
<1> QED BY <1>2 DEF Refs, Nil

\* An empty log, and frontiers of nothing.
LEMMA PublisherInitInv == PublisherInit => PublisherInv
<1> SUFFICES ASSUME PublisherInit PROVE PublisherInv
  OBVIOUS
<1>1. events = <<>> /\ cached = 1 /\ working = Nil /\ served = 0
      /\ heap = [r \in Refs |-> NewFrontier]
  BY DEF PublisherInit
<1>2. cached \in Refs /\ DOMAIN heap = Refs /\ heap[cached] = NewFrontier
  BY <1>1 DEF Refs
<1>3. events \in Seq(EntryHashes)
  BY <1>1
<1>4. Len(LeafHashes(events)) \in Nat
  <2>1. Len(LeafHashes(events)) = Len(events)
    BY <1>3, LeafHashesType
  <2> QED BY <1>3, <2>1
<1>5. StandsForLog(cached)
  BY <1>2, <1>4, NewFrontierCovers DEF StandsForLog
<1>6. heap[cached].size = served
  BY <1>1, <1>2 DEF NewFrontier
<1> QED BY <1>1, <1>2, <1>3, <1>5, <1>6 DEF PublisherInv

\* The log grows: every frontier still stands for its first events.
LEMMA LogEventKeeps ==
  ASSUME PublisherInv, NEW e \in EntryHashes, LogEvent(e)
  PROVE  PublisherInv'
<1>1. events \in Seq(EntryHashes) /\ events' = Append(events, e)
  BY DEF PublisherInv, LogEvent
<1>2. heap' = heap /\ cached' = cached /\ working' = working /\ served' = served
  BY DEF LogEvent
<1>3. events' \in Seq(EntryHashes)
  BY <1>1
<1>4. ASSUME NEW r, StandsForLog(r)
      PROVE  Covers(heap'[r], LeafHashes(events'))
  <2>1. PICK f : f = heap[r]
    OBVIOUS
  <2>2. Covers(f, LeafHashes(Append(events, e)))
    BY <1>1, <1>4, <2>1, CoversOfLonger DEF StandsForLog
  <2> QED BY <1>1, <1>2, <2>1, <2>2
<1> QED BY <1>2, <1>3, <1>4 DEF PublisherInv, StandsForLog

\* A clone of the cached frontier stands for what the cached one does.
LEMMA BeginKeeps ==
  ASSUME PublisherInv, BeginCatchUp
  PROVE  PublisherInv'
<1>1. /\ cached \in Refs /\ DOMAIN heap = Refs
      /\ heap' = [heap EXCEPT ![CloneOf(cached)] = heap[cached]]
      /\ working' = CloneOf(cached) /\ cached' = cached /\ events' = events /\ served' = served
  BY DEF PublisherInv, BeginCatchUp
<1>2. CloneOf(cached) \in Refs /\ CloneOf(cached) # cached
  BY <1>1, CloneIsApart
<1>3. PICK q \in Refs : q = CloneOf(cached) /\ q # cached
  BY <1>2
<1>4. DOMAIN heap' = Refs /\ heap'[q] = heap[cached] /\ heap'[cached] = heap[cached]
  BY <1>1, <1>3
<1>5. working' = q /\ working' = CloneOf(cached')
  BY <1>1, <1>3
<1> QED BY <1>1, <1>4, <1>5 DEF PublisherInv, StandsForLog

\* The clone takes the next event in; the cached frontier is not touched.
LEMMA AbsorbKeeps ==
  ASSUME PublisherInv, Absorb
  PROVE  PublisherInv'
<1>1. /\ cached \in Refs /\ DOMAIN heap = Refs /\ events \in Seq(EntryHashes)
      /\ working = CloneOf(cached) /\ StandsForLog(working)
      /\ heap' = [heap EXCEPT ![working] = FrontierAppend(@, events[@.size + 1])]
      /\ working' = working /\ cached' = cached /\ events' = events /\ served' = served
  BY DEF PublisherInv, Absorb
<1>2. working \in Refs /\ working # cached /\ heap[working].size < Len(events)
  BY <1>1, CloneIsApart DEF Absorb
<1>3. PICK f : f = heap[working]
  OBVIOUS
<1> DEFINE D == LeafHashes(events)
           H == {LeafHash(y) : y \in EntryHashes}
           g == FrontierAppend(f, events[f.size + 1])
<1>4. Covers(f, D)
  BY <1>1, <1>3 DEF StandsForLog
<1>5. D \in Seq(H) /\ Len(D) = Len(events)
      /\ \A i \in 1 .. Len(events) : D[i] = LeafHash(events[i])
  BY <1>1, LeafHashesType
<1>6. f.size \in 0 .. Len(events)
  BY <1>1, <1>4, FrontierIsRoot
<1> HIDE DEF D, H
<1>7. PICK e : e = events[f.size + 1]
  OBVIOUS
<1>8. f.size < Len(D) /\ D[f.size + 1] = LeafHash(e)
  <2>1. f.size + 1 \in 1 .. Len(events)
    BY <1>1, <1>2, <1>3, <1>6
  <2> QED BY <1>2, <1>3, <1>5, <1>7, <2>1
<1>9. Covers(FrontierAppend(f, e), D)
  BY <1>4, <1>5, <1>8, AppendCovers
<1>10. heap'[working] = g /\ heap'[cached] = heap[cached] /\ DOMAIN heap' = Refs
  <2> HIDE DEF g
  <2>1. heap' = [heap EXCEPT ![working] = g]
    BY <1>1, <1>3 DEF g
  <2> QED BY <1>1, <1>2, <2>1
<1>11. Covers(heap'[working], D)
  BY <1>7, <1>9, <1>10
<1>12. StandsForLog(cached) /\ heap[cached].size = served
  BY DEF PublisherInv
<1> HIDE DEF g
<1> QED BY <1>1, <1>10, <1>11, <1>12 DEF PublisherInv, StandsForLog, D

\* The clone is dropped.
LEMMA FailKeeps ==
  ASSUME PublisherInv, FailCatchUp
  PROVE  PublisherInv'
<1>1. /\ cached \in Refs /\ heap' = Collected(cached) /\ working' = Nil
      /\ cached' = cached /\ events' = events /\ served' = served
  BY DEF PublisherInv, FailCatchUp
<1>2. DOMAIN heap' = Refs /\ heap'[cached] = heap[cached]
  BY <1>1 DEF Collected
<1> QED BY <1>1, <1>2 DEF PublisherInv, StandsForLog

\* The clone, caught up with the log, becomes the cached frontier.
LEMMA PublishKeepsLog ==
  ASSUME PublisherInv, Publish
  PROVE  PublisherInv'
<1>1. /\ cached \in Refs /\ working = CloneOf(cached) /\ StandsForLog(working)
      /\ heap[working].size = Len(events) /\ heap' = Collected(working) /\ working' = Nil
      /\ cached' = working /\ events' = events /\ served' = Len(events)
  BY DEF PublisherInv, Publish
<1>2. working \in Refs
  BY <1>1, CloneIsApart
<1>3. DOMAIN heap' = Refs /\ heap'[working] = heap[working]
  BY <1>1, <1>2 DEF Collected
<1>4. events' \in Seq(EntryHashes)
  BY <1>1 DEF PublisherInv
<1> QED BY <1>1, <1>2, <1>3, <1>4 DEF PublisherInv, StandsForLog

\* The cache is only ever replaced by a frontier of the same log.
LEMMA PublisherInvariant == PublisherSpec => []PublisherInv
<1>1. ASSUME PublisherInv, [PublisherNext]_publisherVars PROVE PublisherInv'
  <2>1. CASE \E e \in EntryHashes : LogEvent(e)
    BY <1>1, <2>1, LogEventKeeps
  <2>2. CASE BeginCatchUp
    BY <1>1, <2>2, BeginKeeps
  <2>3. CASE Absorb
    BY <1>1, <2>3, AbsorbKeeps
  <2>4. CASE FailCatchUp
    BY <1>1, <2>4, FailKeeps
  <2>5. CASE Publish
    BY <1>1, <2>5, PublishKeepsLog
  <2>6. CASE UNCHANGED publisherVars
    BY <1>1, <2>6 DEF publisherVars, PublisherInv, StandsForLog
  <2> QED BY <1>1, <2>1, <2>2, <2>3, <2>4, <2>5, <2>6 DEF PublisherNext
<1> QED BY <1>1, PublisherInitInv, PTL DEF PublisherSpec

\* merkle.go:240-287: an incrementally kept frontier, cached or being caught up, has the root
\* that a rebuild from the first events of the log gives, for logs of any length and whatever
\* catch-ups were abandoned on the way.
THEOREM FrontiersAreMerkleRoots == PublisherSpec => []FrontierIsMerkleRoot
<1>1. PublisherInv => FrontierIsMerkleRoot
  <2> SUFFICES ASSUME PublisherInv, NEW r \in {cached, working} \ {Nil}
               PROVE  FrontierRoot(heap[r]) = Root(heap[r].size)
    BY DEF FrontierIsMerkleRoot
  <2>1. events \in Seq(EntryHashes) /\ Covers(heap[r], LeafHashes(events))
    BY DEF PublisherInv, StandsForLog
  <2>2. PICK f : f = heap[r]
    OBVIOUS
  <2>3. FrontierRoot(f) = MerkleRoot(FirstOf(events, f.size))
    BY <2>1, <2>2, FrontierIsRoot
  <2> QED BY <2>2, <2>3 DEF Root
<1> QED BY <1>1, PublisherInvariant, PTL

\* merkle.go:291-292: the cached frontier is of the tree it was last allowed to stand for,
\* during and after every catch-up.
THEOREM CacheStandsStill == PublisherSpec => []CacheIsNeverHalfAdvanced
<1>1. PublisherInv => CacheIsNeverHalfAdvanced
  BY DEF PublisherInv, CacheIsNeverHalfAdvanced
<1> QED BY <1>1, PublisherInvariant, PTL

-----------------------------------------------------------------------------
(* The proofs served over the log *)

\* All of a list is its first elements.
LEMMA AllAreFirst ==
  ASSUME NEW T, NEW L \in Seq(T)
  PROVE  FirstOf(L, Len(L)) = L
BY DEF FirstOf

\* The tree over the whole log.
LEMMA RootOfLog ==
  ASSUME PublisherInv
  PROVE  /\ events \in Seq(EntryHashes) /\ Size = Len(events) /\ Size \in Nat
         /\ Root(Size) = MerkleRoot(events)
<1>1. events \in Seq(EntryHashes)
  BY DEF PublisherInv
<1> QED BY <1>1, AllAreFirst DEF Size, Root

\* merkle.go:107-155: the audit path generated for any event of a log of any length is
\* accepted by the verifier.
THEOREM AuditPathsVerify == PublisherSpec => []InclusionRoundTrips
<1>1. PublisherInv => InclusionRoundTrips
  <2> SUFFICES ASSUME PublisherInv, NEW i \in 0 .. Size - 1
               PROVE  VerifyInclusion(LeafHash(events[i + 1]), i, Size,
                                      InclusionProof(events, i), Root(Size))
    BY DEF InclusionRoundTrips
  <2>1. /\ events \in Seq(EntryHashes) /\ Size = Len(events)
        /\ Root(Size) = MerkleRoot(events)
    BY RootOfLog
  <2>2. i \in 0 .. Len(events) - 1
    BY <2>1
  <2>3. PICK B : InclusionProof(events, i) \in Seq(B)
    BY <2>1, <2>2, InclusionProofIsList
  <2>4. PICK proof \in Seq(B) : proof = InclusionProof(events, i)
    BY <2>3
  <2>5. VerifyInclusion(LeafHash(events[i + 1]), i, Len(events), proof, MerkleRoot(events))
    BY <2>1, <2>2, <2>4, InclusionProofsDecide
  <2> QED BY <2>1, <2>4, <2>5
<1> QED BY <1>1, PublisherInvariant, PTL

\* What is done to a proof leaves a list.
LEMMA VariantsAreLists ==
  ASSUME NEW B, NEW proof \in Seq(B), NEW q \in ProofVariants(proof)
  PROVE  \E C : q \in Seq(C)
<1> DEFINE C == B \cup {EmptyRoot, Misfit}
<1>1. PICK n \in Nat : n = Len(proof) /\ DOMAIN proof = 1 .. n
  OBVIOUS
<1>2. proof \in Seq(C) /\ \A i \in 1 .. n : proof[i] \in C
  BY <1>1
<1>3. EmptyRoot \in C /\ Misfit \in C
  OBVIOUS
<1> HIDE DEF C
<1>4. CASE q = Reverse(proof)
  <2>1. \A i \in 1 .. n : n - i + 1 \in 1 .. n
    OBVIOUS
  <2>2. q = [i \in 1 .. n |-> proof[n - i + 1]]
    BY <1>1, <1>4 DEF Reverse
  <2>3. q \in [1 .. n -> C]
    BY <1>2, <2>1, <2>2
  <2>4. \A k \in Nat : [1 .. k -> C] \subseteq Seq(C)
    OBVIOUS
  <2>5. n \in Nat
    BY <1>1
  <2> QED BY <2>3, <2>4, <2>5, Zenon
<1>5. CASE q = Append(proof, EmptyRoot) \/ q = Append(proof, Misfit)
  BY <1>2, <1>3, <1>5
<1>6. CASE q \in {RemoveAt(proof, i) : i \in DOMAIN proof}
  <2>1. PICK i \in 1 .. n : q = SubSeq(proof, 1, i - 1) \o SubSeq(proof, i + 1, n)
    BY <1>1, <1>6 DEF RemoveAt
  <2>2. PICK s \in Seq(C) : s = proof /\ Len(s) = n
    BY <1>1, <1>2
  <2>3. SubSeq(s, 1, i - 1) \in Seq(C) /\ SubSeq(s, i + 1, n) \in Seq(C)
    <3>1. i \in Nat /\ i >= 1 /\ i <= n
      BY <1>1
    <3> QED BY <2>2, <3>1
  <2>4. SubSeq(s, 1, i - 1) \o SubSeq(s, i + 1, n) \in Seq(C)
    BY <2>3
  <2> QED BY <2>1, <2>2, <2>4
<1>7. CASE q \in {[proof EXCEPT ![i] = h] : i \in DOMAIN proof, h \in {EmptyRoot, Misfit}}
  <2>1. PICK i \in 1 .. n, h \in {EmptyRoot, Misfit} : q = [proof EXCEPT ![i] = h]
    BY <1>1, <1>7
  <2>2. h \in C
    BY <1>3
  <2>3. PICK s \in Seq(C) : s = proof /\ Len(s) = n
    BY <1>1, <1>2
  <2>4. [s EXCEPT ![i] = h] \in Seq(C)
    BY <2>2, <2>3
  <2> QED BY <2>1, <2>3, <2>4
<1>8. CASE q = proof
  BY <1>8
<1> QED BY <1>4, <1>5, <1>6, <1>7, <1>8 DEF ProofVariants

\* merkle.go:125-155: no path made from a generated one proves an entry hash at a place where
\* it is not, at any size of the log.
THEOREM AuditPathsAreSound == PublisherSpec => []InclusionIsSound
<1>1. PublisherInv => InclusionIsSound
  <2> SUFFICES ASSUME PublisherInv, NEW i \in 0 .. Size - 1, NEW j \in 0 .. Size - 1,
                      NEW proof \in ProofVariants(InclusionProof(events, i)),
                      NEW e \in EntryHashes,
                      VerifyInclusion(LeafHash(e), j, Size, proof, Root(Size))
               PROVE  events[j + 1] = e
    BY DEF InclusionIsSound
  <2>1. /\ events \in Seq(EntryHashes) /\ Size = Len(events)
        /\ Root(Size) = MerkleRoot(events)
    BY RootOfLog
  <2>2. i \in 0 .. Len(events) - 1 /\ j \in 0 .. Len(events) - 1
    BY <2>1
  <2>3. PICK B : InclusionProof(events, i) \in Seq(B)
    BY <2>1, <2>2, InclusionProofIsList
  <2>4. PICK C : proof \in Seq(C)
    BY <2>3, VariantsAreLists
  <2>5. VerifyInclusion(LeafHash(e), j, Len(events), proof, MerkleRoot(events))
    BY <2>1
  <2> QED BY <2>1, <2>2, <2>4, <2>5, InclusionProofsDecide
<1> QED BY <1>1, PublisherInvariant, PTL

\* merkle.go:157-238: the consistency proof generated between any two sizes of a log is
\* accepted by the verifier.
THEOREM ExtensionsVerify == PublisherSpec => []ConsistencyRoundTrips
<1>1. PublisherInv => ConsistencyRoundTrips
  <2> SUFFICES ASSUME PublisherInv, NEW m \in 1 .. Size
               PROVE  VerifyConsistency(Root(m), m, Root(Size), Size,
                                        ConsistencyProof(events, m, Size))
    BY DEF ConsistencyRoundTrips
  <2>1. events \in Seq(EntryHashes) /\ Size = Len(events) /\ Size \in Nat
    BY RootOfLog
  <2>2. PICK n : n = Size /\ n \in 1 .. Len(events) /\ m \in 1 .. n
    BY <2>1
  <2>3. PICK B : ConsistencyProof(events, m, n) \in Seq(B)
    BY <2>1, <2>2, ConsistencyProofIsList
  <2>4. PICK proof \in Seq(B) : proof = ConsistencyProof(events, m, n)
    BY <2>3
  <2>5. ProofsDecide(events, m, n, Root(m), proof)
    BY <2>1, <2>2, <2>4, ConsistencyProofsDecide
  <2>6. VerifyConsistency(Root(m), m, MerkleRoot(FirstOf(events, n)), n, proof)
    BY <2>4, <2>5, Zenon DEF ProofsDecide, Root
  <2> QED BY <2>2, <2>4, <2>6 DEF Root
<1> QED BY <1>1, PublisherInvariant, PTL

\* merkle.go:190-238: a log whose first events were rewritten is never accepted as an older
\* tree, with a proof made from that of either log, at any sizes.
THEOREM RewritesAreRefused == PublisherSpec => []ConsistencyIsSound
<1>1. PublisherInv => ConsistencyIsSound
  <2> SUFFICES ASSUME PublisherInv, NEW m \in 1 .. Size,
                      NEW other \in Rewritten(m) \ {events},
                      NEW proof \in ProofVariants(ConsistencyProof(events, m, Size))
                                      \cup ProofVariants(ConsistencyProof(other, m, Size)),
                      VerifyConsistency(MerkleRoot(FirstOf(other, m)), m, Root(Size), Size,
                                        proof)
               PROVE  FALSE
    BY DEF ConsistencyIsSound
  <2>1. events \in Seq(EntryHashes) /\ Size = Len(events) /\ Size \in Nat
    BY RootOfLog
  <2>2. PICK n \in Nat : n = Size /\ n = Len(events) /\ n \in 1 .. Len(events) /\ m \in 1 .. n
    BY <2>1
  <2>3. PICK i \in 1 .. m, e \in EntryHashes : other = [events EXCEPT ![i] = e]
    BY DEF Rewritten
  <2>4. /\ other \in Seq(EntryHashes) /\ Len(other) = n /\ m \in 1 .. Len(other)
        /\ n \in 1 .. Len(other) /\ \A k \in 1 .. n : k # i => other[k] = events[k]
    BY <2>1, <2>2, <2>3
  <2>5. PICK C : proof \in Seq(C)
    <3>1. \A P : (\E B : P \in Seq(B)) /\ proof \in ProofVariants(P) => \E C : proof \in Seq(C)
      BY VariantsAreLists
    <3>2. \E B : ConsistencyProof(events, m, n) \in Seq(B)
      BY <2>1, <2>2, ConsistencyProofIsList
    <3>3. \E B : ConsistencyProof(other, m, n) \in Seq(B)
      BY <2>2, <2>4, ConsistencyProofIsList
    <3> QED BY <2>2, <3>1, <3>2, <3>3
  <2>6. FirstOf(other, m) = FirstOf(events, m)
    <3>1. VerifyConsistency(MerkleRoot(FirstOf(other, m)), m, MerkleRoot(FirstOf(events, n)), n,
                            proof)
      BY <2>2 DEF Root
    <3>2. m <= Len(other)
      BY <2>4
    <3> QED BY <2>1, <2>2, <2>4, <2>5, <3>1, <3>2, ConsistencyProofsCommit
  <2>7. other[i] = events[i]
    <3>1. FirstOf(other, m)[i] = other[i]
      BY <2>4, FirstNodes
    <3>2. FirstOf(events, m)[i] = events[i]
      <4>1. m \in 1 .. Len(events)
        BY <2>2
      <4> QED BY <2>1, <4>1, FirstNodes
    <3> QED BY <2>6, <3>1, <3>2
  <2>8. other = events
    <3>1. \A k \in 1 .. n : other[k] = events[k]
      BY <2>4, <2>7
    <3> QED BY <2>1, <2>2, <2>4, <3>1
  <2> QED BY <2>8
<1> QED BY <1>1, PublisherInvariant, PTL

\* merkle.go:17-20: no other list of entry hashes has the root of the log.
THEOREM RootsHideNoLog == PublisherSpec => []RootsAreInjective
<1>1. PublisherInv => RootsAreInjective
  <2> SUFFICES ASSUME PublisherInv, NEW other \in BoundedSeq(EntryHashes, MaxLeaves),
                      MerkleRoot(other) = Root(Size)
               PROVE  other = events
    BY DEF RootsAreInjective
  <2>1. events \in Seq(EntryHashes) /\ Root(Size) = MerkleRoot(events)
    BY RootOfLog
  <2>2. other \in Seq(EntryHashes)
    <3>1. PICK m \in 0 .. MaxLeaves : other \in [1 .. m -> EntryHashes]
      BY DEF BoundedSeq, SeqOf
    <3> QED BY <3>1
  <2> QED BY <2>1, <2>2, RootsCommit
<1> QED BY <1>1, PublisherInvariant, PTL

-----------------------------------------------------------------------------
(* Heads are checked in the order of their pools and sizes *)

\* y does not come before x in that order.
NoLater(x, y) == x.pool < y.pool \/ (x.pool = y.pool /\ x.treeSize <= y.treeSize)

\* What is still to check is of a later pool than the last head that passed, or no smaller;
\* and no head that matches was ever refused for its consistency proof.
OrderInv ==
  /\ \A i \in DOMAIN file : ValidHead(file[i])
  /\ \A i \in DOMAIN verified : ValidHead(verified[i])
  /\ verified # <<>> => \A i \in todo : NoLater(Last(verified), file[i])
  /\ verdict # "sth-consistency"

\* A head that matches the export extends every smaller one that does.
LEMMA MatchesExtend ==
  ASSUME HeadsInv, Taken, NEW x, NEW y, HeadMatches(x), HeadMatches(y), ValidHead(x), ValidHead(y),
         x.pool = y.pool, x.treeSize <= y.treeSize
  PROVE  IF x.treeSize = y.treeSize THEN x.root = y.root
         ELSE /\ ConsistencyInRange(leaves[y.pool], x.treeSize, y.treeSize)
              /\ VerifyConsistency(x.root, x.treeSize, y.root, y.treeSize,
                                   ConsistencyProof(leaves[y.pool], x.treeSize, y.treeSize))
<1>1. PICK m \in Nat \ {0}, n \in Nat \ {0} : m = x.treeSize /\ n = y.treeSize /\ m <= n
  BY DEF ValidHead
<1>2. PICK p \in Pools : p = x.pool /\ p = y.pool
  BY DEF HeadMatches
<1>3. log[p] \in Seq(Payloads) /\ leaves[p] = EntryHashesOf(log[p])
  BY <1>2 DEF HeadsInv, LogInv, Taken
<1>4. PICK ls \in Seq(Seq(Payloads)) : ls = leaves[p]
  BY <1>3, EntryHashesType
<1>5. /\ n <= Len(ls) /\ x.root = MerkleRoot(FirstOf(ls, m)) /\ y.root = MerkleRoot(FirstOf(ls, n))
  BY <1>1, <1>2, <1>4 DEF HeadMatches
<1>6. CASE m = n
  BY <1>1, <1>5, <1>6
<1>7. CASE m # n
  <2>1. n \in 1 .. Len(ls) /\ m \in 1 .. n
    BY <1>1, <1>5
  <2>2. ConsistencyInRange(ls, m, n)
    BY <2>1 DEF ConsistencyInRange
  <2>3. PICK B : ConsistencyProof(ls, m, n) \in Seq(B)
    BY <2>1, ConsistencyProofIsList
  <2>4. PICK proof \in Seq(B) : proof = ConsistencyProof(ls, m, n)
    BY <2>3
  <2>5. ProofsDecide(ls, m, n, x.root, proof)
    BY <2>1, <2>4, ConsistencyProofsDecide
  <2>6. VerifyConsistency(x.root, m, MerkleRoot(FirstOf(ls, n)), n, proof)
    BY <1>5, <2>4, <2>5, Zenon DEF ProofsDecide
  <2> QED BY <1>1, <1>2, <1>4, <1>5, <1>7, <2>2, <2>4, <2>6
<1> QED BY <1>6, <1>7

\* So the next head of the file is not refused for its consistency proof.
LEMMA NextHeadExtends ==
  ASSUME HeadsInv, OrderInv, Taken, NEW k \in todo, HeadMatches(file[k])
  PROVE  Extends(file[k])
<1> DEFINE x == Last(verified)
           y == file[k]
<1> SUFFICES ASSUME verified # <<>>, x.pool = y.pool
             PROVE  IF x.treeSize = y.treeSize THEN x.root = y.root
                    ELSE /\ ConsistencyInRange(leaves[y.pool], x.treeSize, y.treeSize)
                         /\ VerifyConsistency(x.root, x.treeSize, y.root, y.treeSize,
                              ConsistencyProof(leaves[y.pool], x.treeSize, y.treeSize))
  BY DEF Extends
<1>1. PICK H : verified \in Seq(H)
  BY DEF HeadsInv, HeadFileInv
<1>2. Len(verified) \in DOMAIN verified /\ x = verified[Len(verified)]
  BY <1>1 DEF Last
<1>3. HeadMatches(x) /\ ValidHead(x)
  BY <1>2 DEF HeadsInv, HeadFileInv, Passed, OrderInv
<1>4. ValidHead(y)
  BY DEF OrderInv, HeadsInv, HeadFileInv
<1>5. NoLater(x, y)
  BY DEF OrderInv
<1> HIDE DEF x, y
<1>6. x.treeSize <= y.treeSize
  <2>1. PICK a \in Int, b \in Int : a = x.pool /\ b = y.pool
    BY <1>3, <1>4 DEF ValidHead
  <2>2. ~ (a < b)
    BY <2>1
  <2> QED BY <1>5, <2>1, <2>2 DEF NoLater
<1>7. HeadMatches(y)
  BY DEF y
<1> QED BY <1>3, <1>4, <1>6, <1>7, MatchesExtend

\* Nothing is ordered before there is a file.
LEMMA InitOrder == Init => OrderInv
<1> SUFFICES ASSUME Init PROVE OrderInv
  OBVIOUS
<1>1. file = <<>> /\ verified = <<>> /\ verdict = "running" /\ DOMAIN <<>> = {}
  BY DEF Init
<1> QED BY <1>1 DEF OrderInv

\* The next head passes, or is refused for another reason.
LEMMA HeadKeepsOrder ==
  ASSUME HeadsInv, OrderInv, VerifyHead
  PROVE  OrderInv'
<1>1. PICK k \in todo :
        /\ IsNext(k)
        /\ IF CheckHead(file[k]) = "ok"
           THEN verified' = Append(verified, file[k]) /\ todo' = todo \ {k} /\ UNCHANGED verdict
           ELSE verdict' = CheckHead(file[k]) /\ UNCHANGED <<todo, verified>>
  BY DEF VerifyHead
<1>2. verdict = "heads" /\ file' = file
  BY DEF VerifyHead, inputVars
<1>3. Taken /\ k \in DOMAIN file
  BY <1>2 DEF HeadsInv, HeadFileInv
<1>4. PICK x : x = file[k]
  OBVIOUS
<1>5. ValidHead(x)
  BY <1>3, <1>4 DEF OrderInv
<1>6. CASE CheckHead(file[k]) = "ok"
  <2>1. verified' = Append(verified, x) /\ todo' = todo \ {k} /\ verdict' = "heads"
    BY <1>1, <1>2, <1>4, <1>6
  <2>2. PICK H : verified \in Seq(H)
    BY DEF HeadsInv, HeadFileInv
  <2>3. \A i \in DOMAIN verified' : ValidHead(verified'[i])
    <3>1. ASSUME NEW i \in DOMAIN verified' PROVE ValidHead(verified'[i])
      <4>1. verified'[i] = x \/ (i \in DOMAIN verified /\ verified'[i] = verified[i])
        BY <2>1, <2>2, OneMore
      <4> QED BY <1>5, <4>1 DEF OrderInv
    <3> QED BY <3>1
  <2>4. Last(verified') = x
    <3>1. PICK n \in Nat : n = Len(verified)
      BY <2>2
    <3>2. Len(Append(verified, x)) = n + 1 /\ Append(verified, x)[n + 1] = x
      BY <2>2, <3>1
    <3> QED BY <2>1, <3>2 DEF Last
  <2>5. ASSUME NEW j \in todo' PROVE NoLater(x, file[j])
    <3>1. j \in todo \ {k} /\ j \in DOMAIN file
      BY <2>1 DEF HeadsInv, HeadFileInv
    <3>2. Before(file, k, j)
      BY <1>1, <3>1 DEF IsNext
    <3>3. ValidHead(file[j])
      BY <3>1 DEF OrderInv
    <3>4. PICK a \in Int, b \in Int : a = x.treeSize /\ b = file[j].treeSize
      BY <1>5, <3>3 DEF ValidHead
    <3>5. x.pool < file[j].pool \/ (x.pool = file[j].pool /\ (a < b \/ a = b))
      BY <1>4, <3>2, <3>4 DEF Before
    <3>6. a < b \/ a = b => a <= b
      OBVIOUS
    <3> QED BY <3>4, <3>5, <3>6 DEF NoLater
  <2> QED BY <1>2, <2>1, <2>3, <2>4, <2>5 DEF OrderInv
<1>7. CASE CheckHead(file[k]) # "ok"
  <2>1. CheckHead(file[k]) # "sth-consistency"
    <3>1. CASE HeadMatches(file[k])
      <4>1. Extends(file[k])
        BY <1>3, <3>1, NextHeadExtends
      <4> QED BY <4>1 DEF CheckHead
    <3>2. CASE ~ HeadMatches(file[k])
      BY <3>2 DEF CheckHead
    <3> QED BY <3>1, <3>2
  <2>2. verdict' # "sth-consistency" /\ UNCHANGED <<todo, verified>>
    BY <1>1, <1>7, <2>1
  <2> QED BY <1>2, <2>2 DEF OrderInv
<1> QED BY <1>6, <1>7

\* The files are read: every head parsed.
LEMMA TakeKeepsOrder ==
  ASSUME HeadsInv, OrderInv, TakeInputs
  PROVE  OrderInv'
<1>1. verdict = "running" /\ verdict' = "heads" /\ verified' = verified
  BY DEF TakeInputs
<1>2. verified = <<>> /\ DOMAIN <<>> = {}
  BY <1>1 DEF HeadsInv, HeadFileInv
<1>3. PICK H : file' \in BoundedSeq({h \in H : Makeable(h) /\ ValidHead(h)}, MaxFile)
  BY DEF TakeInputs
<1>4. file' \in Seq({h \in H : Makeable(h) /\ ValidHead(h)})
  BY <1>3, BoundedSeqType
<1>5. \A i \in DOMAIN file' : ValidHead(file'[i])
  BY <1>4
<1> QED BY <1>1, <1>2, <1>5 DEF OrderInv

\* The other steps leave the heads alone.
LEMMA OthersKeepOrder ==
  ASSUME OrderInv, UNCHANGED <<file, todo, verified>>, verdict' # "sth-consistency"
  PROVE  OrderInv'
BY DEF OrderInv

\* Every step keeps the order.
LEMMA OrderInvariant == Spec => []OrderInv
<1>1. ASSUME HeadsInv, OrderInv, [Next]_vars PROVE OrderInv'
  <2>1. CASE Operate
    BY <1>1, <2>1, OthersKeepOrder DEF Operate, OrderInv
  <2>2. CASE TakeInputs
    BY <1>1, <2>2, TakeKeepsOrder
  <2>3. CASE VerifyHead
    BY <1>1, <2>3, HeadKeepsOrder
  <2>4. CASE RefuseFile \/ EndOfHeads \/ VerifyAnchor \/ EndOfAnchors
    <3>1. UNCHANGED <<file, todo, verified>>
      BY <2>4 DEF RefuseFile, EndOfHeads, VerifyAnchor, EndOfAnchors, inputVars
    <3>2. verdict' # "sth-consistency"
      BY <1>1, <2>4 DEF RefuseFile, EndOfHeads, VerifyAnchor, EndOfAnchors, OrderInv
    <3> QED BY <1>1, <3>1, <3>2, OthersKeepOrder
  <2>5. CASE UNCHANGED vars
    BY <1>1, <2>5, OthersKeepOrder DEF vars, OrderInv
  <2> QED BY <1>1, <2>1, <2>2, <2>3, <2>4, <2>5 DEF Next
<1> QED BY <1>1, InitOrder, HeadsInvariant, PTL DEF Spec

\* cmd/staking-verify/sth.go, checks 1 and 3: once two roots are recomputed from one export,
\* the consistency proof generated from it verifies; no head that matches is refused for it,
\* for logs of any length and files of any number of heads, in any order.
THEOREM MatchingHeadsExtend == Spec => []RootsImplyConsistency
<1>1. OrderInv => RootsImplyConsistency
  BY DEF OrderInv, RootsImplyConsistency
<1> QED BY <1>1, OrderInvariant, PTL

-----------------------------------------------------------------------------
(* Heads of a log that was only appended to *)

\* A head as the operator makes it, signed with the key of its instant if there is one.
FaithfulHead(h) ==
  /\ h.operator = Owner /\ h.keyId = KeyAt(Published, h.ts)
  /\ h.keyId = Absent => h.sig = NoHeadSignature
  /\ h.keyId # Absent => h.sig = SignHead(h.keyId, h)

\* The log only grew since.
GrewOnly(r) ==
  /\ Len(r.over) <= Len(log[r.head.pool])
  /\ FirstOf(log[r.head.pool], Len(r.over)) = r.over

\* Some head of the file is not the export's; some head's signature is no good.
MismatchFound == \E i \in DOMAIN file : ~ HeadMatches(file[i])
BadSignatureFound == \E i \in DOMAIN file : ~ HeadSignatureOk(file[i])

\* What a refused run has found in the file.
HonestInv ==
  /\ \A r \in published : FaithfulHead(r.head)
  /\ rewrites \in Nat
  /\ rewrites = 0 => \A r \in published : GrewOnly(r)
  /\ verdict = "sth" => Taken /\ MismatchFound
  /\ verdict = "sth-signature" => BadSignatureFound

\* Entry hashes of the first entries are the first entry hashes.
LEMMA FirstEntryHashes ==
  ASSUME NEW e \in Seq(Payloads), NEW n \in 1 .. Len(e)
  PROVE  EntryHashesOf(FirstOf(e, n)) = FirstOf(EntryHashesOf(e), n)
<1> DEFINE o == FirstOf(e, n)
           d == EntryHashesOf(e)
<1>1. o \in Seq(Payloads) /\ Len(o) = n
  BY FirstNodes
<1>2. /\ EntryHashesOf(o) \in Seq(Seq(Payloads)) /\ Len(EntryHashesOf(o)) = n
      /\ \A i \in 1 .. n : EntryHashesOf(o)[i] = FirstOf(o, i)
  BY <1>1, EntryHashesType
<1>3. /\ d \in Seq(Seq(Payloads)) /\ Len(d) = Len(e)
      /\ \A i \in 1 .. Len(e) : d[i] = FirstOf(e, i)
  BY EntryHashesType
<1> HIDE DEF d
<1>4. FirstOf(d, n) \in Seq(Seq(Payloads)) /\ Len(FirstOf(d, n)) = n
      /\ \A i \in 1 .. n : FirstOf(d, n)[i] = d[i]
  BY <1>3, FirstNodes
<1>5. ASSUME NEW i \in 1 .. n PROVE EntryHashesOf(o)[i] = FirstOf(d, n)[i]
  <2>1. i \in 1 .. Len(e)
    OBVIOUS
  <2>2. FirstOf(o, i) = FirstOf(e, i)
    BY DEF FirstOf
  <2> QED BY <1>2, <1>3, <1>4, <2>1, <2>2
<1> QED BY <1>2, <1>4, <1>5 DEF d

\* A published head of such a log matches the export.
LEMMA FaithfulMatches ==
  ASSUME HeadsInv, HonestInv, Taken, rewrites = 0, NEW r \in published
  PROVE  HeadMatches(r.head)
<1> DEFINE h == r.head
<1>1. TrueHead(r) /\ FaithfulHead(h) /\ GrewOnly(r)
  BY DEF HeadsInv, PublishedInv, HonestInv
<1>2. PICK p \in Pools, e \in Seq(Payloads), o \in Seq(Payloads) :
        p = h.pool /\ e = log[p] /\ o = r.over /\ o # <<>>
  BY <1>1 DEF TrueHead, HeadsInv, LogInv
<1>3. PICK n \in 1 .. Len(e) : n = Len(o)
  <2>1. Len(o) <= Len(e) /\ Len(o) # 0
    BY <1>1, <1>2 DEF GrewOnly
  <2> QED BY <2>1
<1>4. FirstOf(e, n) = o
  BY <1>1, <1>2, <1>3 DEF GrewOnly
<1>5. h.treeSize = n /\ h.root = MerkleRoot(EntryHashesOf(o)) /\ h.operator = Owner
  BY <1>1, <1>2, <1>3 DEF TrueHead, FaithfulHead
<1>6. leaves[p] = EntryHashesOf(e)
  BY <1>2 DEF Taken
<1>7. Len(leaves[p]) = Len(e) /\ leaves[p] # <<>>
  <2>1. EntryHashesOf(e) \in Seq(Seq(Payloads)) /\ Len(EntryHashesOf(e)) = Len(e)
    BY EntryHashesType
  <2>2. Len(<<>>) = 0 /\ Len(e) # 0
    BY <1>3
  <2> QED BY <1>6, <2>1, <2>2
<1>8. h.root = MerkleRoot(FirstOf(leaves[p], n))
  BY <1>4, <1>5, <1>6, FirstEntryHashes
<1>9. n <= Len(e)
  OBVIOUS
<1> QED BY <1>2, <1>5, <1>7, <1>8, <1>9 DEF HeadMatches

\* Its signature is found good by a reader who has the registry.
LEMMA FaithfulIsSigned ==
  ASSUME NEW h, FaithfulHead(h), opts.hasRegistry, opts.registry = Published,
         opts.allowUnsigned \/ ~ IsUnsignedHead(h)
  PROVE  HeadSignatureOk(h)
<1>1. CASE IsUnsignedHead(h)
  BY <1>1 DEF HeadSignatureOk
<1>2. CASE ~ IsUnsignedHead(h)
  <2>1. h.keyId # Absent /\ h.sig = SignHead(h.keyId, h)
    BY <1>2 DEF FaithfulHead, IsUnsignedHead
  <2>2. h.keyId \in DOMAIN Published /\ InWindow(Published[h.keyId], h.ts)
    BY <2>1 DEF FaithfulHead, KeyAt
  <2>3. Published[h.keyId].pub = h.keyId
    BY <2>2, KeyNamesAssumption
  <2>4. VerifySTH(Published[h.keyId].pub, h)
    <3>1. h.sig.context = "sth" /\ h.sig.key = h.keyId /\ h.sig.over = CanonicalHead(h)
      BY <2>1 DEF SignHead
    <3> QED BY <2>3, <3>1 DEF VerifySTH
  <2> QED BY <1>2, <2>2, <2>4 DEF HeadSignatureOk, Resolves
<1> QED BY <1>1, <1>2

\* No run on honest inputs ends at a head.
LEMMA InvHonest == HeadsInv /\ OrderInv /\ HonestInv => HonestHeadsVerify
<1> SUFFICES ASSUME HeadsInv, OrderInv, HonestInv, HonestInputs
             PROVE  verdict \notin {"sth", "sth-signature", "sth-consistency"}
  BY DEF HonestHeadsVerify
<1>1. ASSUME NEW i \in DOMAIN file
      PROVE  \E r \in published : file[i] = r.head /\ FaithfulHead(r.head)
  BY DEF HonestInputs, PublishedHeads, HonestInv
<1>2. verdict # "sth"
  <2> SUFFICES ASSUME verdict = "sth" PROVE FALSE
    OBVIOUS
  <2>1. Taken /\ rewrites = 0
    BY DEF HonestInv, HonestInputs
  <2>2. PICK i \in DOMAIN file : ~ HeadMatches(file[i])
    BY DEF HonestInv, MismatchFound
  <2>3. PICK r \in published : file[i] = r.head
    BY <1>1
  <2> QED BY <2>1, <2>2, <2>3, FaithfulMatches
<1>3. verdict # "sth-signature"
  <2> SUFFICES ASSUME verdict = "sth-signature" PROVE FALSE
    OBVIOUS
  <2>1. PICK i \in DOMAIN file : ~ HeadSignatureOk(file[i])
    BY DEF HonestInv, BadSignatureFound
  <2>2. PICK h : h = file[i]
    OBVIOUS
  <2>3. FaithfulHead(h) /\ opts.hasRegistry /\ opts.registry = Published
        /\ (opts.allowUnsigned \/ ~ IsUnsignedHead(h))
    BY <1>1, <2>2 DEF HonestInputs
  <2> QED BY <2>1, <2>2, <2>3, FaithfulIsSigned
<1> QED BY <1>2, <1>3 DEF OrderInv

\* Nothing published, nothing refused.
LEMMA InitHonest == Init => HonestInv
BY DEF Init, HonestInv

\* The operator appends to a log.
LEMMA LogEntryKeepsHonest ==
  ASSUME HeadsInv, HonestInv, NEW p \in Pools, NEW e \in Payloads, LogEntry(p, e)
  PROVE  rewrites' = 0 => \A r \in published' : GrewOnly(r)'
<1> SUFFICES ASSUME rewrites' = 0, NEW r \in published' PROVE GrewOnly(r)'
  OBVIOUS
<1>1. r \in published /\ rewrites = 0 /\ log' = [log EXCEPT ![p] = Append(@, e)]
  BY DEF LogEntry
<1>2. GrewOnly(r) /\ TrueHead(r)
  BY <1>1 DEF HonestInv, HeadsInv, PublishedInv
<1>3. PICK q \in Pools, l \in Seq(Payloads), o \in Seq(Payloads) :
        q = r.head.pool /\ l = log[q] /\ o = r.over /\ o # <<>>
  BY <1>2 DEF TrueHead, HeadsInv, LogInv
<1>4. log \in [Pools -> Seq(Payloads)]
  BY DEF HeadsInv, LogInv
<1>5. Len(o) <= Len(l) /\ FirstOf(l, Len(o)) = o
  BY <1>2, <1>3 DEF GrewOnly
<1>6. CASE q = p
  <2>1. log'[q] = Append(l, e)
    BY <1>1, <1>3, <1>4, <1>6
  <2>2. PICK n \in Nat : n = Len(o) /\ n <= Len(l)
    BY <1>5
  <2>3. Append(l, e) \in Seq(Payloads) /\ Len(Append(l, e)) = Len(l) + 1
        /\ \A i \in 1 .. Len(l) : Append(l, e)[i] = l[i]
    OBVIOUS
  <2>4. n <= Len(Append(l, e))
    BY <2>2, <2>3
  <2>5. n \in 1 .. Len(l) /\ n \in 1 .. Len(Append(l, e))
    <3>1. n # 0
      BY <1>3, <2>2
    <3> QED BY <2>2, <2>3, <3>1
  <2>6. FirstOf(Append(l, e), n) = FirstOf(l, n)
    <3>1. PICK k \in Seq(Payloads) : k = Append(l, e)
      BY <2>3
    <3>2. FirstOf(k, n) \in Seq(Payloads) /\ Len(FirstOf(k, n)) = n
          /\ \A i \in 1 .. n : FirstOf(k, n)[i] = k[i]
      BY <2>5, <3>1, FirstNodes
    <3>3. FirstOf(l, n) \in Seq(Payloads) /\ Len(FirstOf(l, n)) = n
          /\ \A i \in 1 .. n : FirstOf(l, n)[i] = l[i]
      BY <2>5, FirstNodes
    <3>4. \A i \in 1 .. n : FirstOf(k, n)[i] = FirstOf(l, n)[i]
      BY <2>3, <2>5, <3>1, <3>2, <3>3
    <3>5. FirstOf(k, n) = FirstOf(l, n)
      BY <3>2, <3>3, <3>4
    <3> QED BY <3>1, <3>5
  <2> QED BY <1>3, <1>5, <2>1, <2>2, <2>4, <2>6 DEF GrewOnly
<1>7. CASE q # p
  <2>1. log'[q] = l
    BY <1>1, <1>3, <1>4, <1>7
  <2> QED BY <1>3, <1>5, <2>1 DEF GrewOnly
<1> QED BY <1>6, <1>7

\* The operator publishes a head.
LEMMA PublishKeepsHonest ==
  ASSUME HeadsInv, HonestInv, NEW p \in Pools, NEW ts, PublishHead(p, ts)
  PROVE  /\ \A r \in published' : FaithfulHead(r.head)
         /\ rewrites' = 0 => \A r \in published' : GrewOnly(r)'
<1> DEFINE e == log[p]
           bare == [operator |-> Owner, pool |-> p, treeSize |-> Len(e),
                    root |-> MerkleRoot(EntryHashesOf(e)), ts |-> ts,
                    keyId |-> KeyAt(Published, ts), sig |-> NoHeadSignature]
           signed == [bare EXCEPT !.sig = SignHead(bare.keyId, bare)]
           head == IF bare.keyId = Absent THEN bare ELSE signed
           rec == [head |-> head, over |-> e]
<1>1. published' = published \cup {rec} /\ log' = log /\ rewrites' = rewrites
  BY DEF PublishHead
<1>2. e \in Seq(Payloads)
  BY DEF HeadsInv, LogInv
<1>3. FaithfulHead(head)
  <2>1. /\ head.operator = Owner /\ head.keyId = KeyAt(Published, ts) /\ head.ts = ts
        /\ head.keyId = bare.keyId
        /\ CanonicalHead(head) = CanonicalHead(bare)
    BY DEF CanonicalHead
  <2>2. bare.keyId = Absent => head.sig = NoHeadSignature
    OBVIOUS
  <2>3. bare.keyId # Absent => head.sig = SignHead(bare.keyId, bare)
    OBVIOUS
  <2> HIDE DEF head, bare, signed
  <2>4. SignHead(bare.keyId, bare) = SignHead(head.keyId, head)
    BY <2>1 DEF SignHead
  <2> QED BY <2>1, <2>2, <2>3, <2>4 DEF FaithfulHead
<1>4. head.pool = p
  OBVIOUS
<1> HIDE DEF head, bare, signed
<1>5. rec.head = head /\ rec.over = e
  OBVIOUS
<1> HIDE DEF rec
<1>6. ASSUME NEW r \in published', r = rec PROVE GrewOnly(r)'
  <2>1. PICK o \in Seq(Payloads) : o = e
    BY <1>2
  <2>2. log'[r.head.pool] = o /\ r.over = o
    BY <1>1, <1>4, <1>5, <1>6, <2>1
  <2>3. FirstOf(o, Len(o)) = o /\ Len(o) <= Len(o)
    BY AllAreFirst
  <2> QED BY <2>2, <2>3 DEF GrewOnly
<1>7. ASSUME NEW r \in published, rewrites = 0 PROVE GrewOnly(r)'
  BY <1>1, <1>7 DEF HonestInv, GrewOnly
<1> QED BY <1>1, <1>3, <1>5, <1>6, <1>7 DEF HonestInv

\* A step of the operator.
LEMMA OperateKeepsHonest ==
  ASSUME HeadsInv, HonestInv, Operate
  PROVE  HonestInv'
<1>1. UNCHANGED <<opts, leaves, file, todo, verified, anchors, reported, verdict>>
  BY DEF Operate
<1>2. PICK p \in Pools :
        \/ \E e \in Payloads : LogEntry(p, e)
        \/ \E ts \in Times : PublishHead(p, ts)
        \/ Rewrite(p)
  BY DEF Operate
<1>3. ASSUME NEW e \in Payloads, LogEntry(p, e)
      PROVE  /\ verdict = "running" /\ rewrites' \in Nat
             /\ \A r \in published' : FaithfulHead(r.head)
             /\ rewrites' = 0 => \A r \in published' : GrewOnly(r)'
  <2>1. rewrites' = 0 => \A r \in published' : GrewOnly(r)'
    BY <1>3, LogEntryKeepsHonest
  <2> QED BY <1>3, <2>1 DEF LogEntry, HonestInv
<1>4. ASSUME NEW ts \in Times, PublishHead(p, ts)
      PROVE  /\ verdict = "running" /\ rewrites' \in Nat
             /\ \A r \in published' : FaithfulHead(r.head)
             /\ rewrites' = 0 => \A r \in published' : GrewOnly(r)'
  <2>1. /\ \A r \in published' : FaithfulHead(r.head)
        /\ rewrites' = 0 => \A r \in published' : GrewOnly(r)'
    BY <1>4, PublishKeepsHonest
  <2>2. verdict = "running" /\ rewrites' = rewrites
    BY <1>4 DEF PublishHead
  <2> QED BY <2>1, <2>2 DEF HonestInv
<1>5. ASSUME Rewrite(p)
      PROVE  /\ verdict = "running" /\ rewrites' \in Nat
             /\ \A r \in published' : FaithfulHead(r.head)
             /\ rewrites' = 0 => \A r \in published' : GrewOnly(r)'
  <2>1. verdict = "running" /\ rewrites' = rewrites + 1 /\ published' = published
    BY <1>5 DEF Rewrite
  <2>2. rewrites' \in Nat /\ rewrites' # 0
    BY <2>1 DEF HonestInv
  <2> QED BY <2>1, <2>2 DEF HonestInv
<1>6. /\ verdict' = "running" /\ rewrites' \in Nat
      /\ \A r \in published' : FaithfulHead(r.head)
      /\ rewrites' = 0 => \A r \in published' : GrewOnly(r)'
  BY <1>1, <1>2, <1>3, <1>4, <1>5
<1> QED BY <1>6 DEF HonestInv, FaithfulHead

\* The steps after the operator's.
LEMMA VerifierKeepsHonest ==
  ASSUME HonestInv, UNCHANGED operatorVars,
         verdict' = "sth" => Taken' /\ MismatchFound',
         verdict' = "sth-signature" => BadSignatureFound'
  PROVE  HonestInv'
<1>1. log' = log /\ published' = published /\ rewrites' = rewrites
  BY DEF operatorVars
<1>2. \A r \in published' : FaithfulHead(r.head)'
  BY <1>1 DEF HonestInv, FaithfulHead
<1>3. ASSUME rewrites' = 0, NEW r \in published' PROVE GrewOnly(r)'
  BY <1>1, <1>3 DEF HonestInv, GrewOnly
<1> QED BY <1>1, <1>2, <1>3 DEF HonestInv

\* A head is refused for what it is.
LEMMA HeadKeepsHonest ==
  ASSUME HeadsInv, HonestInv, VerifyHead
  PROVE  HonestInv'
<1>1. PICK k \in todo :
        IF CheckHead(file[k]) = "ok" THEN UNCHANGED verdict ELSE verdict' = CheckHead(file[k])
  BY DEF VerifyHead
<1>2. verdict = "heads" /\ UNCHANGED operatorVars /\ UNCHANGED inputVars
  BY DEF VerifyHead
<1>3. Taken /\ k \in DOMAIN file /\ file' = file
  BY <1>2 DEF HeadsInv, HeadFileInv, inputVars
<1>4. Taken' /\ \A h : (HeadMatches(h)' <=> HeadMatches(h))
  BY <1>2, <1>3, SameInputs
<1>5. \A h : (HeadSignatureOk(h)' <=> HeadSignatureOk(h))
  BY <1>2 DEF inputVars, HeadSignatureOk
<1>6. verdict' = "sth" => ~ HeadMatches(file[k])
  BY <1>1, <1>2 DEF CheckHead
<1>7. verdict' = "sth-signature" => ~ HeadSignatureOk(file[k])
  BY <1>1, <1>2 DEF CheckHead
<1>8. verdict' = "sth" => MismatchFound'
  BY <1>3, <1>4, <1>6 DEF MismatchFound
<1>9. verdict' = "sth-signature" => BadSignatureFound'
  BY <1>3, <1>5, <1>7 DEF BadSignatureFound
<1> QED BY <1>2, <1>4, <1>8, <1>9, VerifierKeepsHonest

\* Every step keeps it.
LEMMA HonestInvariant == Spec => []HonestInv
<1>1. ASSUME HeadsInv, HonestInv, [Next]_vars PROVE HonestInv'
  <2>1. CASE Operate
    BY <1>1, <2>1, OperateKeepsHonest
  <2>2. CASE TakeInputs
    <3>1. UNCHANGED operatorVars /\ verdict' = "heads"
      BY <2>2 DEF TakeInputs
    <3> QED BY <1>1, <3>1, VerifierKeepsHonest
  <2>3. CASE VerifyHead
    BY <1>1, <2>3, HeadKeepsHonest
  <2>4. CASE RefuseFile \/ EndOfHeads \/ VerifyAnchor \/ EndOfAnchors
    <3>1. UNCHANGED operatorVars /\ verdict' \notin {"sth", "sth-signature"}
      BY <2>4 DEF RefuseFile, EndOfHeads, VerifyAnchor, EndOfAnchors
    <3> QED BY <1>1, <3>1, VerifierKeepsHonest
  <2>5. CASE UNCHANGED vars
    BY <1>1, <2>5 DEF vars, HonestInv, FaithfulHead, GrewOnly, Taken, MismatchFound,
                            BadSignatureFound, HeadMatches, HeadSignatureOk
  <2> QED BY <1>1, <2>1, <2>2, <2>3, <2>4, <2>5 DEF Next
<1> QED BY <1>1, InitHonest, HeadsInvariant, PTL DEF Spec

\* cmd/staking-verify/sth.go: no false alarm.  Heads of logs that were only ever appended to
\* verify, in any number, order and repetition, across key rotation, for a reader who has the
\* published registry.
THEOREM HonestHeadsAreAccepted == Spec => []HonestHeadsVerify
BY HeadsInvariant, OrderInvariant, HonestInvariant, InvHonest, PTL
=============================================================================
