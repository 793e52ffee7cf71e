---------------------------- MODULE TreePublisher ---------------------------
(***************************************************************************)
(* The use merkle.go documents for Frontier: a publisher keeps one Frontier *)
(* per pool, catches a clone of it up with the events appended since, and   *)
(* keeps the clone only when the catch-up succeeds.  The publisher itself   *)
(* is not in this repository; Frontier's operations are.                    *)
(*                                                                         *)
(* Frontiers are heap objects, so that a copy which shares memory with its  *)
(* original can be told from one that does not.                             *)
(***************************************************************************)
EXTENDS Merkle

CONSTANTS
  EntryHashes,  \* the leaf values used
  MaxLeaves     \* bound: events of the log

VARIABLES
  events,   \* the pool's log: its entry hashes
  heap,     \* the Frontier objects
  cached,   \* reference of the cached frontier
  working,  \* reference of the clone being caught up, or Nil
  served    \* size of the tree the cache was last allowed to stand for

publisherVars == <<events, heap, cached, working, served>>

Refs == {1, 2}

Nil == 0

LogEvent(e) ==
  /\ Len(events) < MaxLeaves
  /\ events' = Append(events, e)
  /\ UNCHANGED <<heap, cached, working, served>>

\* Mutant: the clone shares its slices with the original.
CloneShared(r) == r

\* Frontier.Clone: a deep copy in an object of its own.
CloneOf(r) == CHOOSE q \in Refs : q # r

BeginCatchUp ==
  /\ working = Nil
  /\ working' = CloneOf(cached)
  /\ heap' = [heap EXCEPT ![CloneOf(cached)] = heap[cached]]
  /\ UNCHANGED <<events, cached, served>>

Absorb ==
  /\ working # Nil
  /\ heap[working].size < Len(events)
  /\ heap' = [heap EXCEPT ![working] = FrontierAppend(@, events[@.size + 1])]
  /\ UNCHANGED <<events, cached, working, served>>

\* Only the object at r is still referenced.
Collected(r) == [q \in Refs |-> IF q = r THEN heap[q] ELSE NewFrontier]

FailCatchUp ==
  /\ working # Nil
  /\ working' = Nil
  /\ heap' = Collected(cached)
  /\ UNCHANGED <<events, cached, served>>

\* The head over the whole log is published and the clone becomes the cache.
Publish ==
  /\ working # Nil
  /\ heap[working].size = Len(events)
  /\ cached' = working
  /\ served' = Len(events)
  /\ working' = Nil
  /\ heap' = Collected(working)
  /\ UNCHANGED events

PublisherInit ==
  /\ events = <<>>
  /\ heap = [r \in Refs |-> NewFrontier]
  /\ cached = 1
  /\ working = Nil
  /\ served = 0

PublisherNext ==
  \/ \E e \in EntryHashes : LogEvent(e)
  \/ BeginCatchUp
  \/ Absorb
  \/ FailCatchUp
  \/ Publish

PublisherSpec == PublisherInit /\ [][PublisherNext]_publisherVars

-----------------------------------------------------------------------------
(* Properties *)

Size == Len(events)

Root(n) == MerkleRoot(FirstOf(events, n))

\* A frontier in use commits to exactly the first events of the log, and its root is the
\* one a full rebuild gives, whatever was merged or abandoned on the way (merkle.go:240-244).
FrontierIsMerkleRoot ==
  \A r \in {cached, working} \ {Nil} : FrontierRoot(heap[r]) = Root(heap[r].size)

\* A failed or unfinished catch-up leaves the cache where it was (merkle.go:291-292).
CacheIsNeverHalfAdvanced == heap[cached].size = served

-----------------------------------------------------------------------------
(* Properties of the proofs served over a published tree *)

\* The head over the whole log is out and nothing is under way.
UpToDate == working = Nil /\ served = Size

\* The audit path of every event verifies, at every size of the tree.
InclusionRoundTrips ==
  UpToDate => \A i \in 0 .. Size - 1 :
    VerifyInclusion(LeafHash(events[i + 1]), i, Size, InclusionProof(events, i), Root(Size))

\* Proofs for other places, cut short, drawn out, reordered, or with a foreign element.
ProofVariants(proof) ==
  {proof, Reverse(proof), Append(proof, EmptyRoot), Append(proof, Misfit)}
    \cup {RemoveAt(proof, i) : i \in DOMAIN proof}
    \cup {[proof EXCEPT ![i] = h] : i \in DOMAIN proof, h \in {EmptyRoot, Misfit}}

\* No path, whatever was done to it, proves an entry hash at a place where it is not.
InclusionIsSound ==
  UpToDate =>
    \A i, j \in 0 .. Size - 1 : \A proof \in ProofVariants(InclusionProof(events, i)) :
      \A e \in EntryHashes :
        VerifyInclusion(LeafHash(e), j, Size, proof, Root(Size)) => events[j + 1] = e

\* Each tree is a verified append-only extension of each of its prefixes.
ConsistencyRoundTrips ==
  UpToDate => \A m \in 1 .. Size :
    VerifyConsistency(Root(m), m, Root(Size), Size, ConsistencyProof(events, m, Size))

Rewritten(m) == {[events EXCEPT ![i] = e] : i \in 1 .. m, e \in EntryHashes}

\* A tree whose first m events were rewritten is never accepted as an extension, with the
\* proof of either tree or one made from it.
ConsistencyIsSound ==
  UpToDate => \A m \in 1 .. Size : \A other \in Rewritten(m) \ {events} :
    \A proof \in ProofVariants(ConsistencyProof(events, m, Size))
                   \cup ProofVariants(ConsistencyProof(other, m, Size)) :
      ~VerifyConsistency(MerkleRoot(FirstOf(other, m)), m, Root(Size), Size, proof)

\* Two logs have the same root only when they are the same log: no list of entry hashes
\* hides behind another (merkle.go:17-20).
RootsAreInjective ==
  UpToDate => \A other \in BoundedSeq(EntryHashes, MaxLeaves) :
    MerkleRoot(other) = Root(Size) => other = events
=============================================================================
