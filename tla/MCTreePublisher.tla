--------------------------- MODULE MCTreePublisher --------------------------
(* Small instance of TreePublisher. *)
EXTENDS TreePublisher

\* Two entry hashes, one of which reads like an interior node over the other: only the
\* domain prefixes keep a leaf of the second from the node it reads like.
MCEntry == [kind |-> "entry"]

MCEntryHashes == {MCEntry, [kind |-> "node", left |-> MCEntry, right |-> MCEntry]}
=============================================================================
