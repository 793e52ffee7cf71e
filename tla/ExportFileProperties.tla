------------------------ MODULE ExportFileProperties ------------------------
(***************************************************************************)
(* What a reader of a verified export may rely on, stated against the log   *)
(* the operator really wrote.                                               *)
(***************************************************************************)
EXTENDS ExportFile

\* verify.go checks 1 and 2 together: once a signed record has been accepted, that record
\* and everything accepted before it in its pool is the operator's own log, entry for
\* entry, with nothing lost, repeated, moved or altered.  (Equality is of canonical forms.)
SignedEntryVouchesForPrefix ==
  \A p \in Pools : \A i \in 1 .. Len(accepted[p]) :
    ~IsUnsigned(accepted[p][i]) =>
      /\ i <= Len(log[p])
      /\ \A j \in 1 .. i : Canonical(accepted[p][j].entry) = log[p][j].entry

\* The command line an honest reader of this operator's export uses.
HonestOptions ==
  /\ opts.hasRegistry /\ opts.registry = Published
  /\ opts.activeKeyID # Absent => Published[opts.activeKeyID].validTo = Absent
  /\ \/ opts.allowUnsigned
     \/ \A p \in Pools : \A i \in 1 .. Len(log[p]) : ~IsUnsigned(log[p][i])

\* No false alarm: an unaltered export, read with the published registry, is never refused,
\* across key rotation and across the operator's unsigned history.
HonestExportVerifies == clean /\ HonestOptions => verdict \in {"reading", "ok"}

\* When a pool's whole log has been read and its last entry was signed, the replayed
\* balances are the operator's own, but for the digits the canonical form drops: the mirror
\* may change those, and no more than that of any entry.
ReplayMatchesBooks ==
  \A p \in Pools :
    LET n == Len(accepted[p])
    IN  n > 0 /\ n = Len(log[p]) /\ ~IsUnsigned(accepted[p][n]) =>
          \A a \in Accounts :
            Abs(pools[p].accounts[a] - books[p][a]) <= (SubScale - 1) * n

\* A genuine export, read to wherever the file was cut off by a reader with honest
\* options, ends in success.
HonestRunSucceeds == [](clean /\ HonestOptions) => <>(verdict = "ok")
=============================================================================
