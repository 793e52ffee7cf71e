---------------------------- MODULE MCAttestation ---------------------------
(* Small instance of Attestation. *)
EXTENDS Attestation

MCCurrencyOf == [p \in Pools |-> IF p = "p1" THEN 1 ELSE 2]

\* The wallet's key rotates at time 2; k1 is the operator's receipt key.
MCKey(k, purpose, from, to) ==
  k :> [pub |-> k, purpose |-> purpose, validFrom |-> from, validTo |-> to]

MCWalletKeys ==
  MCKey("w1", "wallet-attest", 1, 2) @@ MCKey("w2", "wallet-attest", 2, Absent)
    @@ MCKey("k1", "", 1, Absent)

\* A registry from before keys had a purpose pins nothing.
MCOptions ==
  {[registry |-> r, walletKey |-> k] : r \in {<<>>, MCWalletKeys}, k \in {Absent, "w1"}}

\* A record with one field altered, the balance below the canonical scale as well as above it,
\* and one signed with a key that is not the wallet's.
MCRecordEdits(r) ==
  {[r EXCEPT !.balance = b] : b \in {r.balance - 1, r.balance + SubScale, -1}}
    \cup {[r EXCEPT !.asOf = 3 - @], [r EXCEPT !.currency = 3 - @], [r EXCEPT !.pub = "k1"]}
    \cup {[r EXCEPT !.challenge = c] : c \in Roots}
    \cup {SignStatement(k, [r EXCEPT !.balance = 6, !.kind = "wallet_attested"]) :
            k \in {"k1", "x"}}

\* The document with one record altered and the total made to fit, with a record of another
\* pool, without its records, or with another total.
MCDocEdits(d) ==
  LET fitted(rs) == [d EXCEPT !.attestations = rs, !.coverage = "attested", !.total = Total(rs)]
      n == Len(d.attestations)
  IN  {fitted([d.attestations EXCEPT ![i] = r]) :
         i \in 1 .. n, r \in UNION {MCRecordEdits(d.attestations[j]) : j \in 1 .. n}}
        \cup {fitted(<<NewWireRecord(records[i])>>) : i \in DOMAIN records}
        \cup {[d EXCEPT !.attestations = <<>>], [d EXCEPT !.total = 9]}
=============================================================================
