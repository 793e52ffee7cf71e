------------------------------ MODULE Translog ------------------------------
(***************************************************************************)
(* Data and pure functions of package translog that the export verifier    *)
(* builds on: amounts, entries and their canonical form, the hash chain,   *)
(* signatures and the published key registry (canonical.go, chain.go,      *)
(* export.go, keys.go, money.go).                                          *)
(*                                                                         *)
(* Hashes and signatures are symbolic and collision free: a chain hash is  *)
(* the sequence of canonical entries it commits to, a signature is the     *)
(* pair of the key and the hash it was made over.  Amounts are integers    *)
(* counted in 1/SubScale of a canonical unit (10^-18), so a value with     *)
(* more digits than the canonical form keeps can be written down.          *)
(***************************************************************************)
EXTENDS Integers, Sequences

CONSTANTS
  Absent,     \* an omitted field ("" or nil in the code)
  Malformed,  \* a payload string that does not parse as an amount
  SubScale,   \* representable steps in one canonical unit
  PriceScale  \* price steps in one unit (10^36 in the code)

ASSUME ScaleAssumption == SubScale \in Nat \ {0} /\ PriceScale \in Nat \ {0}
ASSUME SentinelAssumption == Absent \notin Int /\ Malformed \notin Int /\ Absent # Malformed

-----------------------------------------------------------------------------
(* Amounts *)

Abs(x) == IF x < 0 THEN -x ELSE x

\* The quotient of x by d > 0, rounded half away from zero.
RoundQuo(x, d) ==
  IF x < 0 THEN -((2 * Abs(x) + d) \div (2 * d)) ELSE (2 * x + d) \div (2 * d)

\* StringFixed(18): the closest canonical value, rounding half away from zero.
CanonicalAmount(a) == IF a = Absent THEN Absent ELSE SubScale * RoundQuo(a, SubScale)

\* Decimal.DivRound at the price scale, for d > 0.
DivRound(x, d) == RoundQuo(x * PriceScale, d)

\* Mutant: rounded to the nearest share, where the code floors.
RoundRatioShares(x, d) == SubScale * RoundQuo(x, d * SubScale)

\* QuoRem at the share scale, for x, d >= 0: the result is a whole number of canonical
\* units, and both operands are exact.
FloorRatioShares(x, d) == SubScale * ((x \div d) \div SubScale)

-----------------------------------------------------------------------------
(* Entries.  The idempotency key is left out: nothing in the code compares it. *)

SchemaVersions == {1, 2}

PayloadKeys == {"shares_close", "shares_open", "assets_open", "assets_close", "ggr",
                "cap_net", "fee", "fee_shares", "price"}

NoPayload == [k \in PayloadKeys |-> Absent]

\* Entry.Validate: what CanonicalJSON refuses to serialise.
Valid(e) ==
  /\ e.schema \in SchemaVersions
  /\ Absent \notin {e.operator, e.pool, e.type, e.ts}

\* CanonicalJSON: two entries with the same value here have the same canonical bytes.
Canonical(e) ==
  [e EXCEPT !.amount = CanonicalAmount(e.amount), !.shares = CanonicalAmount(e.shares)]

-----------------------------------------------------------------------------
(* The hash chain *)

Genesis == <<>>

NextHash(prevHash, canonical) == Append(prevHash, canonical)

\* Mutant: the canonical form forgets the pool.
ChainEntryPoolless(prevHash, e) == NextHash(prevHash, [Canonical(e) EXCEPT !.pool = Absent])

ChainEntry(prevHash, e) == NextHash(prevHash, Canonical(e))

-----------------------------------------------------------------------------
(* Signatures and the key registry.  A registry is a function from key ids to *)
(* [pub, validFrom, validTo], with validTo = Absent while the key is current. *)

NoSignature == [key |-> Absent, over |-> Genesis]

SignEntryHash(key, hash) == [key |-> key, over |-> hash]

VerifyEntryHash(pub, hash, sig) == sig.key = pub /\ sig.over = hash

InWindow(k, at) ==
  /\ at >= k.validFrom
  /\ k.validTo # Absent => at < k.validTo

\* KeyRegistry.Resolve: does keyID resolve at that instant?
Resolves(registry, keyID, at) ==
  keyID \in DOMAIN registry /\ InWindow(registry[keyID], at)

\* The key the operator signs with at that instant; Absent before signing was enabled.
KeyAt(registry, at) ==
  IF \E k \in DOMAIN registry : InWindow(registry[k], at)
  THEN CHOOSE k \in DOMAIN registry : InWindow(registry[k], at)
  ELSE Absent

\* MarshalLine: what the export carries of a stored record.
MarshalLine(rec) == [rec EXCEPT !.entry = Canonical(@)]
=============================================================================
