# A formal model of staking-verify

`staking-verify` checks the published transparency log of a staking product without
trusting the operator: it replays a hash-chained, signed export of pool events, compares it
with recorded Merkle tree heads and their anchors, and checks attestations of the assets
behind it. A bug in it either lets a falsified log pass or raises a false alarm about an
honest one, and both kinds show only on files nobody thought of writing a test for. This
directory models the verifier and the libraries under it in TLA+, checks small instances
with TLC, and proves the central facts with TLAPS.

## 1. The system

| Component | Source | State | Operations |
|---|---|---|---|
| Canonical form, chain, export line | `pkg/translog/{canonical,chain,export}.go` | none | canonicalise, chain, marshal, parse |
| Keys and receipts | `pkg/translog/keys.go` | key registry with validity windows and purposes | sign, verify, resolve at an instant |
| Export verifier | `cmd/staking-verify/verify.go` | one `PoolState` per pool, counters, options | one line: chain, signature, replay; end of export |
| Merkle tree | `pkg/translog/merkle.go` | `Frontier` objects | roots, inclusion and consistency proofs, append, clone |
| Tree heads | `pkg/translog/sth.go`, `cmd/staking-verify/sth.go` | heads by pool, previous head | sign, parse, verify in sorted order |
| Anchor check | `cmd/staking-verify/sth.go` | heads by pool and size | compare digests |
| Attestors | `pkg/attest/{wallet,auditor,wire,attest}.go` | the request under way | ask the wallet, check its reply, record |
| Attestation check | `cmd/staking-verify/attest.go` | pool roots, running total | record by record: challenge, signature, pin, total |
| OpenTimestamps anchorer | `pkg/attest/ots.go` | the receipt, the loop over calendars | anchor, upgrade, verify |
| Proof of liabilities | `pkg/translog/sumtree*.go`, `cmd/staking-verify/pol.go` | the leaf list, the levels of a `LiabilityTree`, the running own balance | split and shuffle, build, prove, verify leaf by leaf |
| Command line | `cmd/staking-verify/main.go` | options, what a stage hands on, what is printed | the stages in their order, in two modes |
| Registries, on-chain stub | `pkg/attest/{attest,anchor,onchain}.go` | maps behind a mutex | register, look up; refuse |

How they interact. The producer (not in this repository) appends events, signs them,
publishes heads over its Merkle tree and anchors and attests against those heads. Everything
reaches the verifier as files, possibly through mirrors. Inside the verifier the stages call
each other in one order: the export stage leaves the leaves of each pool to the head stage;
the head stage leaves the verified heads to the anchor stage and to the attestation stage,
which compares challenges with their roots. The `-pol` stage hands nothing on. Without an
export, `-pol` and `-attest` run alone, and the heads of `-sth` are parsed only.

What is hard, and what makes each part correct:

* **Export verifier.** Lines lost, repeated, moved, altered and re-hashed; unsigned history
  and key rotation; several pools interleaved. Correct when what follows a valid signature is
  the operator's log, entry for entry; when balances are what the log issued and redeemed;
  when epoch figures reconcile over any number of epochs; and when no genuine log is refused.
* **Merkle tree.** Odd nodes, powers of two, carries. Correct when proofs exist for every
  place and size, prove nothing else, and the frontier equals the full tree, a failed
  catch-up included.
* **Heads and anchors.** An operator that rewrites its log after publishing; heads in any
  order and number. Correct when whoever recorded a head finds the rewrite, and no honest
  file is refused.
* **Attestations.** Replies that are late or belong to another request, key rotation, foreign
  keys, borrowed records. Correct when a pinned figure is one the wallet signed, but for what
  rounding drops, and fresh for this pool.
* **Calendars.** Lost answers, forgetful calendars, lost leaders. Correct when confirmation is
  never claimed without a calendar's word, never lost again, and reached if one calendar works.
* **Proof of liabilities.** Odd levels, rounded parts, sums that an operator declares to each
  holder separately. Correct when a split keeps the balance, an honest document verifies for
  every shape of the tree, only leaves of the tree verify, and no two holders' balances can
  hide behind each other in the total.
* **Command line.** Stages that end the process after others have printed, options that a mode
  ignores. Correct when what was printed stands and exit code 0 was earned.

`PROJECT.json` lists each hazard at its line with the properties that watch it.

## 2. The modules

Models (a module extends the ones to its left or above it):

    Translog ── Replay ── VerifyStream ─┬─ VerifyStreamProperties (with ShareLedger) ── MCVerifyStream
       │                                ├─ ExportFile ── ExportFileProperties ── MCExportFile
       │                                └─ EpochSettlement ── MCEpochSettlement
       ├── Merkle ─┬─ TreePublisher ── MCTreePublisher
       │           └─ TreeHeads ── MCTreeHeads        (TreeHeads also extends Translog)
       ├── SumTree ── ProofOfLiabilities ── MCProofOfLiabilities
       └── Attestation ── MCAttestation
    OTSAnchor ── MCOTSAnchor
    StakingVerify ── MCStakingVerify

`RunningSums` stands beside `Translog`: `Replay` and `SumTree` extend both.

Proofs:

    IntervalLemmas ─┬─ VerifyStream_proofs    (VerifyStream, ExportFile, EpochSettlement)
                    ├─ Merkle_proofs ── TreeHeads_proofs    (TreeHeads and TreePublisher)
                    ├─ ProofOfLiabilities_proofs
                    ├─ Attestation_proofs
                    └─ OTSAnchor_proofs
    StakingVerify_proofs

* **Translog** – the data of package `translog`. Hashes and signatures are terms without
  collisions: a chain hash is the sequence of canonical entries it commits to, a signature the
  pair of key and message, and a context keeps kinds of messages apart. Amounts are integers;
  `SubScale` representable steps make one canonical unit, so that the rounding of
  `StringFixed(18)` does something (`SubScale = 3` in run `rotation`).
* **Replay** – `replayEvent`: `CanReplay` holds the guards, `Replayed` the state left. The
  schema 2 checks have one operator each. Accounts are `1 .. NumAccounts`; an account the
  code's map lacks counts as zero, as `accountShares` reads it.
* **RunningSums** – the sums that the code's loops build value by value: of the account balances
  in `checkAccountSum`, of the weights and the parts in `randPartition`.
* **VerifyStream** – the run. `opts` is `Options`, `pools` is `Summary.Pools`, `events` and
  `unsigned` are its counters, `verdict` the `VerifyError` that ended the run. `AcceptRecord`
  and `RefuseRecord` are `verifyRecord`, `RefuseLine` a line that does not parse, `EndOfExport`
  the final sum check. `accepted` is a history variable. A refusal drops the whole summary in
  the code, so the pools are left unchanged.
* **ShareLedger** – the abstract specification: every step issues shares to one holder or
  redeems shares that holder has. `VerifyStreamProperties!Ledger` is the refinement mapping.
* **ExportFile** – the verifier together with the operator's log and a mirror. The operator
  writes what its own books allow, chains and signs it (`Stored`); the mirror hands over any
  genuine record, or one with a field altered, re-hashed, stripped of its signature, renumbered
  or attributed to another key (`Altered`), in any order, as often as it likes. It cannot sign.
* **EpochSettlement** – the verifier reading an honest epoch settlement as it happens: figures
  frozen, fee shares minted, subscriptions and redemptions at floored rates, epoch closed. Every
  event goes through the line the export makes of it (`MarshalLine`); the log is unsigned, since
  signatures are the subject of `ExportFile`, and its figures are canonical.
* **Merkle** – `merkle.go` function by function; `mth`, `path` and `subProof`, recursive in the
  code, are recursive functions over the runs of a leaf list, `Roots(d)[n][i]` being the root of
  the `n` nodes from place `i` on, and `Paths` and `SubProofs` likewise; the loops of the verifiers
  are recursive functions over the places of a proof (`InclusionWalk`, `ConsistencyWalk`), the
  shifts over `fn` (`Shifted`), the carries of `Append` over the old subtrees. **TreePublisher** – the publisher's use of
  `Frontier` that its comments describe, with frontiers as heap objects so that a shallow
  clone would be seen. Its names (`events`, `PublisherInit`, `PublisherSpec`) differ from those of
  `TreeHeads` because one proof module reads both.
* **TreeHeads** – `VerifySTHs` head by head in its sorted order (`IsNext`) and `VerifyAnchors`
  record by record, after an operator that may rewrite its log between heads. The head file comes
  from a mirror that cannot sign (`Makeable`), and its lines have passed `STH.Validate`
  (`ValidHead`): any other ends the run before the first head is checked (`RefuseFile`).
* **Attestation** – `WalletAttestor.Attest`, the recording and serving of attestations, and
  `VerifyAttestDoc`. A signature covers the balance rounded to 18 digits (`CanonicalStatement`), the
  published record carries it so rounded (`NewWireRecord`), and the checker keeps and adds up every
  digit of a record it is handed; an altered document may say anything there.
* **OTSAnchor** – `Anchor` and `Upgrade` one calendar call at a time, with `Verify`.
* **SumTree** – `sumtree.go`, the split of `sumtree_privacy.go` and the wire form of
  `sumtree_wire.go`, function by function. Levels and walks are recursive functions, not
  recursive operators, so that they can be proved about. Accounts and weights of a split are
  drawn as in the code; its shortcut for one part or a zero total comes to the same, and its guard
  against a negative last part, which the code calls unreachable, is left out because it is
  (`SplitsAreExact`).
* **ProofOfLiabilities** – `GenerateLiabilityLeaves` account by account and swap by swap, the
  published tree, and `LiabilityProofDoc.Verify` leaf by leaf for one holder after another. The
  tree may declare one false sum at any node (`PublishForged`), and a document may declare
  balances, sibling sums, sides, owners and paths of the server's choosing (`Redeclared`,
  `Altered`). The holder `careful` speaks of reads leaves of his own that are all different.
* **StakingVerify** – `main` from the parsed flags on, one action per stage. What a verifier
  decides is a choice here, bound by what passes between the stages (the heads), since the
  verifiers have models of their own; `outcome` says what became of each input.

Producer, mirror, wallet service, calendars and the operator's publication are outside this
repository; their actions are modelled from what the code expects of them and marked external in
the map of `PROJECT.json`. Operators commented "Mutant" are deliberate mistakes that are used
nowhere in the models: each replaces the definition after it to show that a property notices.

## 3. The runs

| Run | Instance | Question |
|---|---|---|
| `replay` | 1 pool, 2 accounts, 3 share events or 4 epoch events | Is what the verifier accepts, from any file, one chain, a share ledger, and reconciled? |
| `rotation` | 1 pool, 3 entries over 3 instants, amounts that are no whole units, 5 readers | Can a mirror get anything past a signature, or a genuine log be refused, around key rotation? |
| `pools` | 2 pools, 2 entries, with liveness | Can pools be confused; does a genuine export always end in success? |
| `settlement` | 2 epochs, 2 flows each, 2 accounts | Does any honest settlement trip the schema 2 checks? |
| `tree` | every log of up to 8 leaves over 2 values | Are roots, frontier and proofs right? |
| `heads` | 2 pools, 3 entries, 2 heads, 1 rewrite, 2 lines, 1 anchor | Do recorded heads and anchors pin the history? |
| `attestations` | 2 pools, 2 heads, 2 signed statements, 2 records, balances that are no whole units | Whose figure is it, and how fresh? |
| `liabilities` | 3 accounts (users split into 1 or 2 leaves, the house into 1 or 3), 2 steps per canonical unit, false sums over up to 4 leaves, 3 leaves per document | Does every honest document verify, and can anything else? |
| `stages` | every choice of options with 0, 1 or 2 arguments, 2 pools, 2 roots, with liveness | Does what is printed stand, and is exit code 0 earned and given? |
| `calendars` | 2 heads, 2 calendars, 1 lost leader, with liveness | Is confirmation honest, kept and reached? |

Why the bounds are enough. The verifier keeps one previous element of everything (head,
sequence number, previous close, previous head), so a violation needs two elements and a third
in between; the runs have that, and each property has a mutant that violates it within the
bounds. Trees of eight leaves have every shape of the recursion up to three levels, and odd
nodes promoted over one and two levels. Two epochs are what an asset chain needs; the figures
chosen make the fee shares, the payouts and the price inexact. `SumAccounts` needs two
accounts to be wrong about one. Sum trees of three to seven leaves have every kind of promotion
(`HouseSplit` is 8 to 16 in the code, and the shape of a tree depends only on the number of
leaves); two steps per unit make the rounding of sums visible, and negative sums are among those
declared. False sums are declared over up to four leaves, since one inner node on each side of
the root is what hiding a balance takes. `stages` needs no bound: options and outcomes are finite.

Deliberate narrowing. Documents in `attestations` are those that can be made without the
wallet's keys (`Makeable`), readers pin keys the wallet published (`PinAssumption`), and the
mirrors of `ExportFile` and `TreeHeads` cannot sign; nothing holds for a reader whose pinned keys
are not the wallet's or the operator's. `liabilities` changes one thing per served leaf, and
repeats leaves and borrows those of other accounts freely. The log of `settlement` is unsigned.

`CHECK_DEADLOCK FALSE` stands in the configurations because every system here ends: a run has
a verdict, and the sweep has nothing left when all heads are confirmed; the publisher and the
settlement stop at their bounds.

Two runs show where the code does not do what the repository says; each is a finding.

* `two_heads_one_size` – of two heads over the same tree only the later can be anchored; the
  genuine anchor of the earlier one is refused as a mismatch.
* `no_heads` – with an empty `-sth` file the challenges of an attestation are not checked.

Other places where the code and what is said of it part were met while modelling. The models do
what the code does, and no property denies it:

* after an epoch without a usable `assets_close` the next one is chained against an older close
  (`verify.go:600-604`), where `verify.go:486-488` says there is nothing to chain it against;
* an unsigned entry from the time of an earlier, since rotated key passes under `-allow-unsigned`
  as history from before signing (`verify.go:321-333`), since only the active key's start is read;
* in standalone mode a given `-anchors` file, and with `-pol` alone a given `-sth` file, is never
  opened, and the run exits 0 (`main.go:135-158`), where the project's README says that everything requested verified;
* a malformed export, proof or attestation document exits with 1, where that README has malformed
  JSON exit with 2;
* the digits of an attested balance below the 18 that the wallet's signature covers can be edited,
  and the total with them, without breaking the signature (`wallet.go:137`, `wire.go:136`), where
  `wallet.go:30-31` and `wire.go:42-43` say that any value edit breaks it;
  `PinnedFiguresAreTheWallets` says what is left of that;
* a document that repeats one genuine record, or one leaf of a proof of liabilities, counts it
  twice; and the liabilities an attestation document names are not compared with `-pol`'s total.

Fairness. `HonestRunSucceeds` assumes that the export is taken at some time and that the
verifier, a loop over a finite file on one goroutine, keeps reading (weak fairness of
`TakeExport` and of `Reading`). `OneCalendarIsEnough` assumes that calls return, since each has
a timeout (weak fairness), that the sweep comes back to every head awaiting confirmation
(`ots.go:61-63`; strong fairness, as one call excludes the others meanwhile), and that a calendar
called steady answers some of the polls it gets and gets attested what it took. Nothing is
assumed of other calendars, nor that anything is ever anchored. `GoodInputsExitZero` assumes that
`main`, one goroutine over files that end, goes on (weak fairness of `Next`).

## 4. The proofs

`VerifyStream_proofs` begins with the verifier alone (`VerifyStream`), and proves, for any number of
pools and accounts, any registry, any options and **any** records (`Next` quantifies over all of `ExportRecords`, not over a small
set of lines):

* `TypeCorrect` – `Spec => []TypeOK`; in particular no balance and no total is negative.
* `BalancesAlwaysSum` – `Spec => []BalancesSumToTotal`. The sum checks at every EPOCH and at
  the end can therefore never be what fails.
* `ReplayImplementsLedger` – `Spec => Ledger!Spec`: the verifier implements `ShareLedger`.

The inductive invariant is `Inv == TypeOK /\ BalancesSumToTotal`. The types are needed for the
sums, since `SumAccounts` says something of whole balances only, and for the burns, whose guards
keep balances in `Nat`. The argument goes event by event: `Moves(st, s)` says that `s` keeps all
shares of `st` or moves one balance and the total by the same amount. Each branch of
`Replayed` is a move (`MintedMoves`, `BurnedMoves`, `ClosedMoves`, `DeltaMoves`), so is
`Advanced` (`AdvancedMoves`), and a move keeps the sum (`MovesKeepSum`).

* `AcceptedChain` – `Spec => []AcceptedIsOneChain`: whatever the order of the lines, the records
  accepted of a pool are one chain from genesis, of one operator, in sequence order, and the
  head commits to all of them.

The last property is not inductive: after one more record it needs that the *last* record has the
highest number, the operator all have, and that no record means a new pool. `Tells(st, rs)`
says so of a pool's state and history, and `ChainInv` of every pool. `ReplayedSameChain` shows,
again event by event, that replay leaves the counter and the operator alone, `AdvancedFields`
what is written, and `AcceptedTells` that a record that passes `CheckRecord` extends the chain.

* `BalancesAreIssuance` – `Spec => []BalancesAreNetIssuance`: a balance is what the whole accepted
  history issued to the account less what it redeemed, and no prefix of it overdraws the account.
* `AssetsAlwaysReconcile` – `Spec => []AssetsReconcile`, over any number of epochs between the
  closes.
* `FeesNeverDilute` – `Spec => []FeeSharesNeverDilute`, for every share scale.

These three relate a pool's state to its whole history, and share the invariant `BooksInv`: every
pool is `Booked`. `AssetsReconcile` is not inductive, since between two epochs it says nothing of the
state; `AssetsBooked` adds that the previous close plus the stake movement since is, at any time,
what the assets have grown to from any close that only schema 2 epochs follow. `Books(st, e, s)`
says what one event does to balances and assets (`ReplayedBooks`, event by event; `AdvancedBooks`),
`LongerSums` what one more record does to the sums along the history, and
`BalancesStayBooked`, `AssetsStayBooked` and `ClosesStayReconciled` put the two together.
`FloorBounds` bounds the floored quotient from both sides and `CrossProducts` carries the bounds
over to the asset values per share.

`IntervalLemmas` proves what all sums here need: that the recursive function behind `SumTo`, and so
behind `SumAccounts`, is what its defining equation says (`RunningSumDef`, by a least-counterexample
argument over intervals), that a sum depends on no later values, grows by the next one and falls
into the sums of its two halves (`SumsAgree`, `SumStep`, `SumSplit`), that it moves with a value
that moves (`SumChanged`), and that sums add up value by value (`SumOfBoth`, `SumShifted`). The module adds that the sum of all balances is zero on the empty pool
(`SumZero`), that moving one balance moves the sum by as much (`SumUpdate`), and that a balance is
never more than the sum (`SumBoundsBalance`).

Its second part lifts this to the operator and the mirror (`ExportFile`), for any number of pools, accounts
and entries, any published registry, any reader and any forgery the mirror can make:

* `FileImplementsVerifier` – `FileSpec => Spec`: the verifier at the end of a mirror does nothing
  that it does not do on some file, so everything above holds of it.
* `SignedEntryVouches` – `FileSpec => []SignedEntryVouchesForPrefix`.

The invariant is `ChainInv /\ LogInv /\ SignedEntryVouchesForPrefix`, where `LogInv` says that each
pool's log is one chain under its owner and the published keys. A signature the mirror can show is
one of the log's (`AlteredRecords`), it is over a chain hash, a chain hash determines all entries
before it, and what was accepted is a chain (`ChainInv`): hence the accepted prefix *is* the log's.

* `ReplayGivesBooks` – `FileSpec => []ReplayMatchesBooks`: behind a signature, what was replayed is
  the operator's books, to less than one canonical unit per entry.

Three invariants meet here. A replayed balance is the sum of what was accepted (`BooksInv`), the
books are the sum of what was written (`WrittenInv`: the entries as the operator meant them, of
which the log keeps the canonical forms), and the signature makes the two sequences agree up to
canonical form, entry for entry (`FileInv`). Two amounts with one canonical form are less than a
unit apart (`SameCanonicalIsClose`), and so the sums are close (`SumsClose`).

* `HonestExportsVerify` – `WholeUnits` implies `FileSpec => []HonestExportVerifies`: a genuine
  export is not refused.

`HonestInv` says of each record of the log that it is what an operator with the books up to it may
write, and that an unaltered reading has accepted a prefix of the log. Replay then stands where the
operator stood (`AllowedReplays`), the link and the signature are those the reader asks for
(`HonestSignature`, by cases over his options), and `NextGenuineAccepted` puts them together. The
hypothesis `WholeUnits`, that the operator's amounts are their own canonical forms, is needed: an
operator that counts more finely than it exports may burn what was minted in two amounts, and their
rounded forms need not sum up to the rounded burn. Run `rotation` has such amounts, and mints only.

The third part is about the honest settlement (`EpochSettlement`), for any number of epochs and
flows, any results, fees and capital movements, and any scales of shares and prices:

* `SettlementImplementsVerifier` – `SettlementSpec => Spec`.
* `HonestSettlementsVerify` – `SettlementSpec => []HonestEpochsVerify`: no schema 2 check trips.
* `SettlementAssetsFollow` – `SettlementSpec => []AssetsFollowReplay`.

That the verifier never refuses is not inductive: at the close it needs what was frozen at the
start, and that the flows since moved the verifier's figures as they moved the settlement's.
`SettlementInv` has the verifier's own invariant (`Inv`), the pool's operator (`ReplicaInv`), what the
figures frozen satisfy (`FrozenInv`: the fee shares are those the check recomputes, the pool is
worth something if it has shares, and it opened at the last close) and the agreement of assets
(`AssetsFollowReplay`). `AppendedIsRead` says once that an event the replay rules allow is read as
it was appended, and moves the books as `Books` has it; each action then has to show only that its
event is allowed. A redemption needs that an account holds no more than the total
(`SumBoundsBalance`), the closing event that floored shares are canonical (`FloorIsCanonical`).

`Merkle_proofs` is about the tree alone, for leaf lists and proofs of any length:

* `RootsCommit` – a Merkle root has one list of entry hashes. `SameRunsAlways` says it of runs, by
  strong induction on their length: a leaf hash is no node hash (the prefixes), a node hash
  determines both children, and both halves of a run are shorter. That runs are split at a power of
  two is not needed, only that both sides split somewhere inside; and so not even the lengths have
  to be known to be equal.
* `InclusionProofsDecide` – `VerifyInclusion` accepts an entry at a place with a list of nodes
  exactly when the entry is there and the list is the one `InclusionProof` generates: complete and
  sound in one statement, for any list whatever.
* `ConsistencyProofsDecide` – the same of `VerifyConsistency` against the root of the first `m`
  entries and the proof `ConsistencyProof` generates.
* `ConsistencyProofsCommit` – so two logs of which one's root was accepted as a prefix of the
  other's begin with the same entries.

The argument goes along the recursion of the generator, over the runs it visits. A walk of the
verifier is cut where the generator's recursion returns: `fn` and `sn` count, at every level, the
runs of `2^level` nodes to the left of the place and of the last place, and a node without a right
sibling is promoted until it is a right child. What the walk has computed there is the root of the
run. Soundness is the same walk read backwards: the root determines both children, hence
each element of the proof, from the last to the first. Powers of two are handled as what they are
in the code, the highest bit of a number (`TopBit`). The frontier is described by `Covers`: its
sizes are powers of two, strictly decreasing, and each root is that of the run it stands for;
`AppendCovers` says that an append, with all its carries, keeps that, and `FrontierIsRoot` that
the fold from the right is then the root of a full rebuild.

Writing this down changed the model once: `SubProofs` was defined for places the recursion of
`subProof` never reaches, where its definition had no value.

`TreeHeads_proofs` is about the verifier of heads and anchors, for any pools, logs, rewrites, head
files and anchor files, and about the publisher.

* `HeadsPinHistory` – `Spec => []VerifiedHeadsPinHistory`.
* `PassedHeadsWerePublished` – `Spec => []SignedHeadsWerePublished`.
* `AnchorsPinHistory` – `Spec => []AnchoredHistoryStands`.

The invariant `HeadsInv` says that logs are sequences (`LogInv`), that a published head carries the
root and size of the log it was published over (`PublishedInv`), that once the files are taken the
leaves are the entry hashes of the current log, every signature in the head file is a published one
and every head that passed matches the leaves (`HeadFileInv`), and that an anchor that passed
carries the digest of such a head (`AnchorFileInv`). If two heads read the same, so do their
roots; a root has one list of entry hashes; and the last entry hash commits to the whole log
(`RootPinsLog`).

* `MatchingHeadsExtend` – `Spec => []RootsImplyConsistency`: check 3 refuses nothing that check 1
  lets through. `OrderInv` says that what is still to check is no smaller than the last head of
  its pool that passed; both match the same leaves (`HeadsInv`), and `ConsistencyProofsDecide`
  makes the generated proof verify.
* `HonestHeadsAreAccepted` – `Spec => []HonestHeadsVerify`. `HonestInv` says of every published
  head that it is as the operator makes it, of every log that was never replaced that it still
  begins with what each head was published over, and of a run that ended at a head what it found in
  the file; such a head is not among the published ones (`FaithfulMatches`, `FaithfulIsSigned`).

The publisher's part has `PublisherInv`: the cached frontier and the clone under way cover first
events of the log, the cached one as many as were served. From it follow `FrontiersAreMerkleRoots`
and `CacheStandsStill`, and from the theorems about the tree the properties of the proofs served:
`AuditPathsVerify`, `AuditPathsAreSound`, `ExtensionsVerify`, `RewritesAreRefused` and
`RootsHideNoLog`.

`ProofOfLiabilities_proofs` begins with the algorithm alone, for leaves, paths and totals without
any bound:

* `TwoLeavesFit` – two different leaves that verify under one root and total have balances that
  fit into the total together, to less than one canonical unit, whoever built the tree and
  whatever sums the two proofs declare. Both walks are followed down from the root: as long as
  they agree they pass nodes of one hash; where they part, the sibling of one is the other's node,
  so its sum was counted; and they part, since a leaf's hash is never a node's.
* `AllLeavesFit` – the same of any number of leaves: `n` leaves with different hashes hold no more
  than the total, and `n - 1` times the rounding of an amount to canonical units.
* `OnlyCommittedLeaves` – under the root of `BuildLiabilityTree` only the tree's own leaves verify.
* `CommittedLeavesAlways` – `Spec => []CommittedLeavesOnly` makes an invariant of the second, with
  `CommittedInv`, which adds that the levels are those built over the leaves and that every
  document is a sequence of steps.

Then the other direction, what an honest operator publishes:

* `GeneratedPathsVerify` – in a tree over any number of leaves, the path of `ProofFor` verifies for
  each of them. `OneLevelUp` is one turn of the prover's loop: what it adds to the path, nothing
  where the node is promoted, leads the verifier's walk to the node above.
* `SplitsAreExact` – whatever the weights, the parts of a balance are whole canonical units, add up
  to it, and none is negative unless it is: the sum of the rounded shares of all parts but the last
  stays below the exact share of their weights.
* `HonestDocumentsVerify` – `Spec => []HonestDocVerifies`, for balances that are whole numbers of
  canonical units (`WholeBalances`, which the balances of the run are). Without that hypothesis it is false: the
  wire form has 18 digits, and of a balance with more the verifier would sum up other amounts than
  the tree did.

The invariant of the last, `HonestInv`, adds two parts to `CommittedInv`. `SplitInv` says what the
leaves hold: no two salts are the same; the leaves of an account that was split hold its balance,
those of the others nothing yet; and the shuffle moves nothing between accounts (`FragmentsHold`,
`HeldSwap`). `DocInv` says of a document under way that the leaves shown are the reader's and that
the running sum is what they hold (`HeldMore`); at its end, as many different leaves as there are
records for the reader are all of his (`AllOfThem`), and they hold his balance.

And that nobody's balance hides, for however many holders:

* `ReportsAlwaysFit` – `Spec => []ReportsFitTotal`, for any accounts and balances, an honest tree
  or one with a false sum, and any order and number of genuine, redeclared and altered records.

`AllLeavesFit` follows all the walks down from the root together. Of the walks that pass a node of
one hash, with sums of at most `X`, the leaves below hold no more than `X`, up to one rounding for
each of them but the last. Where one of the walks ends in a leaf it is the only one, since a
leaf's hash is no node's and the leaves have different hashes. Otherwise each goes on to a left or
to a right child, and the hashed children are the same for all. If all go to one side, their sums
are still at most `X`; if not, the sum that a walk on the left declares for its sibling, and the
sum of any walk on the right, have one canonical form, so that they are less than a unit apart
(`SameCanonicalIsClose`), and the bounds of both sides add up (`BothSidesFit`). The induction is
over the levels that are left, and the sums over some of the leaves are those of a list that is
zero elsewhere (`SumsAt`).

Two invariants lead from the documents to the algorithm. `TreeInv` says that leaves carry amounts
and that the levels published consist of nodes with amounts, declared ones included (`TreeOk`).
`ReportsInv` says that for what was counted, and for what a careful reader has seen of the document
at hand, there are as many accepted proofs (`Proves`) of leaves with different hashes, and
that the running sums are the sums of their balances: an earlier reader's leaves carry an earlier
account, which the hash covers, and a careful reader's own are different. Each record of a document
has an amount and a path that decode, or none (`WireOk`), so that an accepted one is such a proof
(`AcceptedProves`).

`OTSAnchor_proofs` proves `ReceiptsBind`, `ConfirmationIsTestified` and `ReceiptsGrow` for any
heads, calendars and lost leaders. Its invariant needs what a receipt under way knows: `Grounded`,
that its digest is its head's, that its pending calendars took the digest and that an upgrade was
some calendar's word; and that an upgrade call works on the stored receipt,
up to the upgrade (`Base`).

`Attestation_proofs` proves `RecordedAreFresh`, `PinnedAreTheWallets` and `CheckedAreFresh` for any
pools, keys, heads, requests and documents. Its invariant says of every statement of the wallet's
that it is `Fresh` (bound to a published head of the pool whose currency it names, and no older),
of the log that it holds nothing but such statements and auditors' records, and of a document that
nobody forged it. A record that passes under a pinned key carries a signature of the wallet's
(`PassedIsSigned`); the signature covers every field of the record but its kind and its key, and
the key is the pinned one. Of the balance it covers the canonical form, so that the record is a
statement of the wallet's with another balance of that form (`WithBalance`), and the
theorem says no more (`RoundsTo`). Who asked, when and for which head is covered in full, so that
`CheckedAreFresh` loses nothing by it.

* `HonestDocsPass` – `Spec => []HonestDocVerifies`: a reader who has the published keys refuses no
  document that is served as recorded.

Its invariant, `AlarmInv`, says of every figure recorded that it is `Sound`: it passes every check of a record, the validity of its key on the day of signing included
(`KeyOfItsDay`); that a genuine document consists of such figures for its pool, in published form, which loses only
digits that the signature does not cover (`WireFields`, `CanonicalForm`); and that a run that
failed met a document that does not pass.

`StakingVerify_proofs` proves, for any command line, any log and any contents of the inputs:

* `PrintedStands` – `Spec => []ReportsStand`: heads and anchors are only reported of an export that
  verified; challenges are among the heads of the file given, if it has any. With an export those
  heads are roots of it; without one they are no more than parsed, and a report of `-pol` or
  `-attest` rests on no export.
* `ZeroIsEarned` – `Spec => []ZeroMeansVerified`: an export, a liability proof or an attestation was
  verified, everything `Consulted` is in order, and nothing else was opened. With an export every
  option is consulted; without one `-anchors` is not, nor `-sth` unless `-attest` is given.

Neither is inductive, since both speak of the end of a run. `StageInv` says of every stage which
inputs are still `Ahead`: what is consulted and behind the run is in order, and the rest is unread,
unless the run has stopped (`Sound`), what is printed is behind it (`Standing`), and each mode comes to its own stages
only (`Staged`). There is one lemma per stage.

Every theorem rests on assumptions that the modules name and the runs evaluate: `ScaleAssumption`,
`SentinelAssumption`, `NamesAssumption` (the placeholder for a missing value is no name),
`NumAccountsAssumption`, `OptionsAssumption`, `KeyNamesAssumption` (a private key goes by the id its
public half is published under; only `HonestHeadsAreAccepted` uses it), `ProducerAssumption` (types of what the operator
writes, and published keys go by their own ids), `SettlementAssumption` (types of the figures, which are canonical; the operator's and the event types'
names are strings, which the provers do not know of a literal), `UnsignedAssumption` (the settlement's
reader allows for unsigned history), `WalletKeysAssumption` (the wallet's keys go by their own ids;
only `HonestDocsPass` uses it), `BalancesAssumption` (attested figures are numbers, of any precision),
`SplitAssumption` (balances are integers, one for each account; weights and
numbers of parts are positive; a sum that is declared is a number, since `decode` reads one or refuses
the record, which `Malformed` stands for), `AnchorAssumption` (the
placeholder is no value), `PinAssumption`, and for the command line `LogHeadsAssumption` and
`CommandLinesAssumption` (the export is an argument, not an option).

Only model-checked:

* liveness (`HonestRunSucceeds`, `OneCalendarIsEnough`, `GoodInputsExitZero`), which is out of the
  prover's reach, as ENABLED is.

## 5. What is not modelled

* JSON layout, string escaping, hex and time formats; line and answer length limits (the
  scanner's is `RefuseLine`). Equality of canonical bytes is equality of `Canonical`.
* SHA-256 collisions and forged Ed25519 signatures.
* The flag package, file handling and the wording of reports. `-allow-unsigned` is an option of
  `VerifyStream`; a file that cannot be opened is the outcome "missing" of `StakingVerify`.
* Parsing and formatting of decimals (`internal/money`); amounts are integers, and what does not
  parse is `Malformed`.
* The attestor and anchor registries (a map behind a mutex) and the on-chain stub (refuses
  always).
* The randomness of salts, weights and the shuffle: every draw is possible, and none is more
  likely; what a reader could infer about other accounts is not a question of this model.
* Concurrency inside the verifier: it has none.

## 6. Plan

Done: every component above but the registries, the on-chain stub and the parsing of decimals is
modelled and checked. Proved are the export verifier's types, sums, chain, books and refinement,
alone and behind a mirror, with its verdicts on honest logs; that the tree's verifiers accept the
generated proofs and nothing else, and that the frontier is the tree; that heads and anchors pin
the history, and that honest heads pass; that an honest settlement raises no alarm; that a proof of
liabilities counts only committed leaves, that what any number of holders see fits into its total,
and that an honest one counts the balance; the safety of attestations, and that an honest document passes;
the safety of calendars and the command line.

Next, in this order:

1. The composition of `TreeHeads` and `Attestation` with `StakingVerify`, so that the choices of
   its stages become the verdicts of the verifiers.
2. What the `-pol` stage and the attestation stage say together: no code compares the liabilities
   an attestation names with the total of a proof, so there is nothing to prove of it yet.
