----------------------- MODULE VerifyStreamProperties -----------------------
(***************************************************************************)
(* Properties of the export verifier for any file whatever: nothing here    *)
(* assumes who wrote the records or that anything is signed.                *)
(***************************************************************************)
EXTENDS VerifyStream

\* Every variable has its type.
TypeOK ==
  /\ opts \in OptionSets
  /\ verdict \in Verdicts
  /\ events \in Nat /\ unsigned \in 0 .. events
  /\ pools \in [Pools -> PoolStates]
  /\ accepted \in [Pools -> Seq(ExportRecords)]

\* docs/SPEC.md 7.1: after every event the account balances sum to the pool total.  So the
\* sum checks at EPOCH and at the end of the export never fire on their own.
BalancesSumToTotal == \A p \in Pools : SumAccounts(pools[p].accounts) = pools[p].total

\* Replay as ShareLedger describes it: each record issues shares to one account or redeems
\* shares it holds, in one pool.
Ledger ==
  INSTANCE ShareLedger WITH
    Holders <- Accounts,
    holding <- [p \in Pools |-> pools[p].accounts],
    supply <- [p \in Pools |-> pools[p].total]

ReplaysShareLedger == Ledger!Spec

-----------------------------------------------------------------------------
(* Properties of the accepted history *)

Entry(p, i) == accepted[p][i].entry

Positions(p) == 1 .. Len(accepted[p])

\* What one entry issued to the account, negative when it redeemed.
Issued(e, a) ==
  IF e.account # a \/ e.shares = Absent THEN 0
  ELSE IF e.type \in MintTypes \cup {"STAKE"} THEN e.shares
  ELSE IF e.type \in BurnTypes THEN -e.shares
  ELSE 0

Issuance(p, a) == [i \in Positions(p) |-> Issued(Entry(p, i), a)]

\* A balance is what the accepted log issued to the account less what it redeemed, whatever
\* the order and the other accounts did, and it was never overdrawn on the way
\* (verify.go:379-456).
BalancesAreNetIssuance ==
  \A p \in Pools, a \in Accounts :
    /\ pools[p].accounts[a] = SumTo(Issuance(p, a), Len(accepted[p]))
    /\ \A n \in Positions(p) : SumTo(Issuance(p, a), n) >= 0

\* What was accepted in a pool is one unbroken chain from genesis, of one operator, with
\* increasing sequence numbers; its head commits to all of it (verify.go check 1).
AcceptedIsOneChain ==
  \A p \in Pools :
    /\ pools[p].head = [i \in Positions(p) |-> Canonical(Entry(p, i))]
    /\ \A i, j \in Positions(p) : i < j =>
         /\ accepted[p][i].seq < accepted[p][j].seq
         /\ Entry(p, i).operator = Entry(p, j).operator

IsEpoch(e) == e.type = "EPOCH"

ClosesAssets(e) == IsEpoch(e) /\ IsAmount(e.payload["assets_close"])

\* The stake movement or the declared result of one entry.
Flow(e) ==
  IF IsEpoch(e)
  THEN IF IsAmount(e.payload["ggr"]) /\ IsAmount(e.payload["cap_net"])
       THEN e.payload["ggr"] + e.payload["cap_net"] ELSE 0
  ELSE IF e.type = "STAKE" /\ e.shares # Absent THEN AmountOf(e)
  ELSE IF e.type = "UNSTAKE_BURN" THEN -AmountOf(e)
  ELSE 0

AssetFlow(p) == [i \in Positions(p) |-> Flow(Entry(p, i))]

\* Between two epoch closes the assets move by exactly the declared results plus the stakes
\* minted less the redemptions paid, over any number of schema 2 epochs in between
\* (docs/SPEC.md 7.4, checks 2 and 3 taken together).
AssetsReconcile ==
  \A p \in Pools : \A i, j \in Positions(p) :
    /\ i < j /\ ClosesAssets(Entry(p, i)) /\ IsEpoch(Entry(p, j))
    /\ \A k \in (i + 1) .. j : IsEpoch(Entry(p, k)) => Entry(p, k).schema = 2
    => Entry(p, j).payload["assets_close"] - Entry(p, i).payload["assets_close"] =
         SumTo(AssetFlow(p), j) - SumTo(AssetFlow(p), i)

\* Minting the fee shares of an accepted schema 2 epoch never leaves the holders with less
\* than their assets net of the fee (in cross products, the assets per share after the mint
\* against those before it), nor the operator short by a whole share unit (check 4).
FeeSharesNeverDilute ==
  \A p \in Pools : \A i \in Positions(p) :
    IsEpoch(Entry(p, i)) /\ Entry(p, i).schema = 2 =>
      LET q      == Entry(p, i).payload
          mid    == AssetsMid(q)
          before == q["shares_open"]
          after  == before + q["fee_shares"]
      IN  before > 0 /\ q["fee"] > 0 /\ mid > q["fee"] =>
            /\ (mid - q["fee"]) * after <= mid * before
            /\ (mid - q["fee"]) * (after + SubScale) > mid * before
=============================================================================
