------------------------------- MODULE Replay -------------------------------
(***************************************************************************)
(* The replay rules of cmd/staking-verify/verify.go (replayEvent): what one *)
(* event does to a pool's share ledger and to the asset bookkeeping of its  *)
(* epochs, and when the event is refused instead.                           *)
(***************************************************************************)
EXTENDS Translog, RunningSums

CONSTANT NumAccounts   \* accounts are numbered 1 .. NumAccounts

ASSUME NumAccountsAssumption == NumAccounts \in Nat

Accounts == 1 .. NumAccounts

MintTypes  == {"FEE_MINT", "CAPITAL_MINT"}
BurnTypes  == {"UNSTAKE_BURN", "CAPITAL_BURN", "WRITE_DOWN"}
QuietTypes == {"UNSTAKE_REQUEST", "UNSTAKE_CANCEL", "UNSTAKE_CLAIM", "RECAPITALIZE",
               "ADJUSTMENT", "POLICY_CHANGE"}
EventTypes == {"STAKE", "EPOCH"} \cup MintTypes \cup BurnTypes \cup QuietTypes

\* A pool the export has not mentioned yet.  accounts is total: an account that is not in
\* the code's map counts as zero, which is how accountShares reads it.
EmptyPool ==
  [head |-> Genesis, events |-> 0, lastSeq |-> 0, operator |-> Absent, leaves |-> <<>>,
   total |-> 0, accounts |-> [a \in Accounts |-> 0],
   prevAssetsClose |-> 0, hasPrevEpoch |-> FALSE, epochAssetDelta |-> 0]

-----------------------------------------------------------------------------
(* Sum of the account balances, as the loop of checkAccountSum builds it. *)

SumAccounts(accounts) == SumTo(accounts, NumAccounts)

AccountSumOk(st) == SumAccounts(st.accounts) = st.total

-----------------------------------------------------------------------------
(* Mint and burn *)

NamesShares(e) == e.shares # Absent /\ e.account # Absent

\* Mutants: the account's new balance is not stored; it replaces the old one.
MintedUnstored(st, e) == [st EXCEPT !.total = @ + e.shares]

MintedAfresh(st, e) == [st EXCEPT !.accounts[e.account] = e.shares, !.total = @ + e.shares]

Minted(st, e) ==
  [st EXCEPT !.accounts[e.account] = @ + e.shares, !.total = @ + e.shares]

\* Mutant: only the pool's total is held against the burn.
CanBurnFromTotal(st, e) == NamesShares(e) /\ st.total - e.shares >= 0

CanBurn(st, e) ==
  /\ NamesShares(e)
  /\ st.accounts[e.account] - e.shares >= 0
  /\ st.total - e.shares >= 0

\* Mutant: the total is not moved.
BurnedFromAccount(st, e) == [st EXCEPT !.accounts[e.account] = @ - e.shares]

Burned(st, e) ==
  [st EXCEPT !.accounts[e.account] = @ - e.shares, !.total = @ - e.shares]

\* What an event's amount adds to the stake movement of the running epoch.
AmountOf(e) == IF e.amount = Absent THEN 0 ELSE e.amount

-----------------------------------------------------------------------------
(* EPOCH *)

IsAmount(x) == x # Absent /\ x # Malformed

\* epochPayloadAmount succeeds for every field the schema 2 checks read.
ParsesV2(p) ==
  \A k \in {"assets_open", "ggr", "cap_net", "fee", "fee_shares", "price", "shares_open",
            "assets_close"} : IsAmount(p[k])

AssetsMid(p) == p["assets_open"] + p["ggr"] + p["cap_net"]

PriceOk(p) ==
  LET sharesAfterFee == p["shares_open"] + p["fee_shares"]
  IN  sharesAfterFee > 0 => p["price"] = DivRound(AssetsMid(p), sharesAfterFee)

AssetChainOk(st, p) == st.hasPrevEpoch => p["assets_open"] = st.prevAssetsClose

EpochInvariantOk(st, p) == AssetsMid(p) + st.epochAssetDelta = p["assets_close"]

WantFeeShares(p) ==
  LET denom == AssetsMid(p) - p["fee"]
  IN  IF p["fee"] > 0 /\ p["shares_open"] > 0 /\ denom > 0
      THEN FloorRatioShares(p["fee"] * p["shares_open"], denom)
      ELSE 0

FeeSharesOk(p) == p["fee_shares"] = WantFeeShares(p)

CanClose(st, e) ==
  LET p == e.payload
  IN  /\ e.shares = Absent
      /\ IsAmount(p["shares_close"])
      /\ p["shares_close"] = st.total
      /\ AccountSumOk(st)
      /\ e.schema >= 2 =>
           /\ ParsesV2(p)
           /\ PriceOk(p)
           /\ AssetChainOk(st, p)
           /\ EpochInvariantOk(st, p)
           /\ FeeSharesOk(p)

\* Mutant: the stake movement of the closed epoch is carried into the next.
ClosedNoReset(st, e) ==
  LET close == e.payload["assets_close"]
  IN  [st EXCEPT !.prevAssetsClose = IF IsAmount(close) THEN close ELSE @,
                 !.hasPrevEpoch = @ \/ IsAmount(close)]

\* An assets_close that is missing or does not parse leaves the previous one in place.
Closed(st, e) ==
  LET close == e.payload["assets_close"]
  IN  [st EXCEPT !.prevAssetsClose = IF IsAmount(close) THEN close ELSE @,
                 !.hasPrevEpoch = @ \/ IsAmount(close),
                 !.epochAssetDelta = 0]

-----------------------------------------------------------------------------
(* replayEvent: when an event is accepted, and the state it leaves. *)

NonNegative(x) == x # Absent => x >= 0

CanReplay(st, e) ==
  /\ NonNegative(e.amount)
  /\ NonNegative(e.shares)
  /\ \/ e.type = "STAKE" /\ (e.shares = Absent \/ NamesShares(e))
     \/ e.type \in MintTypes /\ NamesShares(e)
     \/ e.type \in BurnTypes /\ CanBurn(st, e)
     \/ e.type \in QuietTypes /\ e.shares = Absent
     \/ e.type = "EPOCH" /\ CanClose(st, e)

\* Mutant: an escrowed stake counts as stake movement before any share is minted.
ReplayedEscrow(st, e) ==
  CASE e.type = "STAKE" /\ e.shares = Absent -> [st EXCEPT !.epochAssetDelta = @ + AmountOf(e)]
    [] e.type = "STAKE" /\ e.shares # Absent ->
         [Minted(st, e) EXCEPT !.epochAssetDelta = @ + AmountOf(e)]
    [] e.type \in MintTypes -> Minted(st, e)
    [] e.type = "UNSTAKE_BURN" -> [Burned(st, e) EXCEPT !.epochAssetDelta = @ - AmountOf(e)]
    [] e.type \in BurnTypes \ {"UNSTAKE_BURN"} -> Burned(st, e)
    [] e.type = "EPOCH" -> Closed(st, e)
    [] OTHER -> st

Replayed(st, e) ==
  CASE e.type = "STAKE" /\ e.shares # Absent ->
         [Minted(st, e) EXCEPT !.epochAssetDelta = @ + AmountOf(e)]
    [] e.type \in MintTypes -> Minted(st, e)
    [] e.type = "UNSTAKE_BURN" ->
         [Burned(st, e) EXCEPT !.epochAssetDelta = @ - AmountOf(e)]
    [] e.type \in BurnTypes \ {"UNSTAKE_BURN"} -> Burned(st, e)
    [] e.type = "EPOCH" -> Closed(st, e)
    [] OTHER -> st
=============================================================================
