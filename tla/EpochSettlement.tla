--------------------------- MODULE EpochSettlement --------------------------
(***************************************************************************)
(* The export verifier reading the log of an honest epoch settlement.       *)
(*                                                                         *)
(* The settlement (the producer's RunEpoch) is not in this repository.  It  *)
(* is modelled from what verify.go, canonical.go and docs/SPEC.md 7 say it  *)
(* does: it freezes the assets before any flow, mints the fee shares,       *)
(* freezes the price, mints subscriptions and burns redemptions at floored  *)
(* rates, and closes the epoch with one schema 2 EPOCH event.  Every event  *)
(* it appends is read by the verifier at once.                              *)
(***************************************************************************)
EXTENDS VerifyStream

CONSTANTS
  Pool,       \* the pool settled
  Operator,   \* its operator
  Treasury,   \* the account that receives the fee shares
  Results,    \* gaming results an epoch may have
  Capital,    \* net capital movements an epoch may have
  Fees,       \* fees an epoch may charge
  Flows,      \* amounts subscribed, and shares redeemed
  MaxEpochs,  \* bound: epochs settled
  MaxFlows    \* bound: escrows, subscriptions and redemptions of one epoch

SettledTypes == {"FEE_MINT", "STAKE", "UNSTAKE_BURN", "EPOCH"}

\* Figures are amounts in canonical form, as the export carries them.
ASSUME SettlementAssumption ==
  /\ Pool \in Pools /\ Treasury \in Accounts
  /\ {Operator} \cup SettledTypes \subseteq STRING
  /\ Results \cup Capital \subseteq Int /\ Fees \cup Flows \subseteq Nat
  /\ \A x \in Flows : CanonicalAmount(x) = x

\* The log is unsigned, and read as one: signatures are ExportFile's subject.
ASSUME UnsignedAssumption ==
  \A o \in OptionSets : o.allowUnsigned /\ ~(o.signingKnown /\ o.signingEnabled)

VARIABLES
  assets,   \* the pool's assets
  settling, \* an epoch is being settled
  frozen,   \* its frozen figures
  epochs,   \* epochs closed
  flows     \* escrows, subscriptions and redemptions since the last close

settlementVars == <<vars, assets, settling, frozen, epochs, flows>>

NothingFrozen ==
  [assetsOpen |-> 0, ggr |-> 0, capNet |-> 0, fee |-> 0, feeShares |-> 0, sharesOpen |-> 0]

\* What the verifier has replayed of the pool.
Replica == pools[Pool]

SettlementEvent(type, account, amount, shares, payload) ==
  [schema |-> 2, operator |-> Operator, pool |-> Pool, account |-> account, type |-> type,
   amount |-> amount, shares |-> shares, ts |-> 1, payload |-> payload]

\* Append one event to the log; the verifier reads the line made of it.
Appended(e) ==
  VerifyRecord(MarshalLine(
    [seq |-> Replica.lastSeq + 1, entry |-> e, prevHash |-> Replica.head,
     entryHash |-> ChainEntry(Replica.head, e), signature |-> NoSignature, keyId |-> Absent]))

-----------------------------------------------------------------------------

Mid == frozen.assetsOpen + frozen.ggr + frozen.capNet

SharesAfterFee == frozen.sharesOpen + frozen.feeShares

\* The first subscribers get one share per unit.
SharesFor(amount) ==
  IF SharesAfterFee > 0 THEN FloorRatioShares(amount * SharesAfterFee, Mid) ELSE amount

PayoutFor(shares) == FloorRatioShares(shares * Mid, SharesAfterFee)

\* Freeze the figures of an epoch; fee shares are minted only when the fee buys any.
StartEpoch(ggr, capNet, fee) ==
  LET mid       == assets + ggr + capNet
      feeShares == IF fee > 0 /\ Replica.total > 0
                   THEN FloorRatioShares(fee * Replica.total, mid - fee) ELSE 0
  IN  /\ ~settling /\ epochs < MaxEpochs
      /\ Replica.total > 0 => mid > 0
      /\ Replica.total = 0 => mid >= 0
      /\ fee <= ggr \/ fee = 0
      /\ mid > fee \/ fee = 0
      /\ settling' = TRUE
      /\ frozen' = [assetsOpen |-> assets, ggr |-> ggr, capNet |-> capNet, fee |-> fee,
                    feeShares |-> feeShares, sharesOpen |-> Replica.total]
      /\ assets' = mid
      /\ IF feeShares > 0
         THEN Appended(SettlementEvent("FEE_MINT", Treasury, Absent, feeShares, NoPayload))
         ELSE UNCHANGED vars
      /\ UNCHANGED <<epochs, flows>>

\* A player's money goes into escrow, outside the pool, at any time.
Escrow(amount) ==
  /\ flows < MaxFlows
  /\ Appended(SettlementEvent("STAKE", 1, amount, Absent, NoPayload))
  /\ flows' = flows + 1
  /\ UNCHANGED <<assets, settling, frozen, epochs>>

Subscribe(a, amount) ==
  /\ settling /\ flows < MaxFlows
  /\ SharesFor(amount) > 0
  /\ assets' = assets + amount
  /\ flows' = flows + 1
  /\ Appended(SettlementEvent("STAKE", a, amount, SharesFor(amount), NoPayload))
  /\ UNCHANGED <<settling, frozen, epochs>>

Redeem(a, shares) ==
  /\ settling /\ flows < MaxFlows
  /\ SharesAfterFee > 0 /\ shares <= Replica.accounts[a]
  /\ assets' = assets - PayoutFor(shares)
  /\ flows' = flows + 1
  /\ Appended(SettlementEvent("UNSTAKE_BURN", a, PayoutFor(shares), shares, NoPayload))
  /\ UNCHANGED <<settling, frozen, epochs>>

\* The closing figures the EPOCH event carries.
ClosingPayload ==
  [assets_open |-> frozen.assetsOpen, assets_close |-> assets,
   ggr |-> frozen.ggr, cap_net |-> frozen.capNet,
   fee |-> frozen.fee, fee_shares |-> frozen.feeShares,
   shares_open |-> frozen.sharesOpen, shares_close |-> Replica.total,
   price |-> IF SharesAfterFee > 0 THEN DivRound(Mid, SharesAfterFee) ELSE 0]

CloseEpoch ==
  /\ settling
  /\ Appended(SettlementEvent("EPOCH", Absent, Absent, Absent, ClosingPayload))
  /\ settling' = FALSE
  /\ epochs' = epochs + 1
  /\ flows' = 0
  /\ frozen' = NothingFrozen
  /\ UNCHANGED assets

SettlementInit ==
  /\ Init
  /\ assets = 0
  /\ settling = FALSE
  /\ frozen = NothingFrozen
  /\ epochs = 0
  /\ flows = 0

SettlementNext ==
  \/ \E ggr \in Results, capNet \in Capital, fee \in Fees : StartEpoch(ggr, capNet, fee)
  \/ \E amount \in Flows : Escrow(amount)
  \/ \E a \in Accounts, amount \in Flows : Subscribe(a, amount)
  \/ \E a \in Accounts, shares \in Flows : Redeem(a, shares)
  \/ CloseEpoch

SettlementSpec == SettlementInit /\ [][SettlementNext]_settlementVars

-----------------------------------------------------------------------------

\* No false alarm: the verifier accepts every log an honest settlement writes, in any order
\* of subscriptions and redemptions, whatever the flooring of shares and payouts and the
\* rounding of the price come to (the four schema 2 checks and shares_close together).
HonestEpochsVerify == verdict = "reading"

\* The verifier's own bookkeeping tracks the settlement: at any point of it the assets are
\* the frozen ones plus the stake movement replayed since the last close.
AssetsFollowReplay ==
  IF settling THEN assets = Mid + Replica.epochAssetDelta
  ELSE /\ Replica.epochAssetDelta = 0
       /\ Replica.hasPrevEpoch => assets = Replica.prevAssetsClose
=============================================================================
