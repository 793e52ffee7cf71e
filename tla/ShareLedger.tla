----------------------------- MODULE ShareLedger ----------------------------
(***************************************************************************)
(* What replaying a log is meant to be: a ledger of shares in which every  *)
(* step issues shares to one account or redeems shares that account holds,  *)
(* and the supply moves with it.  No transfer, no shares from nowhere, no   *)
(* negative holding (the account of replay in docs/SPEC.md, section 7).     *)
(***************************************************************************)
EXTENDS Integers

CONSTANTS Pools, Holders

VARIABLES
  holding,  \* shares of each holder, per pool
  supply    \* shares outstanding, per pool

ledger == <<holding, supply>>

Init ==
  /\ holding = [p \in Pools |-> [h \in Holders |-> 0]]
  /\ supply = [p \in Pools |-> 0]

Moved(p, h) == holding'[p][h] - holding[p][h]

Issue(p, h) ==
  /\ Moved(p, h) >= 0
  /\ holding' = [holding EXCEPT ![p][h] = @ + Moved(p, h)]
  /\ supply' = [supply EXCEPT ![p] = @ + Moved(p, h)]

\* Nobody redeems more than they hold, nor more than there is.
Redeem(p, h) ==
  /\ Moved(p, h) < 0
  /\ 0 <= holding'[p][h]
  /\ 0 <= supply'[p]
  /\ holding' = [holding EXCEPT ![p][h] = @ + Moved(p, h)]
  /\ supply' = [supply EXCEPT ![p] = @ + Moved(p, h)]

Next == \E p \in Pools, h \in Holders : Issue(p, h) \/ Redeem(p, h)

Spec == Init /\ [][Next]_ledger
=============================================================================
