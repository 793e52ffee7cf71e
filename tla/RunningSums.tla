----------------------------- MODULE RunningSums ----------------------------
(***************************************************************************)
(* Sums of amounts as the loops of the code build them, value by value:     *)
(* checkAccountSum of cmd/staking-verify/verify.go over the accounts, and   *)
(* randPartition of sumtree_privacy.go over the weights and the parts.      *)
(***************************************************************************)
EXTENDS Integers

\* The sums of the first k values of f, for k up to n.
RunningSum(f, n) ==
  LET upTo[k \in 0 .. n] == IF k = 0 THEN 0 ELSE upTo[k - 1] + f[k]
  IN  upTo

SumTo(f, n) == RunningSum(f, n)[n]
=============================================================================
