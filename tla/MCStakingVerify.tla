-------------------------- MODULE MCStakingVerify ---------------------------
(* Small instance of StakingVerify. *)
EXTENDS StakingVerify

\* Every choice of options, with no argument, one or two.
MCCommandLines == [given : SUBSET (Inputs \ {"export"}), args : 0 .. 2]

\* The log of p1 reached both roots, the one of p2 the first of them.
MCLogHeads == {<<"p1", "r1">>, <<"p1", "r2">>, <<"p2", "r1">>}
=============================================================================
