------------------------ MODULE MCProofOfLiabilities ------------------------
(* Small instance of ProofOfLiabilities. *)
EXTENDS ProofOfLiabilities

\* A user without stake, another one and the house; and an account that is overdrawn.
MCInputSets == {<<0, 2, 4>>, <<2, -2, 0>>}

\* The second place stays or takes the first, the others take the one before.
MCDraws(i) == IF i = 2 THEN {1, 2} ELSE {i - 1}

\* A negative sum, none, half a unit and one unit.
MCSums == {-2, 0, 1, 2}
=============================================================================
