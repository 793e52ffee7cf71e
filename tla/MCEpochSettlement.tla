-------------------------- MODULE MCEpochSettlement -------------------------
(* Small instance of EpochSettlement. *)
EXTENDS EpochSettlement

\* An unsigned development log: signatures are ExportFile's subject.
MCOptions ==
  {[hasRegistry |-> FALSE, registry |-> <<>>, allowUnsigned |-> TRUE,
    collectLeaves |-> FALSE, signingKnown |-> FALSE, signingEnabled |-> FALSE,
    activeKeyID |-> Absent]}

\* A losing, an idle and a winning epoch.
MCResults == {-2, 0, 3}
=============================================================================
