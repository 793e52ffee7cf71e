---------------------------- MODULE MCExportFile ----------------------------
(* Small instances of ExportFile. *)
EXTENDS ExportFileProperties, TLC

\* Signing starts at time 2 with k1 and rotates to k2 at time 3.
MCPublished ==
  "k1" :> [pub |-> "k1", validFrom |-> 2, validTo |-> 3]
  @@ "k2" :> [pub |-> "k2", validFrom |-> 3, validTo |-> Absent]

\* A registry document fetched before the rotation.
MCOldRegistry == "k1" :> [pub |-> "k1", validFrom |-> 2, validTo |-> Absent]

MCOwner == [p \in Pools |-> "op1"]

MCOption(registry, allow, known, active) ==
  [hasRegistry |-> TRUE, registry |-> registry, allowUnsigned |-> allow,
   collectLeaves |-> FALSE, signingKnown |-> known, signingEnabled |-> known,
   activeKeyID |-> active]

MCNoRegistry ==
  [MCOption(MCPublished, TRUE, FALSE, Absent) EXCEPT !.hasRegistry = FALSE]

MCStrict  == {MCOption(MCPublished, FALSE, FALSE, Absent)}
MCOptions ==
  MCStrict \cup {MCNoRegistry,
                 MCOption(MCPublished, TRUE, TRUE, "k2"),
                 MCOption(MCPublished, TRUE, FALSE, Absent),
                 MCOption(MCOldRegistry, TRUE, TRUE, "k1")}

\* One alternative for each field an export line carries.
MCFieldEdits(e) ==
  {[e EXCEPT !.ts = IF @ = 1 THEN 3 ELSE 1], [e EXCEPT !.operator = "op2"],
   [e EXCEPT !.schema = 3], [e EXCEPT !.type = "NEWER_TYPE"]}
    \cup (IF e.shares = Absent THEN {} ELSE {[e EXCEPT !.shares = @ + SubScale]})
    \cup (IF e.account = Absent THEN {}
          ELSE {[e EXCEPT !.account = a] : a \in Accounts \ {e.account}})
    \cup {[e EXCEPT !.pool = p] : p \in Pools \ {e.pool}}

\* The last digits of an amount, below the canonical scale.
MCSubScaleEdits(e) ==
  IF e.shares = Absent THEN {} ELSE {[e EXCEPT !.shares = @ + d] : d \in {-1, 1}}

MCAllEdits(e) == MCFieldEdits(e) \cup MCSubScaleEdits(e)
=============================================================================
