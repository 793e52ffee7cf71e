---------------------------- MODULE VerifyStream ----------------------------
(***************************************************************************)
(* cmd/staking-verify's export verifier (VerifyStream and verifyRecord): it *)
(* reads an export line by line, checks chain, signature and replay of      *)
(* every record, and stops at the first failure.  Any number of pools may   *)
(* be interleaved in one export.                                            *)
(*                                                                         *)
(* Blank lines change nothing and are left out.  A refused record may leave *)
(* a pool half updated in the code; the whole summary is then dropped, so   *)
(* the model leaves the pools as they were.                                 *)
(***************************************************************************)
EXTENDS Replay

CONSTANTS
  Pools,      \* pool ids an export may name
  KeyIds,     \* ids of the signing keys; a key is named by its id (KeyIDFor)
  OptionSets  \* the command lines considered: records like those in Options

VARIABLES
  opts,      \* the run's Options; never changes
  pools,     \* Summary.Pools
  events,    \* Summary.Events
  unsigned,  \* Summary.Unsigned
  accepted,  \* history: the records accepted so far, per pool
  verdict    \* "reading" until the run ends

vars == <<opts, pools, events, unsigned, accepted, verdict>>

Failures == {"parse", "chain", "signature", "replay"}

Verdicts == {"reading", "ok"} \cup Failures

Windows == [pub : KeyIds, validFrom : Int, validTo : Int \cup {Absent}]

IsRegistry(r) == DOMAIN r \subseteq KeyIds /\ \A k \in DOMAIN r : r[k] \in Windows

\* hasRegistry says whether -registry was given.
IsOptions(o) ==
  /\ IsRegistry(o.registry)
  /\ {o.hasRegistry, o.allowUnsigned, o.collectLeaves, o.signingKnown, o.signingEnabled}
       \subseteq BOOLEAN
  /\ o.activeKeyID \in KeyIds \cup {Absent}

\* Names are strings or model values, and never the mark of a missing field.
ASSUME NamesAssumption == Absent \notin STRING /\ Absent \notin KeyIds /\ Absent \notin Pools

ASSUME OptionsAssumption == \A o \in OptionSets : IsOptions(o)

\* Everything ParseExportLine can return.
Entries ==
  [schema : Int, operator : STRING \cup {Absent}, pool : Pools,
   account : Accounts \cup {Absent}, type : STRING \cup {Absent},
   amount : Int \cup {Absent}, shares : Int \cup {Absent}, ts : Int \cup {Absent},
   payload : [PayloadKeys -> Int \cup {Absent, Malformed}]]

Hashes == Seq(Entries)

ExportRecords ==
  [seq : Int, entry : Entries, prevHash : Hashes, entryHash : Hashes,
   signature : [key : KeyIds \cup {Absent}, over : Hashes], keyId : KeyIds \cup {Absent}]

\* What the verifier keeps of a pool.
PoolStates ==
  [head : Hashes, events : Nat, lastSeq : Int, operator : STRING \cup {Absent},
   leaves : Seq(Hashes), total : Nat, accounts : [Accounts -> Nat],
   prevAssetsClose : Int, hasPrevEpoch : BOOLEAN, epochAssetDelta : Int]

-----------------------------------------------------------------------------
(* verifyRecord, check by check *)

\* Mutants of ChainOk: order of sequence numbers unchecked; the first record of the export,
\* instead of the pool, must start from genesis.
ChainOkUnordered(st, rec) ==
  /\ rec.entry.schema \in SchemaVersions
  /\ st.operator # Absent => rec.entry.operator = st.operator
  /\ rec.prevHash = IF st.events = 0 THEN Genesis ELSE st.head
  /\ Valid(rec.entry)
  /\ rec.entryHash = ChainEntry(rec.prevHash, rec.entry)

ChainOkOneLog(st, rec) ==
  /\ rec.entry.schema \in SchemaVersions
  /\ st.operator # Absent => rec.entry.operator = st.operator
  /\ IF events = 0 THEN rec.prevHash = Genesis ELSE rec.prevHash = st.head /\ st.events > 0
  /\ Valid(rec.entry)
  /\ rec.entryHash = ChainEntry(rec.prevHash, rec.entry)

ChainOk(st, rec) ==
  /\ rec.entry.schema \in SchemaVersions
  /\ st.operator # Absent => rec.entry.operator = st.operator
  /\ IF st.events = 0
     THEN rec.prevHash = Genesis
     ELSE rec.seq > st.lastSeq /\ rec.prevHash = st.head
  /\ Valid(rec.entry)
  /\ rec.entryHash = ChainEntry(rec.prevHash, rec.entry)

IsUnsigned(rec) == rec.signature = NoSignature

\* Mutant: the time of the entry is not considered.
SigningIsActive(o, rec) ==
  /\ o.signingKnown /\ o.signingEnabled /\ o.hasRegistry
  /\ o.activeKeyID \in DOMAIN o.registry

\* The registry says that its active key was already valid when this entry was made.
SigningWasActive(o, rec) ==
  /\ o.signingKnown /\ o.signingEnabled /\ o.hasRegistry
  /\ o.activeKeyID \in DOMAIN o.registry
  /\ rec.entry.ts >= o.registry[o.activeKeyID].validFrom

\* Mutant: the key resolves, and the signature itself is not verified.
SignatureOkByName(o, rec) ==
  IF IsUnsigned(rec)
  THEN ~SigningWasActive(o, rec) /\ o.allowUnsigned
  ELSE o.hasRegistry /\ Resolves(o.registry, rec.keyId, rec.entry.ts)

SignatureOk(o, rec) ==
  IF IsUnsigned(rec)
  THEN ~SigningWasActive(o, rec) /\ o.allowUnsigned
  ELSE /\ o.hasRegistry
       /\ Resolves(o.registry, rec.keyId, rec.entry.ts)
       /\ VerifyEntryHash(o.registry[rec.keyId].pub, rec.entryHash, rec.signature)

\* The first check the record fails, or "ok".
CheckRecord(o, st, rec) ==
  IF ~ChainOk(st, rec) THEN "chain"
  ELSE IF ~SignatureOk(o, rec) THEN "signature"
  ELSE IF ~CanReplay(st, rec.entry) THEN "replay"
  ELSE "ok"

Advanced(o, st, rec) ==
  [Replayed(st, rec.entry) EXCEPT
     !.head = rec.entryHash,
     !.lastSeq = rec.seq,
     !.events = @ + 1,
     !.operator = IF @ = Absent THEN rec.entry.operator ELSE @,
     !.leaves = IF o.collectLeaves THEN Append(@, rec.entryHash) ELSE @]

-----------------------------------------------------------------------------
(* VerifyStream *)

Init ==
  /\ opts \in OptionSets
  /\ pools = [p \in Pools |-> EmptyPool]
  /\ events = 0
  /\ unsigned = 0
  /\ accepted = [p \in Pools |-> <<>>]
  /\ verdict = "reading"

AcceptRecord(rec) ==
  LET p == rec.entry.pool
  IN  /\ verdict = "reading"
      /\ CheckRecord(opts, pools[p], rec) = "ok"
      /\ pools' = [pools EXCEPT ![p] = Advanced(opts, @, rec)]
      /\ events' = events + 1
      /\ unsigned' = IF IsUnsigned(rec) THEN unsigned + 1 ELSE unsigned
      /\ accepted' = [accepted EXCEPT ![p] = Append(@, rec)]
      /\ UNCHANGED <<opts, verdict>>

RefuseRecord(rec) ==
  /\ verdict = "reading"
  /\ CheckRecord(opts, pools[rec.entry.pool], rec) # "ok"
  /\ verdict' = CheckRecord(opts, pools[rec.entry.pool], rec)
  /\ UNCHANGED <<opts, pools, events, unsigned, accepted>>

\* A line ParseExportLine cannot parse, or a read error of the scanner.
RefuseLine ==
  /\ verdict = "reading"
  /\ verdict' = "parse"
  /\ UNCHANGED <<opts, pools, events, unsigned, accepted>>

\* End of the export: the final sum check of every pool.
EndOfExport ==
  /\ verdict = "reading"
  /\ verdict' = IF \A p \in Pools : AccountSumOk(pools[p]) THEN "ok" ELSE "replay"
  /\ UNCHANGED <<opts, pools, events, unsigned, accepted>>

VerifyRecord(rec) == AcceptRecord(rec) \/ RefuseRecord(rec)

Next ==
  \/ \E rec \in ExportRecords : VerifyRecord(rec)
  \/ RefuseLine
  \/ EndOfExport

Spec == Init /\ [][Next]_vars
=============================================================================
