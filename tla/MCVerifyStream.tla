--------------------------- MODULE MCVerifyStream ---------------------------
(***************************************************************************)
(* Small instances of VerifyStream: the lines of the file are drawn from a  *)
(* set of entries, each as a record that extends the pool's chain, and as   *)
(* records that break it in one place.                                      *)
(***************************************************************************)
EXTENDS VerifyStreamProperties, TLC

CONSTANTS
  MaxShareEvents,  \* bound: records accepted of a log of share events
  MaxEpochEvents   \* bound: records accepted of a log of epochs

MCRegistry == "k1" :> [pub |-> "k1", validFrom |-> 1, validTo |-> 2]

MCOption ==
  [hasRegistry |-> TRUE, registry |-> MCRegistry, allowUnsigned |-> TRUE,
   collectLeaves |-> TRUE, signingKnown |-> FALSE, signingEnabled |-> FALSE,
   activeKeyID |-> Absent]

MCBoth == {MCOption, [MCOption EXCEPT !.allowUnsigned = FALSE]}

BlankEntry(p, type) ==
  [schema |-> 1, operator |-> "op1", pool |-> p, account |-> Absent, type |-> type,
   amount |-> Absent, shares |-> Absent, ts |-> 1, payload |-> NoPayload]

\* The record that carries e next in its pool's chain, signed by k1.
Extending(e) ==
  LET st   == pools[e.pool]
      hash == ChainEntry(st.head, e)
  IN  [seq |-> st.lastSeq + 1, entry |-> e, prevHash |-> st.head, entryHash |-> hash,
       signature |-> SignEntryHash("k1", hash), keyId |-> "k1"]

Unsigned(rec) == [rec EXCEPT !.signature = NoSignature, !.keyId = Absent]

\* The same record broken in one place, its hash rebuilt where that hides the break.
Broken(rec) ==
  LET st == pools[rec.entry.pool]
      other(e) == [rec EXCEPT !.entry = e, !.entryHash = ChainEntry(rec.prevHash, e)]
  IN  {[rec EXCEPT !.seq = st.lastSeq], [rec EXCEPT !.prevHash = Genesis],
       [rec EXCEPT !.entryHash = Append(@, rec.entry)], [rec EXCEPT !.keyId = "k2"]}
        \cup {Unsigned(other([rec.entry EXCEPT !.operator = "op2"])),
              Unsigned(other([rec.entry EXCEPT !.operator = Absent])),
              Unsigned(other([rec.entry EXCEPT !.schema = 3])),
              other([rec.entry EXCEPT !.ts = 2])}

-----------------------------------------------------------------------------
(* Share events: every type, with and without shares and account. *)

MCShareEvents(p, st) ==
  LET with(t, a, n) == [BlankEntry(p, t) EXCEPT !.account = a, !.shares = n]
  IN  {with("STAKE", 1, 1), with("STAKE", 1, Absent), with("STAKE", Absent, 1),
       with("FEE_MINT", 2, 1), with("FEE_MINT", 2, Absent), with("CAPITAL_MINT", 2, 2),
       with("UNSTAKE_BURN", 1, 1), with("CAPITAL_BURN", 2, 1), with("WRITE_DOWN", 1, 2),
       with("UNSTAKE_BURN", Absent, 1), with("WRITE_DOWN", 1, -1),
       with("RECAPITALIZE", Absent, Absent), with("POLICY_CHANGE", Absent, 1),
       with("NEWER_TYPE", Absent, Absent)}
        \cup {[BlankEntry(p, "STAKE") EXCEPT !.amount = -1]}
        \cup {[BlankEntry(p, "EPOCH") EXCEPT !.payload["shares_close"] = n]
                : n \in {st.total, st.total + 1, Absent, Malformed}}

-----------------------------------------------------------------------------
(* Epochs: stakes and redemptions that move assets, and epoch closes. *)

MCPayload(st, open, ggr, cap, fee, sharesOpen) ==
  LET base == [NoPayload EXCEPT !["shares_close"] = st.total, !["assets_open"] = open,
                 !["ggr"] = ggr, !["cap_net"] = cap, !["fee"] = fee,
                 !["shares_open"] = sharesOpen]
      paid == [base EXCEPT !["fee_shares"] = WantFeeShares(base),
                 !["assets_close"] = AssetsMid(base) + st.epochAssetDelta]
  IN  IF sharesOpen + paid["fee_shares"] > 0
      THEN [paid EXCEPT !["price"] =
              DivRound(AssetsMid(paid), sharesOpen + paid["fee_shares"])]
      ELSE [paid EXCEPT !["price"] = 0]

\* A schema 2 payload that is right throughout, and with one field off by one or missing.
MCPayloads(st) ==
  LET opens == {3, st.prevAssetsClose}
      right == {MCPayload(st, open, ggr, 1, fee, 3) :
                  open \in opens, ggr \in {-2, 2}, fee \in {0, 1}}
  IN  right
        \cup {[q EXCEPT ![k] = @ + 1] : q \in right,
                k \in {"fee_shares", "price", "assets_close", "shares_close"}}
        \cup {[q EXCEPT ![k] = Malformed] : q \in right, k \in {"cap_net", "assets_close"}}

MCEpochEvents(p, st) ==
  LET moves(t, n, amt) ==
        [BlankEntry(p, t) EXCEPT !.account = 1, !.shares = n, !.amount = amt]
      epoch(v, q) == [BlankEntry(p, "EPOCH") EXCEPT !.schema = v, !.payload = q]
  IN  {moves("STAKE", 1, 3), moves("UNSTAKE_BURN", 1, 1)}
        \cup {epoch(2, q) : q \in MCPayloads(st)}
        \cup {epoch(1, [NoPayload EXCEPT !["shares_close"] = st.total, !["assets_close"] = c])
                : c \in {Malformed, 3}}

-----------------------------------------------------------------------------
(* One kind of log for each kind of reader: share events for the one who takes unsigned *)
(* records, epochs for the one who does not. *)

LineEntries(p, st) ==
  IF opts.allowUnsigned THEN MCShareEvents(p, st) ELSE MCEpochEvents(p, st)

MaxEvents == IF opts.allowUnsigned THEN MaxShareEvents ELSE MaxEpochEvents

MCLine(rec) ==
  /\ events < MaxEvents
  /\ VerifyRecord(rec)

MCExtend ==
  \E p \in Pools : \E e \in LineEntries(p, pools[p]) :
    MCLine(Extending(e)) \/ MCLine(Unsigned(Extending(e)))

MCBreak ==
  \E p \in Pools : \E e \in LineEntries(p, pools[p]) :
    \E rec \in Broken(Extending(e)) : MCLine(rec)

MCNext == MCExtend \/ MCBreak \/ RefuseLine \/ EndOfExport

MCSpec == Init /\ [][MCNext]_vars
=============================================================================
