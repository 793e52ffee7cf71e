------------------------- MODULE VerifyStream_proofs ------------------------
(***************************************************************************)
(* For any number of pools and accounts, any registry and any file: the     *)
(* verifier keeps its types, its balances sum to its totals, its replay is  *)
(* a ledger of shares, what it has accepted of a pool is one unbroken chain *)
(* from genesis, of one operator, in sequence order, and the balances, the  *)
(* assets and the fee shares are those the accepted history accounts for.   *)
(*                                                                          *)
(* From "Types of what the operator writes" on, against the log that was    *)
(* written, for any mirror that cannot sign: one genuine signature vouches  *)
(* for the whole log before it, what was replayed up to it is the books of  *)
(* the operator but for rounding, and an export nobody altered is not       *)
(* refused.  The last section is about the log of an epoch settlement.      *)
(***************************************************************************)
EXTENDS ExportFileProperties, VerifyStreamProperties, EpochSettlement, IntervalLemmas

-----------------------------------------------------------------------------
(* Sums over all accounts: one bounds each non-negative balance, and it moves *)
(* with a balance that moves.                                                 *)

\* The same of a sum over all accounts.
LEMMA AccountSums ==
  ASSUME NEW f \in [Accounts -> Int]
  PROVE  /\ RunningSum(f, NumAccounts) \in [0 .. NumAccounts -> Int]
         /\ RunningSum(f, NumAccounts)[0] = 0
         /\ \A i \in Accounts :
              RunningSum(f, NumAccounts)[i] = RunningSum(f, NumAccounts)[i - 1] + f[i]
BY RunningSumDef, NumAccountsAssumption DEF Accounts

\* The empty ledger sums to zero.
LEMMA SumZero == SumAccounts([a \in Accounts |-> 0]) = 0
BY SumOfZeros, NumAccountsAssumption DEF SumAccounts, Accounts

\* Moving one balance by d moves the sum by d.
LEMMA SumUpdate ==
  ASSUME NEW f \in [Accounts -> Int], NEW a \in Accounts, NEW d \in Int
  PROVE  SumAccounts([f EXCEPT ![a] = @ + d]) = SumAccounts(f) + d
<1> DEFINE g == [f EXCEPT ![a] = @ + d]
<1>1. /\ a \in 1 .. NumAccounts
      /\ \A k \in 1 .. NumAccounts : f[k] \in Int /\ g[k] \in Int
      /\ \A k \in 1 .. NumAccounts : k # a => g[k] = f[k]
      /\ g[a] - f[a] = d
  BY DEF Accounts
<1> HIDE DEF g
<1>2. SumTo(g, NumAccounts) = SumTo(f, NumAccounts) + (g[a] - f[a])
  BY <1>1, SumChanged, NumAccountsAssumption
<1> QED BY <1>1, <1>2 DEF SumAccounts, g

\* No balance exceeds the sum of non-negative balances.
LEMMA SumBoundsBalance ==
  ASSUME NEW f \in [Accounts -> Nat], NEW a \in Accounts
  PROVE  f[a] <= SumAccounts(f)
<1> DEFINE p == RunningSum(f, NumAccounts)
           S == {i \in 0 .. NumAccounts : p[i] >= 0 /\ (i >= a => f[a] <= p[i])}
<1>1. /\ p \in [0 .. NumAccounts -> Int] /\ p[0] = 0
      /\ \A i \in Accounts : p[i] = p[i - 1] + f[i]
  BY AccountSums
<1>2. a \in Nat /\ a >= 1 /\ a <= NumAccounts /\ f[a] \in Nat
  BY NumAccountsAssumption DEF Accounts
<1> HIDE DEF p
<1>3. 0 \in S
  <2>1. p[0] >= 0 /\ ~ (0 >= a) /\ 0 \in 0 .. NumAccounts
    BY <1>1, <1>2, NumAccountsAssumption
  <2> QED BY <2>1
<1>4. ASSUME NEW i \in 1 .. NumAccounts, i - 1 \in S PROVE i \in S
  <2>1. /\ i \in Accounts /\ i \in 0 .. NumAccounts /\ i \in Int
        /\ f[i] \in Nat /\ p[i - 1] \in Int
    BY <1>1, NumAccountsAssumption DEF Accounts
  <2>2. p[i - 1] >= 0 /\ (i - 1 >= a => f[a] <= p[i - 1])
    BY <1>4
  <2>3. p[i] = p[i - 1] + f[i]
    BY <1>1, <2>1
  <2>4. CASE i = a
    BY <1>2, <2>1, <2>2, <2>3, <2>4
  <2>5. CASE i # a
    BY <1>2, <2>1, <2>2, <2>3, <2>5
  <2> QED BY <2>4, <2>5
<1>5. NumAccounts \in S
  <2>1. NumAccounts \in 0 .. NumAccounts
    BY NumAccountsAssumption
  <2> HIDE DEF S
  <2> QED BY <1>3, <1>4, <2>1, IntervalInduction, NumAccountsAssumption
<1> QED BY <1>2, <1>5 DEF SumAccounts, SumTo, p

-----------------------------------------------------------------------------
(* What one event may do to one pool *)

\* s is st, up to fields that are not shares, after at most one balance moved.
Moves(st, s) ==
  /\ s \in PoolStates
  /\ \/ s.accounts = st.accounts /\ s.total = st.total
     \/ \E a \in Accounts, d \in Int :
          /\ s.accounts = [st.accounts EXCEPT ![a] = @ + d]
          /\ s.total = st.total + d

\* A move takes the sum of the balances along with the total.
LEMMA MovesKeepSum ==
  ASSUME NEW st \in PoolStates, NEW s, Moves(st, s), SumAccounts(st.accounts) = st.total
  PROVE  SumAccounts(s.accounts) = s.total
<1>1. st.accounts \in [Accounts -> Int]
  BY DEF PoolStates
<1>2. CASE s.accounts = st.accounts /\ s.total = st.total
  BY <1>2
<1>3. CASE \E a \in Accounts, d \in Int :
             /\ s.accounts = [st.accounts EXCEPT ![a] = @ + d]
             /\ s.total = st.total + d
  BY <1>1, <1>3, SumUpdate
<1> QED BY <1>2, <1>3 DEF Moves

\* A mint adds the shares to one balance and to the total.
LEMMA MintedMoves ==
  ASSUME NEW st \in PoolStates, NEW e \in Entries, NamesShares(e), NonNegative(e.shares)
  PROVE  Moves(st, Minted(st, e))
<1>1. e.account \in Accounts /\ e.shares \in Nat
  BY DEF NamesShares, NonNegative, Entries
<1>2. st.accounts \in [Accounts -> Nat] /\ st.total \in Nat
  BY DEF PoolStates
<1> DEFINE accounts == [st.accounts EXCEPT ![e.account] = @ + e.shares]
           total    == st.total + e.shares
<1>3. accounts \in [Accounts -> Nat] /\ total \in Nat
  BY <1>1, <1>2
<1>4. Minted(st, e) = [st EXCEPT !.accounts = accounts, !.total = total]
  BY DEF Minted
<1>5. Minted(st, e) \in PoolStates
  <2> HIDE DEF accounts, total
  <2> QED BY <1>3, <1>4 DEF PoolStates
<1>6. Minted(st, e).accounts = accounts /\ Minted(st, e).total = total
  <2> HIDE DEF accounts, total
  <2> QED BY <1>4 DEF PoolStates
<1>7. e.shares \in Int
  BY <1>1
<1> QED BY <1>1, <1>5, <1>6, <1>7 DEF Moves

\* A burn takes them off both, and the guards keep both from falling below zero.
LEMMA BurnedMoves ==
  ASSUME NEW st \in PoolStates, NEW e \in Entries, CanBurn(st, e), NonNegative(e.shares)
  PROVE  Moves(st, Burned(st, e))
<1>1. e.account \in Accounts /\ e.shares \in Nat
  BY DEF CanBurn, NamesShares, NonNegative, Entries
<1>2. st.accounts \in [Accounts -> Nat] /\ st.total \in Nat
  BY DEF PoolStates
<1>3. st.accounts[e.account] - e.shares \in Nat /\ st.total - e.shares \in Nat
  BY <1>1, <1>2 DEF CanBurn
<1> DEFINE accounts == [st.accounts EXCEPT ![e.account] = @ - e.shares]
           total    == st.total - e.shares
           d        == - e.shares
<1>4. accounts \in [Accounts -> Nat] /\ total \in Nat
  BY <1>1, <1>2, <1>3
<1>5. Burned(st, e) = [st EXCEPT !.accounts = accounts, !.total = total]
  BY DEF Burned
<1>6. Burned(st, e) \in PoolStates
  <2> HIDE DEF accounts, total
  <2> QED BY <1>4, <1>5 DEF PoolStates
<1>7. Burned(st, e).accounts = accounts /\ Burned(st, e).total = total
  <2> HIDE DEF accounts, total
  <2> QED BY <1>5 DEF PoolStates
<1>8. /\ d \in Int
      /\ accounts = [st.accounts EXCEPT ![e.account] = @ + d]
      /\ total = st.total + d
  BY <1>1, <1>2
<1> HIDE DEF accounts, total, d
<1> QED BY <1>1, <1>6, <1>7, <1>8 DEF Moves

\* An epoch close moves no shares.
LEMMA ClosedMoves ==
  ASSUME NEW st \in PoolStates, NEW e \in Entries
  PROVE  Moves(st, Closed(st, e))
<1>1. e.payload["assets_close"] \in Int \cup {Absent, Malformed}
  BY DEF Entries, PayloadKeys
<1> DEFINE close == e.payload["assets_close"]
           kept  == IF IsAmount(close) THEN close ELSE st.prevAssetsClose
           has   == st.hasPrevEpoch \/ IsAmount(close)
           none  == 0
<1>2. kept \in Int /\ has \in BOOLEAN /\ none \in Int
  BY <1>1 DEF PoolStates, IsAmount
<1>3. Closed(st, e) = [st EXCEPT !.prevAssetsClose = kept, !.hasPrevEpoch = has,
                                 !.epochAssetDelta = none]
  BY DEF Closed
<1> HIDE DEF kept, has, none
<1>4. Closed(st, e) \in PoolStates
  BY <1>2, <1>3 DEF PoolStates
<1>5. Closed(st, e).accounts = st.accounts /\ Closed(st, e).total = st.total
  BY <1>3 DEF PoolStates
<1> QED BY <1>4, <1>5 DEF Moves

\* Booking an amount against the running epoch moves no shares.
LEMMA DeltaMoves ==
  ASSUME NEW st, NEW s, Moves(st, s), NEW d \in Int
  PROVE  Moves(st, [s EXCEPT !.epochAssetDelta = d])
<1>1. s \in PoolStates
  BY DEF Moves
<1>2. [s EXCEPT !.epochAssetDelta = d] \in PoolStates
  BY <1>1 DEF PoolStates
<1>3. /\ [s EXCEPT !.epochAssetDelta = d].accounts = s.accounts
      /\ [s EXCEPT !.epochAssetDelta = d].total = s.total
  BY <1>1 DEF PoolStates
<1> QED BY <1>2, <1>3 DEF Moves

\* Every event that replays is a move.
LEMMA ReplayedMoves ==
  ASSUME NEW st \in PoolStates, NEW e \in Entries, CanReplay(st, e)
  PROVE  Moves(st, Replayed(st, e))
<1>1. AmountOf(e) \in Int
  BY DEF AmountOf, Entries
<1>2. NonNegative(e.shares)
  BY DEF CanReplay
<1>3. ASSUME NEW s, Moves(st, s)
      PROVE  s.epochAssetDelta + AmountOf(e) \in Int /\ s.epochAssetDelta - AmountOf(e) \in Int
  <2>1. s.epochAssetDelta \in Int
    BY <1>3 DEF Moves, PoolStates
  <2> QED BY <1>1, <2>1
<1>4. CASE e.type = "STAKE" /\ e.shares # Absent
  <2>1. Moves(st, Minted(st, e))
    BY <1>2, <1>4, MintedMoves DEF CanReplay, MintTypes, BurnTypes, QuietTypes
  <2>2. Replayed(st, e) = [Minted(st, e) EXCEPT !.epochAssetDelta = @ + AmountOf(e)]
    BY <1>4 DEF Replayed, MintTypes, BurnTypes
  <2> QED BY <1>3, <2>1, <2>2, DeltaMoves
<1>5. CASE e.type \in MintTypes
  <2>1. Moves(st, Minted(st, e))
    BY <1>2, <1>5, MintedMoves DEF CanReplay, MintTypes, BurnTypes, QuietTypes
  <2>2. Replayed(st, e) = Minted(st, e)
    BY <1>5 DEF Replayed, MintTypes, BurnTypes
  <2> QED BY <2>1, <2>2
<1>6. CASE e.type = "UNSTAKE_BURN"
  <2>1. Moves(st, Burned(st, e))
    BY <1>2, <1>6, BurnedMoves DEF CanReplay, MintTypes, BurnTypes, QuietTypes
  <2>2. Replayed(st, e) = [Burned(st, e) EXCEPT !.epochAssetDelta = @ - AmountOf(e)]
    BY <1>6 DEF Replayed, MintTypes, BurnTypes
  <2> QED BY <1>3, <2>1, <2>2, DeltaMoves
<1>7. CASE e.type \in BurnTypes \ {"UNSTAKE_BURN"}
  <2>1. Moves(st, Burned(st, e))
    BY <1>2, <1>7, BurnedMoves DEF CanReplay, MintTypes, BurnTypes, QuietTypes
  <2>2. Replayed(st, e) = Burned(st, e)
    BY <1>7 DEF Replayed, MintTypes, BurnTypes
  <2> QED BY <2>1, <2>2
<1>8. CASE e.type = "EPOCH"
  <2>1. Replayed(st, e) = Closed(st, e)
    BY <1>8 DEF Replayed, MintTypes, BurnTypes
  <2> QED BY <2>1, ClosedMoves
<1>9. CASE ~ (e.type = "STAKE" /\ e.shares # Absent) /\ e.type \notin MintTypes
           /\ e.type \notin BurnTypes /\ e.type # "EPOCH"
  <2>1. Replayed(st, e) = st
    BY <1>9 DEF Replayed, BurnTypes
  <2> QED BY <2>1 DEF Moves
<1> QED BY <1>4, <1>5, <1>6, <1>7, <1>8, <1>9

\* Chain bookkeeping moves no shares either.
LEMMA AdvancedMoves ==
  ASSUME NEW o, NEW st \in PoolStates, NEW rec \in ExportRecords, CanReplay(st, rec.entry)
  PROVE  Moves(st, Advanced(o, st, rec))
<1> DEFINE s == Replayed(st, rec.entry)
<1>1. rec.entry \in Entries /\ rec.entryHash \in Hashes /\ rec.seq \in Int
  BY DEF ExportRecords
<1>2. Moves(st, s)
  BY <1>1, ReplayedMoves
<1>3. s \in PoolStates
  BY <1>2 DEF Moves
<1> DEFINE operator == IF s.operator = Absent THEN rec.entry.operator ELSE s.operator
           leaves   == IF o.collectLeaves THEN Append(s.leaves, rec.entryHash) ELSE s.leaves
           n        == s.events + 1
<1> HIDE DEF s
<1>4. operator \in STRING \cup {Absent}
  BY <1>1, <1>3 DEF PoolStates, Entries
<1>5. leaves \in Seq(Hashes)
  <2>1. s.leaves \in Seq(Hashes)
    BY <1>3 DEF PoolStates
  <2>2. Append(s.leaves, rec.entryHash) \in Seq(Hashes)
    BY <1>1, <2>1
  <2> QED BY <2>1, <2>2
<1>6. n \in Nat
  BY <1>3 DEF PoolStates
<1>7. Advanced(o, st, rec) = [s EXCEPT !.head = rec.entryHash, !.lastSeq = rec.seq,
                                !.events = n, !.operator = operator, !.leaves = leaves]
  BY DEF Advanced, s
<1> HIDE DEF operator, leaves, n
<1>8. Advanced(o, st, rec) \in PoolStates
  BY <1>1, <1>3, <1>4, <1>5, <1>6, <1>7 DEF PoolStates
<1>9. /\ Advanced(o, st, rec).accounts = s.accounts
      /\ Advanced(o, st, rec).total = s.total
  BY <1>3, <1>7 DEF PoolStates
<1> QED BY <1>2, <1>8, <1>9 DEF Moves

-----------------------------------------------------------------------------
(* The invariant *)

\* A new pool is well typed and empty.
LEMMA EmptyPoolMoves ==
  EmptyPool \in PoolStates /\ SumAccounts(EmptyPool.accounts) = EmptyPool.total
<1>1. <<>> \in Hashes /\ <<>> \in Seq(Hashes)
  BY DEF Hashes
<1>2. EmptyPool \in PoolStates
  BY <1>1 DEF EmptyPool, PoolStates, Genesis
<1> QED BY <1>2, SumZero DEF EmptyPool

\* AcceptRecord's guard, and what it says of the record.
LEMMA AcceptedReplays ==
  ASSUME NEW o, NEW st, NEW rec, CheckRecord(o, st, rec) = "ok"
  PROVE  ChainOk(st, rec) /\ SignatureOk(o, rec) /\ CanReplay(st, rec.entry)
BY DEF CheckRecord

\* CheckRecord returns a verdict.
LEMMA CheckRecordType ==
  ASSUME NEW o, NEW st, NEW rec
  PROVE  CheckRecord(o, st, rec) \in Verdicts
BY DEF CheckRecord, Verdicts, Failures

Inv == TypeOK /\ BalancesSumToTotal

\* Empty pools are typed and balanced.
LEMMA InitInv == Init => Inv
<1> SUFFICES ASSUME Init PROVE Inv
  OBVIOUS
<1>1. pools \in [Pools -> PoolStates]
  BY EmptyPoolMoves DEF Init
<1>2. accepted \in [Pools -> Seq(ExportRecords)]
  BY DEF Init
<1>3. BalancesSumToTotal
  BY EmptyPoolMoves DEF Init, BalancesSumToTotal
<1> QED BY <1>1, <1>2, <1>3 DEF Init, Inv, TypeOK, Verdicts

\* One accepted record moves one pool.
LEMMA AcceptMoves ==
  ASSUME Inv, NEW rec \in ExportRecords, AcceptRecord(rec)
  PROVE  \E p \in Pools, s \in PoolStates :
           Moves(pools[p], s) /\ pools' = [pools EXCEPT ![p] = s]
<1> DEFINE p == rec.entry.pool
<1>1. p \in Pools
  BY DEF ExportRecords, Entries
<1>2. pools[p] \in PoolStates
  BY <1>1 DEF Inv, TypeOK
<1>3. CanReplay(pools[p], rec.entry)
  BY AcceptedReplays DEF AcceptRecord
<1>4. Moves(pools[p], Advanced(opts, pools[p], rec))
  BY <1>2, <1>3, AdvancedMoves
<1>5. pools' = [pools EXCEPT ![p] = Advanced(opts, pools[p], rec)]
  BY DEF AcceptRecord
<1> QED BY <1>1, <1>4, <1>5 DEF Moves

\* Every step of the verifier keeps types and sums.
LEMMA NextInv == Inv /\ [Next]_vars => Inv'
<1> SUFFICES ASSUME Inv, [Next]_vars PROVE Inv'
  OBVIOUS
<1>1. ASSUME NEW rec \in ExportRecords, AcceptRecord(rec) PROVE Inv'
  <2>1. PICK p \in Pools, s \in PoolStates : Moves(pools[p], s) /\ pools' = [pools EXCEPT ![p] = s]
    BY <1>1, AcceptMoves
  <2>2. pools \in [Pools -> PoolStates] /\ s \in PoolStates
    BY <2>1 DEF Inv, TypeOK, Moves
  <2>3. pools' \in [Pools -> PoolStates]
    BY <2>1, <2>2
  <2>4. accepted' \in [Pools -> Seq(ExportRecords)]
    <3>1. rec.entry.pool \in Pools
      BY DEF ExportRecords, Entries
    <3>2. accepted[rec.entry.pool] \in Seq(ExportRecords)
      BY <3>1 DEF Inv, TypeOK
    <3>3. Append(accepted[rec.entry.pool], rec) \in Seq(ExportRecords)
      BY <3>2
    <3> QED BY <1>1, <3>1, <3>3 DEF AcceptRecord, Inv, TypeOK
  <2>5. events' \in Nat /\ unsigned' \in 0 .. events'
    BY <1>1 DEF AcceptRecord, Inv, TypeOK
  <2>6. TypeOK'
    BY <1>1, <2>3, <2>4, <2>5 DEF AcceptRecord, Inv, TypeOK
  <2>7. SumAccounts(s.accounts) = s.total
    BY <2>1, <2>2, MovesKeepSum DEF Inv, BalancesSumToTotal
  <2>8. BalancesSumToTotal'
    BY <2>1, <2>2, <2>7 DEF Inv, BalancesSumToTotal
  <2> QED BY <2>6, <2>8 DEF Inv
<1>2. ASSUME NEW rec \in ExportRecords, RefuseRecord(rec) PROVE Inv'
  <2>1. verdict' \in Verdicts
    BY <1>2, CheckRecordType DEF RefuseRecord
  <2> QED BY <1>2, <2>1 DEF RefuseRecord, Inv, TypeOK, BalancesSumToTotal
<1>3. CASE RefuseLine
  BY <1>3 DEF RefuseLine, Inv, TypeOK, BalancesSumToTotal, Verdicts, Failures
<1>4. CASE EndOfExport
  <2>1. verdict' \in Verdicts
    BY <1>4 DEF EndOfExport, Verdicts, Failures
  <2> QED BY <1>4, <2>1 DEF EndOfExport, Inv, TypeOK, BalancesSumToTotal
<1>5. CASE UNCHANGED vars
  BY <1>5 DEF vars, Inv, TypeOK, BalancesSumToTotal
<1> QED BY <1>1, <1>2, <1>3, <1>4, <1>5 DEF Next, VerifyRecord

\* The verifier keeps its types.
THEOREM TypeCorrect == Spec => []TypeOK
<1>1. Inv => TypeOK
  BY DEF Inv
<1> QED BY <1>1, InitInv, NextInv, PTL DEF Spec

\* docs/SPEC.md 7.1, for every file: a pool's balances always sum to its total, so the sum
\* checks at EPOCH and at the end of the export never fire on their own.
THEOREM BalancesAlwaysSum == Spec => []BalancesSumToTotal
<1>1. Inv => BalancesSumToTotal
  BY DEF Inv
<1> QED BY <1>1, InitInv, NextInv, PTL DEF Spec

-----------------------------------------------------------------------------
(* Replay implements the share ledger *)

\* Empty pools are an empty ledger.
LEMMA LedgerInit == Init => Ledger!Init
BY DEF Init, Ledger!Init, EmptyPool

\* A step of the verifier moves shares as the ledger does, or moves none.
LEMMA LedgerNext ==
  Inv /\ [Next]_vars => [Ledger!Next]_(Ledger!ledger)
<1> SUFFICES ASSUME Inv, [Next]_vars PROVE Ledger!Next \/ UNCHANGED Ledger!ledger
  OBVIOUS
<1>1. ASSUME NEW rec \in ExportRecords, AcceptRecord(rec)
      PROVE  Ledger!Next \/ UNCHANGED Ledger!ledger
  <2>1. PICK p \in Pools, s \in PoolStates : Moves(pools[p], s) /\ pools' = [pools EXCEPT ![p] = s]
    BY <1>1, AcceptMoves
  <2>2. pools \in [Pools -> PoolStates] /\ s \in PoolStates
    BY <2>1 DEF Inv, TypeOK, Moves
  <2> DEFINE holding == [q \in Pools |-> pools[q].accounts]
             supply  == [q \in Pools |-> pools[q].total]
  <2>3. /\ holding' = [holding EXCEPT ![p] = s.accounts]
        /\ supply' = [supply EXCEPT ![p] = s.total]
    BY <2>1, <2>2
  <2>4. /\ holding[p] = pools[p].accounts /\ supply[p] = pools[p].total
        /\ holding'[p] = s.accounts /\ supply'[p] = s.total
    BY <2>3
  <2>5. CASE s.accounts = pools[p].accounts /\ s.total = pools[p].total
    <3>1. holding' = holding /\ supply' = supply
      BY <2>3, <2>4, <2>5
    <3> QED BY <3>1 DEF Ledger!ledger
  <2>6. CASE \E a \in Accounts, d \in Int :
               /\ s.accounts = [pools[p].accounts EXCEPT ![a] = @ + d]
               /\ s.total = pools[p].total + d
    <3>1. PICK a \in Accounts, d \in Int :
            /\ s.accounts = [pools[p].accounts EXCEPT ![a] = @ + d]
            /\ s.total = pools[p].total + d
      BY <2>6
    <3>2. /\ pools[p].accounts \in [Accounts -> Nat] /\ pools[p].total \in Nat
          /\ s.accounts \in [Accounts -> Nat] /\ s.total \in Nat
      BY <2>2 DEF PoolStates
    <3>3. holding'[p][a] - holding[p][a] = d
      BY <2>4, <3>1, <3>2
    <3>4. holding' = [holding EXCEPT ![p][a] = @ + d]
      BY <2>3, <2>4, <3>1
    <3>5. supply' = [supply EXCEPT ![p] = @ + d]
      BY <2>3, <2>4, <3>1
    <3>6. 0 <= holding'[p][a] /\ 0 <= supply'[p]
      BY <2>4, <3>2
    <3>7. CASE d >= 0
      <4>1. Ledger!Issue(p, a)
        BY <3>3, <3>4, <3>5, <3>7 DEF Ledger!Issue, Ledger!Moved
      <4> QED BY <4>1 DEF Ledger!Next
    <3>8. CASE d < 0
      <4>1. Ledger!Redeem(p, a)
        BY <3>3, <3>4, <3>5, <3>6, <3>8 DEF Ledger!Redeem, Ledger!Moved
      <4> QED BY <4>1 DEF Ledger!Next
    <3> QED BY <3>7, <3>8
  <2> QED BY <2>1, <2>5, <2>6 DEF Moves
<1>2. ASSUME UNCHANGED pools PROVE UNCHANGED Ledger!ledger
  BY <1>2 DEF Ledger!ledger
<1> QED BY <1>1, <1>2 DEF Next, VerifyRecord, RefuseRecord, RefuseLine, EndOfExport, vars

\* Replay is a ledger of shares: every record of every file issues shares to one account of
\* one pool, or redeems shares that the account holds, or leaves all balances alone.
THEOREM ReplayImplementsLedger == Spec => ReplaysShareLedger
<1> QED BY LedgerInit, LedgerNext, InitInv, NextInv, PTL DEF Spec, ReplaysShareLedger, Ledger!Spec

-----------------------------------------------------------------------------
(* Replay leaves the fields of the chain alone *)

\* s and st agree on what the chain checks of the next record read, up to the two fields
\* that Advanced overwrites.
SameChain(st, s) ==
  s \in PoolStates /\ s.events = st.events /\ s.operator = st.operator

\* A mint touches balances only.
LEMMA MintedSameChain ==
  ASSUME NEW st \in PoolStates, NEW e, Minted(st, e) \in PoolStates
  PROVE  SameChain(st, Minted(st, e))
<1> DEFINE accounts == [st.accounts EXCEPT ![e.account] = @ + e.shares]
           total    == st.total + e.shares
<1>1. Minted(st, e) = [st EXCEPT !.accounts = accounts, !.total = total]
  BY DEF Minted
<1> HIDE DEF accounts, total
<1> QED BY <1>1 DEF SameChain, PoolStates

\* So does a burn.
LEMMA BurnedSameChain ==
  ASSUME NEW st \in PoolStates, NEW e, Burned(st, e) \in PoolStates
  PROVE  SameChain(st, Burned(st, e))
<1> DEFINE accounts == [st.accounts EXCEPT ![e.account] = @ - e.shares]
           total    == st.total - e.shares
<1>1. Burned(st, e) = [st EXCEPT !.accounts = accounts, !.total = total]
  BY DEF Burned
<1> HIDE DEF accounts, total
<1> QED BY <1>1 DEF SameChain, PoolStates

\* An epoch close touches the asset bookkeeping only.
LEMMA ClosedSameChain ==
  ASSUME NEW st \in PoolStates, NEW e, Closed(st, e) \in PoolStates
  PROVE  SameChain(st, Closed(st, e))
<1> DEFINE close == e.payload["assets_close"]
           kept  == IF IsAmount(close) THEN close ELSE st.prevAssetsClose
           has   == st.hasPrevEpoch \/ IsAmount(close)
           none  == 0
<1>1. Closed(st, e) = [st EXCEPT !.prevAssetsClose = kept, !.hasPrevEpoch = has,
                                 !.epochAssetDelta = none]
  BY DEF Closed
<1> HIDE DEF kept, has, none
<1> QED BY <1>1 DEF SameChain, PoolStates

\* So does booking an amount against the running epoch.
LEMMA DeltaSameChain ==
  ASSUME NEW st, NEW s, SameChain(st, s), NEW d \in Int
  PROVE  SameChain(st, [s EXCEPT !.epochAssetDelta = d])
BY DEF SameChain, PoolStates

\* So no event that replays disturbs the chain.
LEMMA ReplayedSameChain ==
  ASSUME NEW st \in PoolStates, NEW e \in Entries, CanReplay(st, e)
  PROVE  SameChain(st, Replayed(st, e))
<1>1. AmountOf(e) \in Int
  BY DEF AmountOf, Entries
<1>2. NonNegative(e.shares)
  BY DEF CanReplay
<1>3. ASSUME NEW s, SameChain(st, s)
      PROVE  s.epochAssetDelta + AmountOf(e) \in Int /\ s.epochAssetDelta - AmountOf(e) \in Int
  <2>1. s.epochAssetDelta \in Int
    BY <1>3 DEF SameChain, PoolStates
  <2> QED BY <1>1, <2>1
<1>4. CASE e.type = "STAKE" /\ e.shares # Absent
  <2>1. SameChain(st, Minted(st, e))
    BY <1>2, <1>4, MintedMoves, MintedSameChain
       DEF CanReplay, MintTypes, BurnTypes, QuietTypes, Moves
  <2>2. Replayed(st, e) = [Minted(st, e) EXCEPT !.epochAssetDelta = @ + AmountOf(e)]
    BY <1>4 DEF Replayed, MintTypes, BurnTypes
  <2> QED BY <1>3, <2>1, <2>2, DeltaSameChain
<1>5. CASE e.type \in MintTypes
  <2>1. SameChain(st, Minted(st, e))
    BY <1>2, <1>5, MintedMoves, MintedSameChain
       DEF CanReplay, MintTypes, BurnTypes, QuietTypes, Moves
  <2>2. Replayed(st, e) = Minted(st, e)
    BY <1>5 DEF Replayed, MintTypes, BurnTypes
  <2> QED BY <2>1, <2>2
<1>6. CASE e.type = "UNSTAKE_BURN"
  <2>1. SameChain(st, Burned(st, e))
    BY <1>2, <1>6, BurnedMoves, BurnedSameChain
       DEF CanReplay, MintTypes, BurnTypes, QuietTypes, Moves
  <2>2. Replayed(st, e) = [Burned(st, e) EXCEPT !.epochAssetDelta = @ - AmountOf(e)]
    BY <1>6 DEF Replayed, MintTypes, BurnTypes
  <2> QED BY <1>3, <2>1, <2>2, DeltaSameChain
<1>7. CASE e.type \in BurnTypes \ {"UNSTAKE_BURN"}
  <2>1. SameChain(st, Burned(st, e))
    BY <1>2, <1>7, BurnedMoves, BurnedSameChain
       DEF CanReplay, MintTypes, BurnTypes, QuietTypes, Moves
  <2>2. Replayed(st, e) = Burned(st, e)
    BY <1>7 DEF Replayed, MintTypes, BurnTypes
  <2> QED BY <2>1, <2>2
<1>8. CASE e.type = "EPOCH"
  <2>1. Replayed(st, e) = Closed(st, e)
    BY <1>8 DEF Replayed, MintTypes, BurnTypes
  <2>2. Closed(st, e) \in PoolStates
    BY ClosedMoves DEF Moves
  <2> QED BY <2>1, <2>2, ClosedSameChain
<1>9. CASE ~ (e.type = "STAKE" /\ e.shares # Absent) /\ e.type \notin MintTypes
           /\ e.type \notin BurnTypes /\ e.type # "EPOCH"
  <2>1. Replayed(st, e) = st
    BY <1>9 DEF Replayed, BurnTypes
  <2> QED BY <2>1 DEF SameChain
<1> QED BY <1>4, <1>5, <1>6, <1>7, <1>8, <1>9

\* The fields Advanced writes.
LEMMA AdvancedFields ==
  ASSUME NEW o, NEW st \in PoolStates, NEW rec \in ExportRecords, CanReplay(st, rec.entry)
  PROVE  /\ Advanced(o, st, rec).head = rec.entryHash
         /\ Advanced(o, st, rec).lastSeq = rec.seq
         /\ Advanced(o, st, rec).events = st.events + 1
         /\ Advanced(o, st, rec).operator =
              IF st.operator = Absent THEN rec.entry.operator ELSE st.operator
<1> DEFINE s == Replayed(st, rec.entry)
<1>1. rec.entry \in Entries
  BY DEF ExportRecords
<1>2. SameChain(st, s)
  BY <1>1, ReplayedSameChain
<1> DEFINE operator == IF s.operator = Absent THEN rec.entry.operator ELSE s.operator
           leaves   == IF o.collectLeaves THEN Append(s.leaves, rec.entryHash) ELSE s.leaves
           n        == s.events + 1
<1> HIDE DEF s
<1>3. Advanced(o, st, rec) = [s EXCEPT !.head = rec.entryHash, !.lastSeq = rec.seq,
                                !.events = n, !.operator = operator, !.leaves = leaves]
  BY DEF Advanced, s
<1>4. /\ n = st.events + 1
      /\ operator = IF st.operator = Absent THEN rec.entry.operator ELSE st.operator
  BY <1>2 DEF SameChain
<1> HIDE DEF operator, leaves, n
<1>5. s \in PoolStates
  BY <1>2 DEF SameChain
<1>6. /\ Advanced(o, st, rec).head = rec.entryHash
      /\ Advanced(o, st, rec).lastSeq = rec.seq
      /\ Advanced(o, st, rec).events = n
      /\ Advanced(o, st, rec).operator = operator
  BY <1>3, <1>5 DEF PoolStates
<1> QED BY <1>4, <1>6

-----------------------------------------------------------------------------
(* The state of a pool tells the chain accepted so far *)

\* rs is one chain, in order, of one operator; h is its head.
OneChain(rs, h) ==
  /\ h = [i \in 1 .. Len(rs) |-> Canonical(rs[i].entry)]
  /\ \A i, j \in 1 .. Len(rs) : i < j =>
       rs[i].seq < rs[j].seq /\ rs[i].entry.operator = rs[j].entry.operator

\* AcceptedIsOneChain does not hold by itself after one more record: that the last record
\* comes after all others, and has their operator, must be read off the pool's state.
Tells(st, rs) ==
  /\ st.events = Len(rs)
  /\ OneChain(rs, st.head)
  /\ rs = <<>> => st.operator = Absent
  /\ rs # <<>> =>
       /\ st.lastSeq = rs[Len(rs)].seq
       /\ st.operator = rs[Len(rs)].entry.operator
       /\ st.operator # Absent

\* One accepted record extends the chain by one, and the state it leaves tells the new chain.
LEMMA AcceptedTells ==
  ASSUME NEW o, NEW st \in PoolStates, NEW rec \in ExportRecords, NEW rs \in Seq(ExportRecords),
         Tells(st, rs), CheckRecord(o, st, rec) = "ok"
  PROVE  Tells(Advanced(o, st, rec), Append(rs, rec))
<1> DEFINE s == Advanced(o, st, rec)
           n == Len(rs)
           longer == Append(rs, rec)
<1>1. ChainOk(st, rec) /\ CanReplay(st, rec.entry)
  BY AcceptedReplays
<1>2. /\ n \in Nat /\ Len(longer) = n + 1 /\ longer # <<>>
      /\ longer[n + 1] = rec
      /\ \A i \in 1 .. n : longer[i] = rs[i]
  OBVIOUS
<1>3. /\ s.head = rec.entryHash /\ s.lastSeq = rec.seq /\ s.events = n + 1
      /\ s.operator = IF st.operator = Absent THEN rec.entry.operator ELSE st.operator
  BY <1>1, AdvancedFields DEF Tells
<1>4. rec.entry.operator # Absent
  BY <1>1 DEF ChainOk, Valid
<1>5. s.operator = rec.entry.operator
  BY <1>1, <1>3 DEF ChainOk
<1>6. rec.entryHash = Append(st.head, Canonical(rec.entry))
  <2>1. rec.prevHash = st.head
    <3>1. CASE n = 0
      BY <1>1, <3>1 DEF ChainOk, Tells, OneChain, Genesis
    <3>2. CASE n # 0
      BY <1>1, <3>2 DEF ChainOk, Tells
    <3> QED BY <3>1, <3>2
  <2> QED BY <1>1, <2>1 DEF ChainOk, ChainEntry, NextHash
<1>7. s.head = [i \in 1 .. n + 1 |-> Canonical(longer[i].entry)]
  BY <1>2, <1>3, <1>6 DEF Tells, OneChain
<1>8. ASSUME NEW i \in 1 .. n
      PROVE  rs[i].seq < rec.seq /\ rs[i].entry.operator = rec.entry.operator
  <2>1. rs # <<>> /\ n # 0 /\ n \in 1 .. n
    BY <1>2, <1>8
  <2>2. /\ rec.seq > rs[n].seq
        /\ rs[n].entry.operator = rec.entry.operator
    BY <1>1, <2>1 DEF Tells, ChainOk
  <2>3. i < n => rs[i].seq < rs[n].seq /\ rs[i].entry.operator = rs[n].entry.operator
    BY <2>1 DEF Tells, OneChain
  <2>4. rs[i].seq \in Int /\ rs[n].seq \in Int /\ rec.seq \in Int
    <3>1. rs[i] \in ExportRecords /\ rs[n] \in ExportRecords
      BY <2>1
    <3> QED BY <3>1 DEF ExportRecords
  <2>5. CASE i < n
    BY <2>2, <2>3, <2>4, <2>5
  <2>6. CASE i = n
    BY <2>2, <2>4, <2>6
  <2> QED BY <1>2, <2>5, <2>6
<1>9. ASSUME NEW i \in 1 .. n + 1, NEW j \in 1 .. n + 1, i < j
      PROVE  /\ longer[i].seq < longer[j].seq
             /\ longer[i].entry.operator = longer[j].entry.operator
  <2>1. i \in 1 .. n /\ longer[i] = rs[i]
    BY <1>2, <1>9
  <2>2. CASE j = n + 1
    BY <1>2, <1>8, <2>1, <2>2
  <2>3. CASE j \in 1 .. n
    BY <1>2, <1>9, <2>1, <2>3 DEF Tells, OneChain
  <2> QED BY <1>2, <2>2, <2>3
<1> HIDE DEF s, longer
<1>10. OneChain(longer, s.head)
  BY <1>2, <1>7, <1>9 DEF OneChain
<1>11. Tells(s, longer)
  BY <1>2, <1>3, <1>4, <1>5, <1>10 DEF Tells
<1> QED BY <1>11 DEF s, longer

-----------------------------------------------------------------------------
(* The invariant *)

ChainInv == Inv /\ \A p \in Pools : Tells(pools[p], accepted[p])

\* No record is accepted yet, and every pool is new.
LEMMA InitChain == Init => ChainInv
<1> SUFFICES ASSUME Init PROVE ChainInv
  OBVIOUS
<1>1. Tells(EmptyPool, <<>>)
  BY DEF Tells, OneChain, EmptyPool, Genesis
<1> QED BY <1>1, InitInv DEF Init, ChainInv

\* Only AcceptRecord touches pools and history, both in the record's own pool.
LEMMA NextChain == ChainInv /\ [Next]_vars => ChainInv'
<1> SUFFICES ASSUME ChainInv, [Next]_vars PROVE ChainInv'
  OBVIOUS
<1>1. Inv'
  BY NextInv DEF ChainInv
<1>2. ASSUME NEW rec \in ExportRecords, AcceptRecord(rec)
      PROVE  \A p \in Pools : Tells(pools'[p], accepted'[p])
  <2> DEFINE q == rec.entry.pool
  <2>1. q \in Pools
    BY DEF ExportRecords, Entries
  <2>2. pools \in [Pools -> PoolStates] /\ accepted \in [Pools -> Seq(ExportRecords)]
    BY DEF ChainInv, Inv, TypeOK
  <2>3. /\ CheckRecord(opts, pools[q], rec) = "ok"
        /\ pools' = [pools EXCEPT ![q] = Advanced(opts, pools[q], rec)]
        /\ accepted' = [accepted EXCEPT ![q] = Append(accepted[q], rec)]
    BY <1>2 DEF AcceptRecord
  <2>4. Tells(Advanced(opts, pools[q], rec), Append(accepted[q], rec))
    <3>1. pools[q] \in PoolStates /\ accepted[q] \in Seq(ExportRecords)
      BY <2>1, <2>2
    <3> QED BY <2>1, <2>3, <3>1, AcceptedTells DEF ChainInv
  <2> HIDE DEF q
  <2> QED BY <2>1, <2>2, <2>3, <2>4 DEF ChainInv
<1>3. ASSUME UNCHANGED <<pools, accepted>>
      PROVE  \A p \in Pools : Tells(pools'[p], accepted'[p])
  BY <1>3 DEF ChainInv
<1>4. \A p \in Pools : Tells(pools'[p], accepted'[p])
  BY <1>2, <1>3 DEF Next, VerifyRecord, RefuseRecord, RefuseLine, EndOfExport, vars
<1> QED BY <1>1, <1>4 DEF ChainInv, Tells, OneChain

\* The chain check decides the file: whatever lines it is given, in whatever order and from
\* however many pools, the records it accepts of a pool are one chain from genesis, of one
\* operator, with increasing sequence numbers, and the head commits to all of them.
THEOREM AcceptedChain == Spec => []AcceptedIsOneChain
<1>1. ChainInv => AcceptedIsOneChain
  BY DEF ChainInv, Tells, OneChain, AcceptedIsOneChain, Positions, Entry
<1> QED BY <1>1, InitChain, NextChain, PTL DEF Spec

-----------------------------------------------------------------------------
(* What one event books *)

\* s is st after the event moved balances and assets the way Issued and Flow say.
Books(st, e, s) ==
  /\ \A a \in Accounts : s.accounts[a] = st.accounts[a] + Issued(e, a)
  /\ s.epochAssetDelta = IF IsEpoch(e) THEN 0 ELSE st.epochAssetDelta + Flow(e)
  /\ s.prevAssetsClose = IF ClosesAssets(e) THEN e.payload["assets_close"] ELSE st.prevAssetsClose
  /\ s.hasPrevEpoch = (st.hasPrevEpoch \/ ClosesAssets(e))

\* A mint, with the stake movement it may carry.
LEMMA MintBooks ==
  ASSUME NEW st \in PoolStates, NEW e \in Entries, NEW d \in Int,
         NamesShares(e), NonNegative(e.shares),
         e.type \in MintTypes \cup {"STAKE"}, d = Flow(e)
  PROVE  /\ Minted(st, e).epochAssetDelta = st.epochAssetDelta
         /\ Books(st, e, [Minted(st, e) EXCEPT !.epochAssetDelta = st.epochAssetDelta + d])
<1>1. e.account \in Accounts /\ e.shares \in Nat
  BY DEF NamesShares, NonNegative, Entries
<1>2. st.accounts \in [Accounts -> Nat] /\ st.total \in Nat /\ st.epochAssetDelta \in Int
  BY DEF PoolStates
<1> DEFINE accounts == [st.accounts EXCEPT ![e.account] = @ + e.shares]
           total    == st.total + e.shares
           delta    == st.epochAssetDelta + d
           s        == [Minted(st, e) EXCEPT !.epochAssetDelta = delta]
<1>3. Minted(st, e) = [st EXCEPT !.accounts = accounts, !.total = total]
  BY DEF Minted
<1>4. \A a \in Accounts : accounts[a] = st.accounts[a] + Issued(e, a)
  BY <1>1, <1>2 DEF Issued, NamesShares
<1>5. ~IsEpoch(e)
  BY DEF IsEpoch, MintTypes
<1> HIDE DEF accounts, total, delta
<1>6. /\ s.accounts = accounts /\ s.epochAssetDelta = delta
      /\ s.prevAssetsClose = st.prevAssetsClose /\ s.hasPrevEpoch = st.hasPrevEpoch
      /\ Minted(st, e).epochAssetDelta = st.epochAssetDelta
  BY <1>3 DEF PoolStates
<1>7. delta = st.epochAssetDelta + Flow(e)
  BY DEF delta
<1>8. st.hasPrevEpoch \in BOOLEAN
  BY DEF PoolStates
<1> HIDE DEF s
<1>9. Books(st, e, s)
  BY <1>4, <1>5, <1>6, <1>7, <1>8 DEF Books, ClosesAssets
<1> QED BY <1>6, <1>9 DEF s, delta

\* A burn, with the redemption it may pay.
LEMMA BurnBooks ==
  ASSUME NEW st \in PoolStates, NEW e \in Entries, NEW d \in Int,
         CanBurn(st, e), NonNegative(e.shares), e.type \in BurnTypes, d = Flow(e)
  PROVE  /\ Burned(st, e).epochAssetDelta = st.epochAssetDelta
         /\ Books(st, e, [Burned(st, e) EXCEPT !.epochAssetDelta = st.epochAssetDelta + d])
<1>1. e.account \in Accounts /\ e.shares \in Nat
  BY DEF CanBurn, NamesShares, NonNegative, Entries
<1>2. st.accounts \in [Accounts -> Nat] /\ st.total \in Nat /\ st.epochAssetDelta \in Int
  BY DEF PoolStates
<1> DEFINE accounts == [st.accounts EXCEPT ![e.account] = @ - e.shares]
           total    == st.total - e.shares
           delta    == st.epochAssetDelta + d
           s        == [Burned(st, e) EXCEPT !.epochAssetDelta = delta]
<1>3. Burned(st, e) = [st EXCEPT !.accounts = accounts, !.total = total]
  BY DEF Burned
<1>4. \A a \in Accounts : accounts[a] = st.accounts[a] + Issued(e, a)
  BY <1>1, <1>2 DEF Issued, CanBurn, NamesShares, MintTypes, BurnTypes
<1>5. ~IsEpoch(e)
  BY DEF IsEpoch, BurnTypes
<1> HIDE DEF accounts, total, delta
<1>6. /\ s.accounts = accounts /\ s.epochAssetDelta = delta
      /\ s.prevAssetsClose = st.prevAssetsClose /\ s.hasPrevEpoch = st.hasPrevEpoch
      /\ Burned(st, e).epochAssetDelta = st.epochAssetDelta
  BY <1>3 DEF PoolStates
<1>7. delta = st.epochAssetDelta + Flow(e)
  BY DEF delta
<1>8. st.hasPrevEpoch \in BOOLEAN
  BY DEF PoolStates
<1> HIDE DEF s
<1>9. Books(st, e, s)
  BY <1>4, <1>5, <1>6, <1>7, <1>8 DEF Books, ClosesAssets
<1> QED BY <1>6, <1>9 DEF s, delta

\* An epoch close books its assets and starts the stake movement anew.
LEMMA CloseBooks ==
  ASSUME NEW st \in PoolStates, NEW e \in Entries, IsEpoch(e)
  PROVE  Books(st, e, Closed(st, e))
<1>1. e.payload["assets_close"] \in Int \cup {Absent, Malformed}
  BY DEF Entries, PayloadKeys
<1> DEFINE close == e.payload["assets_close"]
           kept  == IF IsAmount(close) THEN close ELSE st.prevAssetsClose
           has   == st.hasPrevEpoch \/ IsAmount(close)
           none  == 0
           s     == Closed(st, e)
<1>2. s = [st EXCEPT !.prevAssetsClose = kept, !.hasPrevEpoch = has, !.epochAssetDelta = none]
  BY DEF Closed
<1>3. st.accounts \in [Accounts -> Nat] /\ st.hasPrevEpoch \in BOOLEAN
  BY DEF PoolStates
<1>4. \A a \in Accounts : st.accounts[a] = st.accounts[a] + Issued(e, a)
  BY <1>3 DEF Issued, IsEpoch, MintTypes, BurnTypes
<1>5. ClosesAssets(e) <=> IsAmount(close)
  BY DEF ClosesAssets
<1> HIDE DEF kept, has, none, close, s
<1>6. /\ s.accounts = st.accounts /\ s.epochAssetDelta = none
      /\ s.prevAssetsClose = kept /\ s.hasPrevEpoch = has
  BY <1>2 DEF PoolStates
<1>7. /\ \A a \in Accounts : s.accounts[a] = st.accounts[a] + Issued(e, a)
      /\ s.epochAssetDelta = 0
  BY <1>4, <1>6 DEF none
<1>8. s.prevAssetsClose = IF ClosesAssets(e) THEN e.payload["assets_close"] ELSE st.prevAssetsClose
  BY <1>5, <1>6 DEF kept, close
<1>9. s.hasPrevEpoch = (st.hasPrevEpoch \/ ClosesAssets(e))
  BY <1>5, <1>6 DEF has
<1>10. Books(st, e, s)
  BY <1>7, <1>8, <1>9 DEF Books
<1> QED BY <1>10 DEF s

\* Booking nothing changes nothing.
LEMMA NoDelta ==
  ASSUME NEW s \in PoolStates
  PROVE  s = [s EXCEPT !.epochAssetDelta = s.epochAssetDelta + 0]
<1>1. s.epochAssetDelta + 0 = s.epochAssetDelta
  BY DEF PoolStates
<1> QED BY <1>1 DEF PoolStates

\* Every event that replays books what Issued and Flow say, and nothing else.
LEMMA ReplayedBooks ==
  ASSUME NEW st \in PoolStates, NEW e \in Entries, CanReplay(st, e)
  PROVE  Books(st, e, Replayed(st, e))
<1>1. AmountOf(e) \in Int /\ -AmountOf(e) \in Int /\ st.epochAssetDelta \in Int
  BY DEF AmountOf, Entries, PoolStates
<1>2. NonNegative(e.shares)
  BY DEF CanReplay
<1>3. CASE e.type = "STAKE" /\ e.shares # Absent
  <2>1. NamesShares(e) /\ Flow(e) = AmountOf(e)
    BY <1>3 DEF CanReplay, MintTypes, BurnTypes, QuietTypes, Flow, IsEpoch
  <2>2. /\ Minted(st, e).epochAssetDelta = st.epochAssetDelta
        /\ Books(st, e, [Minted(st, e) EXCEPT !.epochAssetDelta = st.epochAssetDelta + AmountOf(e)])
    BY <1>1, <1>2, <1>3, <2>1, MintBooks
  <2>3. Replayed(st, e) = [Minted(st, e) EXCEPT !.epochAssetDelta = @ + AmountOf(e)]
    BY <1>3 DEF Replayed, MintTypes, BurnTypes
  <2> QED BY <2>2, <2>3
<1>4. CASE e.type \in MintTypes
  <2>1. NamesShares(e) /\ Flow(e) = 0
    BY <1>4 DEF CanReplay, MintTypes, BurnTypes, QuietTypes, Flow, IsEpoch
  <2>2. /\ Minted(st, e).epochAssetDelta = st.epochAssetDelta
        /\ Books(st, e, [Minted(st, e) EXCEPT !.epochAssetDelta = st.epochAssetDelta + 0])
    BY <1>2, <1>4, <2>1, MintBooks
  <2>3. Minted(st, e) \in PoolStates
    BY <1>2, <2>1, MintedMoves DEF Moves
  <2>4. Replayed(st, e) = Minted(st, e)
    BY <1>4 DEF Replayed, MintTypes, BurnTypes
  <2> QED BY <2>2, <2>3, <2>4, NoDelta
<1>5. CASE e.type = "UNSTAKE_BURN"
  <2>1. CanBurn(st, e) /\ Flow(e) = -AmountOf(e) /\ e.type \in BurnTypes
    BY <1>5 DEF CanReplay, MintTypes, BurnTypes, QuietTypes, Flow, IsEpoch
  <2> DEFINE paid == -AmountOf(e)
  <2>2. /\ Burned(st, e).epochAssetDelta = st.epochAssetDelta
        /\ Books(st, e, [Burned(st, e) EXCEPT !.epochAssetDelta = st.epochAssetDelta + paid])
    BY <1>1, <1>2, <2>1, BurnBooks
  <2>3. Replayed(st, e) = [Burned(st, e) EXCEPT !.epochAssetDelta = @ - AmountOf(e)]
    BY <1>5 DEF Replayed, MintTypes, BurnTypes
  <2>4. st.epochAssetDelta + paid = st.epochAssetDelta - AmountOf(e)
    BY <1>1
  <2> HIDE DEF paid
  <2> QED BY <2>2, <2>3, <2>4
<1>6. CASE e.type \in BurnTypes \ {"UNSTAKE_BURN"}
  <2>1. CanBurn(st, e) /\ Flow(e) = 0
    BY <1>6 DEF CanReplay, MintTypes, BurnTypes, QuietTypes, Flow, IsEpoch
  <2>2. /\ Burned(st, e).epochAssetDelta = st.epochAssetDelta
        /\ Books(st, e, [Burned(st, e) EXCEPT !.epochAssetDelta = st.epochAssetDelta + 0])
    BY <1>2, <1>6, <2>1, BurnBooks
  <2>3. Burned(st, e) \in PoolStates
    BY <1>2, <2>1, BurnedMoves DEF Moves
  <2>4. Replayed(st, e) = Burned(st, e)
    BY <1>6 DEF Replayed, MintTypes, BurnTypes
  <2> QED BY <2>2, <2>3, <2>4, NoDelta
<1>7. CASE e.type = "EPOCH"
  <2>1. Replayed(st, e) = Closed(st, e)
    BY <1>7 DEF Replayed, MintTypes, BurnTypes
  <2> QED BY <1>7, <2>1, CloseBooks DEF IsEpoch
<1>8. CASE ~ (e.type = "STAKE" /\ e.shares # Absent) /\ e.type \notin MintTypes
           /\ e.type \notin BurnTypes /\ e.type # "EPOCH"
  <2>1. Replayed(st, e) = st
    BY <1>8 DEF Replayed, BurnTypes
  <2>2. Flow(e) = 0 /\ ~ClosesAssets(e) /\ ~IsEpoch(e)
    BY <1>8 DEF Flow, IsEpoch, ClosesAssets, BurnTypes
  <2>3. \A a \in Accounts : Issued(e, a) = 0
    BY <1>8 DEF Issued
  <2>4. st.accounts \in [Accounts -> Nat] /\ st.hasPrevEpoch \in BOOLEAN
    BY DEF PoolStates
  <2> QED BY <1>1, <2>1, <2>2, <2>3, <2>4 DEF Books
<1> QED BY <1>3, <1>4, <1>5, <1>6, <1>7, <1>8

\* Chain bookkeeping leaves the books alone.
LEMMA AdvancedBooks ==
  ASSUME NEW o, NEW st \in PoolStates, NEW rec \in ExportRecords, CanReplay(st, rec.entry)
  PROVE  Books(st, rec.entry, Advanced(o, st, rec))
<1> DEFINE s == Replayed(st, rec.entry)
<1>1. rec.entry \in Entries
  BY DEF ExportRecords
<1>2. s \in PoolStates
  BY <1>1, ReplayedMoves DEF Moves
<1>3. Books(st, rec.entry, s)
  BY <1>1, ReplayedBooks
<1> DEFINE operator == IF s.operator = Absent THEN rec.entry.operator ELSE s.operator
           leaves   == IF o.collectLeaves THEN Append(s.leaves, rec.entryHash) ELSE s.leaves
           n        == s.events + 1
           t        == Advanced(o, st, rec)
<1> HIDE DEF s
<1>4. t = [s EXCEPT !.head = rec.entryHash, !.lastSeq = rec.seq,
                                !.events = n, !.operator = operator, !.leaves = leaves]
  BY DEF Advanced, s
<1> HIDE DEF operator, leaves, n, t
<1>5. /\ t.accounts = s.accounts /\ t.epochAssetDelta = s.epochAssetDelta
      /\ t.prevAssetsClose = s.prevAssetsClose /\ t.hasPrevEpoch = s.hasPrevEpoch
  BY <1>2, <1>4 DEF PoolStates
<1>6. Books(st, rec.entry, t)
  BY <1>3, <1>5 DEF Books
<1> QED BY <1>6 DEF t

-----------------------------------------------------------------------------
(* Sums along the accepted history *)

\* Continuing a sequence of amounts leaves the sums so far alone.
LEMMA SumsExtend ==
  ASSUME NEW n \in Nat, NEW f, NEW g, \A k \in 1 .. n + 1 : g[k] \in Int,
         \A k \in 1 .. n : g[k] = f[k]
  PROVE  /\ \A i \in 0 .. n : SumTo(f, i) \in Int /\ SumTo(g, i) = SumTo(f, i)
         /\ SumTo(g, n + 1) = SumTo(f, n) + g[n + 1]
<1>1. ASSUME NEW i \in 0 .. n
      PROVE  SumTo(f, i) \in Int /\ SumTo(g, i) = SumTo(f, i)
  <2>1. /\ i \in Nat /\ i \in 0 .. i
        /\ \A k \in 1 .. i : f[k] \in Int /\ g[k] = f[k]
    BY <1>1
  <2>2. SumTo(g, i) = SumTo(f, i)
    BY <2>1, SumsAgree DEF SumTo
  <2>3. RunningSum(f, i) \in [0 .. i -> Int]
    BY <2>1, RunningSumDef
  <2> QED BY <2>1, <2>2, <2>3 DEF SumTo
<1>2. SumTo(g, n + 1) = SumTo(g, n) + g[n + 1]
  BY SumStep
<1>3. n \in 0 .. n
  OBVIOUS
<1> QED BY <1>1, <1>2, <1>3

\* Issuance and AssetFlow of a sequence of records.
IssuedBy(rs, a) == [i \in 1 .. Len(rs) |-> Issued(rs[i].entry, a)]

FlowOf(rs) == [i \in 1 .. Len(rs) |-> Flow(rs[i].entry)]

\* What an entry issues and what flows with it are amounts.
LEMMA EntryAmounts ==
  ASSUME NEW e \in Entries
  PROVE  Flow(e) \in Int /\ \A a \in Accounts : Issued(e, a) \in Int
<1>1. e.shares \in Int \cup {Absent} /\ e.amount \in Int \cup {Absent}
  BY DEF Entries
<1>2. e.payload["ggr"] \in Int \cup {Absent, Malformed}
  BY DEF Entries, PayloadKeys
<1>3. e.payload["cap_net"] \in Int \cup {Absent, Malformed}
  BY DEF Entries, PayloadKeys
<1>4. IsAmount(e.payload["ggr"]) /\ IsAmount(e.payload["cap_net"])
        => e.payload["ggr"] + e.payload["cap_net"] \in Int
  BY <1>2, <1>3 DEF IsAmount
<1>5. AmountOf(e) \in Int /\ -AmountOf(e) \in Int
  BY <1>1 DEF AmountOf
<1>6. Flow(e) \in Int
  BY <1>4, <1>5 DEF Flow
<1>7. ASSUME NEW a \in Accounts PROVE Issued(e, a) \in Int
  BY <1>1 DEF Issued
<1> QED BY <1>6, <1>7

\* One more record appends its own share to each of the sums.
LEMMA LongerSums ==
  ASSUME NEW rs \in Seq(ExportRecords), NEW rec \in ExportRecords
  PROVE  LET longer == Append(rs, rec)
             n == Len(rs)
         IN  /\ n \in Nat /\ Len(longer) = n + 1 /\ longer[n + 1] = rec
             /\ \A i \in 1 .. n : longer[i] = rs[i]
             /\ \A i \in 0 .. n : SumTo(FlowOf(rs), i) \in Int
                                  /\ SumTo(FlowOf(longer), i) = SumTo(FlowOf(rs), i)
             /\ SumTo(FlowOf(longer), n + 1) = SumTo(FlowOf(rs), n) + Flow(rec.entry)
             /\ \A a \in Accounts :
                  /\ \A i \in 0 .. n : SumTo(IssuedBy(longer, a), i) = SumTo(IssuedBy(rs, a), i)
                  /\ SumTo(IssuedBy(longer, a), n + 1)
                       = SumTo(IssuedBy(rs, a), n) + Issued(rec.entry, a)
<1> DEFINE longer == Append(rs, rec)
           n == Len(rs)
<1>1. /\ n \in Nat /\ Len(longer) = n + 1 /\ longer[n + 1] = rec
      /\ \A i \in 1 .. n : longer[i] = rs[i]
  OBVIOUS
<1>2. \A i \in 1 .. n + 1 : longer[i].entry \in Entries
  <2>1. \A i \in 1 .. n + 1 : longer[i] \in ExportRecords
    BY <1>1
  <2> QED BY <2>1 DEF ExportRecords
<1>3. Len(rs) = n
  OBVIOUS
<1> HIDE DEF n, longer
<1>4. /\ \A i \in 0 .. n : SumTo(FlowOf(rs), i) \in Int
                           /\ SumTo(FlowOf(longer), i) = SumTo(FlowOf(rs), i)
      /\ SumTo(FlowOf(longer), n + 1) = SumTo(FlowOf(rs), n) + Flow(rec.entry)
  <2> DEFINE f == FlowOf(rs)
             g == FlowOf(longer)
  <2>1. /\ \A k \in 1 .. n + 1 : g[k] \in Int
        /\ \A k \in 1 .. n : g[k] = f[k]
        /\ g[n + 1] = Flow(rec.entry)
    BY <1>1, <1>2, <1>3, EntryAmounts DEF FlowOf
  <2> HIDE DEF f, g
  <2>2. /\ \A i \in 0 .. n : SumTo(f, i) \in Int /\ SumTo(g, i) = SumTo(f, i)
        /\ SumTo(g, n + 1) = SumTo(f, n) + g[n + 1]
    BY <1>1, <2>1, SumsExtend
  <2> QED BY <2>1, <2>2 DEF f, g
<1>5. ASSUME NEW a \in Accounts
      PROVE  /\ \A i \in 0 .. n : SumTo(IssuedBy(longer, a), i) = SumTo(IssuedBy(rs, a), i)
             /\ SumTo(IssuedBy(longer, a), n + 1)
                  = SumTo(IssuedBy(rs, a), n) + Issued(rec.entry, a)
  <2> DEFINE f == IssuedBy(rs, a)
             g == IssuedBy(longer, a)
  <2>1. /\ \A k \in 1 .. n + 1 : g[k] \in Int
        /\ \A k \in 1 .. n : g[k] = f[k]
        /\ g[n + 1] = Issued(rec.entry, a)
    BY <1>1, <1>2, <1>3, EntryAmounts DEF IssuedBy
  <2> HIDE DEF f, g
  <2>2. /\ \A i \in 0 .. n : SumTo(f, i) \in Int /\ SumTo(g, i) = SumTo(f, i)
        /\ SumTo(g, n + 1) = SumTo(f, n) + g[n + 1]
    BY <1>1, <2>1, SumsExtend
  <2> QED BY <2>1, <2>2 DEF f, g
<1> QED BY <1>1, <1>4, <1>5 DEF n, longer

-----------------------------------------------------------------------------
(* The fee shares of an epoch *)

\* Multiplying by d >= 0 keeps the order.
LEMMA ScaledOrder ==
  ASSUME NEW d \in Nat, NEW x \in Int, NEW y \in Int, x <= y
  PROVE  d * x <= d * y
OBVIOUS

\* The floor loses less than one share unit of d.
LEMMA FloorBounds ==
  ASSUME NEW x \in Nat, NEW d \in Nat \ {0}
  PROVE  LET fs == FloorRatioShares(x, d)
         IN  /\ fs \in Int
             /\ d * fs <= x
             /\ x < d * (fs + SubScale)
<1> DEFINE q  == x \div d
           t  == q \div SubScale
           fs == SubScale * t
<1>1. q \in Nat /\ d * q <= x /\ x < d * (q + 1)
  OBVIOUS
<1>2. SubScale \in Nat \ {0}
  BY ScaleAssumption
<1> HIDE DEF q
<1>3. t \in Nat /\ SubScale * t <= q /\ q < SubScale * (t + 1)
  BY <1>1, <1>2
<1> HIDE DEF t
<1>4. fs \in Nat /\ SubScale * (t + 1) = fs + SubScale
  BY <1>2, <1>3
<1>5. fs <= q /\ q + 1 <= fs + SubScale
  BY <1>1, <1>2, <1>3, <1>4
<1> HIDE DEF fs
<1>6. d * fs <= d * q /\ d * (q + 1) <= d * (fs + SubScale)
  BY <1>1, <1>2, <1>4, <1>5, ScaledOrder
<1>7. d * fs \in Int /\ d * (fs + SubScale) \in Int /\ d * q \in Int /\ d * (q + 1) \in Int
  BY <1>1, <1>2, <1>4
<1>8. d * fs <= x /\ x < d * (fs + SubScale)
  BY <1>1, <1>6, <1>7
<1>9. FloorRatioShares(x, d) = fs
  BY DEF FloorRatioShares, fs, t, q
<1> QED BY <1>4, <1>8, <1>9

\* What the schema 2 checks read of an epoch's payload.
LEMMA ParsedFields ==
  ASSUME NEW e \in Entries, ParsesV2(e.payload)
  PROVE  LET q == e.payload
         IN  /\ q["assets_open"] \in Int /\ q["ggr"] \in Int /\ q["cap_net"] \in Int
             /\ q["fee"] \in Int /\ q["fee_shares"] \in Int /\ q["shares_open"] \in Int
             /\ q["assets_close"] \in Int
             /\ IsAmount(q["ggr"]) /\ IsAmount(q["cap_net"]) /\ IsAmount(q["assets_close"])
<1>1. \A k \in {"assets_open", "ggr", "cap_net", "fee", "fee_shares", "price", "shares_open",
                "assets_close"} : e.payload[k] \in Int /\ IsAmount(e.payload[k])
  <2>1. e.payload \in [PayloadKeys -> Int \cup {Absent, Malformed}]
    BY DEF Entries
  <2> QED BY <2>1 DEF ParsesV2, IsAmount, PayloadKeys
<1> QED BY <1>1

\* FeeSharesNeverDilute of one entry.
FairFee(e) ==
  IsEpoch(e) /\ e.schema = 2 =>
    LET q      == e.payload
        mid    == AssetsMid(q)
        before == q["shares_open"]
        after  == before + q["fee_shares"]
    IN  before > 0 /\ q["fee"] > 0 /\ mid > q["fee"] =>
          /\ (mid - q["fee"]) * after <= mid * before
          /\ (mid - q["fee"]) * (after + SubScale) > mid * before

\* The floor bounds, in cross products.
LEMMA CrossProducts ==
  ASSUME NEW d \in Nat, NEW fee \in Nat, NEW before \in Nat, NEW fs \in Int, NEW unit \in Nat,
         d * fs <= fee * before, fee * before < d * (fs + unit)
  PROVE  /\ d * (before + fs) <= (d + fee) * before
         /\ d * (before + fs + unit) > (d + fee) * before
<1>1. (d + fee) * before = d * before + fee * before
  OBVIOUS
<1>2. d * (before + fs) = d * before + d * fs
  OBVIOUS
<1>3. d * (before + fs + unit) = d * before + d * (fs + unit)
  OBVIOUS
<1>4. /\ d * before \in Int /\ fee * before \in Int /\ d * fs \in Int
      /\ d * (fs + unit) \in Int
  OBVIOUS
<1> QED BY <1>1, <1>2, <1>3, <1>4

\* An epoch that closes has the fee shares the floor asks for.
LEMMA ClosedFairFee ==
  ASSUME NEW st, NEW e \in Entries, IsEpoch(e) => CanClose(st, e)
  PROVE  FairFee(e)
<1> SUFFICES ASSUME IsEpoch(e), e.schema = 2 PROVE FairFee(e)
  BY DEF FairFee
<1> DEFINE q      == e.payload
           mid    == AssetsMid(q)
           before == q["shares_open"]
           fee    == q["fee"]
           fs     == q["fee_shares"]
           d      == mid - fee
<1>1. ParsesV2(q) /\ FeeSharesOk(q)
  BY DEF CanClose
<1>2. mid \in Int /\ before \in Int /\ fee \in Int /\ fs \in Int /\ d \in Int
  BY <1>1, ParsedFields DEF AssetsMid
<1> SUFFICES ASSUME before > 0, fee > 0, mid > fee
             PROVE  /\ (mid - fee) * (before + fs) <= mid * before
                    /\ (mid - fee) * ((before + fs) + SubScale) > mid * before
  BY DEF FairFee
<1>3. fs = WantFeeShares(q)
  BY <1>1 DEF FeeSharesOk
<1>4. d > 0 /\ mid = d + fee
  BY <1>2
<1>5. fs = FloorRatioShares(fee * before, d)
  BY <1>3, <1>4 DEF WantFeeShares
<1> HIDE DEF q, mid, before, fee, fs, d
<1>6. d \in Nat \ {0} /\ fee \in Nat /\ before \in Nat /\ SubScale \in Nat
  BY <1>2, <1>4, ScaleAssumption
<1>7. fee * before \in Nat
  BY <1>6
<1>8. d * fs <= fee * before /\ fee * before < d * (fs + SubScale)
  BY <1>5, <1>6, <1>7, FloorBounds
<1>9. /\ d * (before + fs) <= (d + fee) * before
      /\ d * (before + fs + SubScale) > (d + fee) * before
  BY <1>2, <1>6, <1>8, CrossProducts
<1>10. mid - fee = d
  BY DEF d
<1> QED BY <1>4, <1>9, <1>10

-----------------------------------------------------------------------------
(* The state of a pool books the history accepted so far *)

BalancesBooked(st, rs) ==
  \A a \in Accounts :
    /\ st.accounts[a] = SumTo(IssuedBy(rs, a), Len(rs))
    /\ \A m \in 1 .. Len(rs) : SumTo(IssuedBy(rs, a), m) >= 0

\* From the close at i to j, every epoch is of schema 2.
CheckedSpan(rs, i, j) ==
  /\ ClosesAssets(rs[i].entry)
  /\ \A k \in (i + 1) .. j : IsEpoch(rs[k].entry) => rs[k].entry.schema = 2

Grown(rs, i, j) ==
  rs[i].entry.payload["assets_close"] + SumTo(FlowOf(rs), j) - SumTo(FlowOf(rs), i)

\* The previous close and the stake movement since tell, at any time, what the assets have
\* grown to from any close that only schema 2 epochs follow.  AssetsReconcile alone is not
\* inductive: between two epochs it says nothing of the state.
AssetsBooked(st, rs) ==
  \A i \in 1 .. Len(rs) : CheckedSpan(rs, i, Len(rs)) =>
    st.hasPrevEpoch /\ st.prevAssetsClose + st.epochAssetDelta = Grown(rs, i, Len(rs))

ClosesReconcile(rs) ==
  \A i, j \in 1 .. Len(rs) :
    i < j /\ CheckedSpan(rs, i, j) /\ IsEpoch(rs[j].entry) =>
      rs[j].entry.payload["assets_close"] = Grown(rs, i, j)

Booked(st, rs) ==
  /\ BalancesBooked(st, rs)
  /\ AssetsBooked(st, rs)
  /\ ClosesReconcile(rs)
  /\ \A i \in 1 .. Len(rs) : FairFee(rs[i].entry)

\* A new pool has nothing to book.
LEMMA EmptyBooked == Booked(EmptyPool, <<>>)
<1>1. Len(<<>>) = 0
  OBVIOUS
<1>2. \A a \in Accounts : EmptyPool.accounts[a] = 0
  BY DEF EmptyPool
<1>3. BalancesBooked(EmptyPool, <<>>)
  BY <1>1, <1>2, SumOfNone DEF BalancesBooked
<1>4. AssetsBooked(EmptyPool, <<>>) /\ ClosesReconcile(<<>>)
  BY <1>1 DEF AssetsBooked, ClosesReconcile
<1> QED BY <1>1, <1>3, <1>4 DEF Booked

\* One more record keeps the balances booked; no account goes below zero on the way because
\* no balance does.
LEMMA BalancesStayBooked ==
  ASSUME NEW st \in PoolStates, NEW s \in PoolStates, NEW rec \in ExportRecords,
         NEW rs \in Seq(ExportRecords), BalancesBooked(st, rs), Books(st, rec.entry, s)
  PROVE  BalancesBooked(s, Append(rs, rec))
<1> DEFINE longer == Append(rs, rec)
           n == Len(rs)
<1>1. n \in Nat /\ Len(longer) = n + 1
  OBVIOUS
<1> SUFFICES ASSUME NEW a \in Accounts
             PROVE  /\ s.accounts[a] = SumTo(IssuedBy(longer, a), Len(longer))
                    /\ \A m \in 1 .. Len(longer) : SumTo(IssuedBy(longer, a), m) >= 0
  BY DEF BalancesBooked
<1>2. /\ \A i \in 0 .. n : SumTo(IssuedBy(longer, a), i) = SumTo(IssuedBy(rs, a), i)
      /\ SumTo(IssuedBy(longer, a), n + 1) = SumTo(IssuedBy(rs, a), n) + Issued(rec.entry, a)
  BY LongerSums
<1>3. /\ st.accounts[a] = SumTo(IssuedBy(rs, a), n)
      /\ \A m \in 1 .. n : SumTo(IssuedBy(rs, a), m) >= 0
  BY DEF BalancesBooked
<1>4. s.accounts[a] = st.accounts[a] + Issued(rec.entry, a) /\ s.accounts[a] \in Nat
  BY DEF Books, PoolStates
<1> HIDE DEF longer, n
<1>5. s.accounts[a] = SumTo(IssuedBy(longer, a), n + 1)
  BY <1>2, <1>3, <1>4
<1>6. ASSUME NEW m \in 1 .. n + 1 PROVE SumTo(IssuedBy(longer, a), m) >= 0
  <2>1. CASE m = n + 1
    BY <1>4, <1>5, <2>1
  <2>2. CASE m \in 1 .. n
    <3>1. m \in 0 .. n
      BY <1>1, <2>2
    <3> QED BY <1>2, <1>3, <2>2, <3>1
  <2> QED BY <1>1, <2>1, <2>2
<1> QED BY <1>1, <1>5, <1>6

\* The assets stay booked: an epoch close checks that it opens at the previous close and
\* moves by its declared result and the stake movement since.
LEMMA AssetsStayBooked ==
  ASSUME NEW st \in PoolStates, NEW s \in PoolStates, NEW rec \in ExportRecords,
         NEW rs \in Seq(ExportRecords), AssetsBooked(st, rs), Books(st, rec.entry, s),
         IsEpoch(rec.entry) => CanClose(st, rec.entry)
  PROVE  AssetsBooked(s, Append(rs, rec))
<1> DEFINE longer == Append(rs, rec)
           n == Len(rs)
           e == rec.entry
           close == e.payload["assets_close"]
<1>1. /\ n \in Nat /\ Len(longer) = n + 1 /\ longer[n + 1] = rec
      /\ \A i \in 1 .. n : longer[i] = rs[i]
  OBVIOUS
<1>2. /\ \A i \in 0 .. n : SumTo(FlowOf(rs), i) \in Int
                           /\ SumTo(FlowOf(longer), i) = SumTo(FlowOf(rs), i)
      /\ SumTo(FlowOf(longer), n + 1) = SumTo(FlowOf(rs), n) + Flow(e)
  BY LongerSums
<1>3. e \in Entries
  BY DEF ExportRecords
<1>4. Flow(e) \in Int
  BY <1>3, EntryAmounts
<1>5. /\ st.prevAssetsClose \in Int /\ st.epochAssetDelta \in Int
      /\ s.prevAssetsClose \in Int /\ s.epochAssetDelta \in Int
  BY DEF PoolStates
<1> HIDE DEF longer, n, e
<1>6. ASSUME NEW i \in 1 .. n, CheckedSpan(longer, i, n + 1)
      PROVE  s.hasPrevEpoch /\ s.prevAssetsClose + s.epochAssetDelta = Grown(longer, i, n + 1)
  <2>1. longer[i] = rs[i] /\ i \in 0 .. n /\ n \in 0 .. n /\ n + 1 \in (i + 1) .. n + 1
    BY <1>1, <1>6
  <2>2. CheckedSpan(rs, i, n)
    <3>1. \A k \in (i + 1) .. n : longer[k] = rs[k] /\ k \in (i + 1) .. n + 1
      BY <1>1, <1>6
    <3> QED BY <1>6, <2>1, <3>1 DEF CheckedSpan
  <2>3. st.hasPrevEpoch /\ st.prevAssetsClose + st.epochAssetDelta = Grown(rs, i, n)
    BY <2>2 DEF AssetsBooked, n
  <2>4. rs[i].entry.payload["assets_close"] \in Int
    <3>1. rs[i].entry \in Entries
      <4>1. rs[i] \in ExportRecords
        BY <1>6 DEF n
      <4> QED BY <4>1 DEF ExportRecords
    <3> QED BY <2>2, <3>1 DEF CheckedSpan, ClosesAssets, IsAmount, Entries, PayloadKeys
  <2>5. Grown(longer, i, n + 1) = st.prevAssetsClose + st.epochAssetDelta + Flow(e)
    <3>1. /\ SumTo(FlowOf(rs), i) \in Int /\ SumTo(FlowOf(rs), n) \in Int
          /\ SumTo(FlowOf(longer), i) = SumTo(FlowOf(rs), i)
      BY <1>2, <2>1
    <3> DEFINE from   == rs[i].entry.payload["assets_close"]
               before == SumTo(FlowOf(rs), i)
               until  == SumTo(FlowOf(rs), n)
    <3>2. Grown(longer, i, n + 1) = from + (until + Flow(e)) - before
      BY <1>2, <2>1, <3>1 DEF Grown
    <3>3. st.prevAssetsClose + st.epochAssetDelta = from + until - before
      BY <2>3 DEF Grown
    <3> HIDE DEF from, before, until
    <3>4. from \in Int /\ before \in Int /\ until \in Int
      BY <2>4, <3>1 DEF from, before, until
    <3> QED BY <1>4, <1>5, <3>2, <3>3, <3>4
  <2>6. CASE ~IsEpoch(e)
    <3>1. s.prevAssetsClose = st.prevAssetsClose
      BY <2>6 DEF Books, ClosesAssets, e
    <3>2. s.epochAssetDelta = st.epochAssetDelta + Flow(e)
      BY <2>6 DEF Books, e
    <3>3. s.hasPrevEpoch
      BY <2>3 DEF Books
    <3> QED BY <1>4, <1>5, <2>5, <3>1, <3>2, <3>3
  <2>7. CASE IsEpoch(e)
    <3> DEFINE q == e.payload
    <3>1. e.schema = 2
      BY <1>1, <1>6, <2>1, <2>7 DEF CheckedSpan, e
    <3>2. CanClose(st, e)
      BY <2>7 DEF e
    <3>3. ParsesV2(q) /\ AssetChainOk(st, q) /\ EpochInvariantOk(st, q)
      BY <3>1, <3>2 DEF CanClose
    <3>4. /\ q["assets_open"] \in Int /\ q["ggr"] \in Int /\ q["cap_net"] \in Int
          /\ q["assets_close"] \in Int
          /\ IsAmount(q["ggr"]) /\ IsAmount(q["cap_net"]) /\ IsAmount(q["assets_close"])
      BY <1>3, <3>3, ParsedFields
    <3>5. Flow(e) = q["ggr"] + q["cap_net"]
      BY <2>7, <3>4 DEF Flow
    <3>6. /\ q["assets_open"] = st.prevAssetsClose
          /\ q["assets_open"] + q["ggr"] + q["cap_net"] + st.epochAssetDelta = q["assets_close"]
      BY <2>3, <3>3 DEF AssetChainOk, EpochInvariantOk, AssetsMid
    <3>7. ClosesAssets(e)
      BY <2>7, <3>4 DEF ClosesAssets
    <3>8. s.prevAssetsClose = q["assets_close"] /\ s.epochAssetDelta = 0 /\ s.hasPrevEpoch
      BY <2>7, <3>7 DEF Books, e
    <3> HIDE DEF q
    <3>9. s.prevAssetsClose + s.epochAssetDelta = Grown(longer, i, n + 1)
      <4> DEFINE ggr == q["ggr"]
                 cap == q["cap_net"]
                 end == q["assets_close"]
                 old == st.prevAssetsClose
                 mov == st.epochAssetDelta
      <4>1. ggr \in Int /\ cap \in Int /\ end \in Int /\ old \in Int /\ mov \in Int
        BY <1>5, <3>4
      <4>2. old + ggr + cap + mov = end
        BY <3>6
      <4>3. Grown(longer, i, n + 1) = old + mov + (ggr + cap)
        BY <2>5, <3>5
      <4>4. s.prevAssetsClose + s.epochAssetDelta = end + 0
        BY <3>8
      <4> HIDE DEF ggr, cap, end, old, mov
      <4> QED BY <4>1, <4>2, <4>3, <4>4
    <3> QED BY <3>8, <3>9
  <2> QED BY <2>6, <2>7
<1>7. ASSUME CheckedSpan(longer, n + 1, n + 1)
      PROVE  s.hasPrevEpoch
             /\ s.prevAssetsClose + s.epochAssetDelta = Grown(longer, n + 1, n + 1)
  <2>1. ClosesAssets(e)
    BY <1>1, <1>7 DEF CheckedSpan, e
  <2>2. s.prevAssetsClose = close /\ s.epochAssetDelta = 0 /\ s.hasPrevEpoch
    BY <2>1 DEF Books, ClosesAssets, e
  <2>3. SumTo(FlowOf(longer), n + 1) \in Int
    <3>1. n \in 0 .. n
      BY <1>1
    <3>2. SumTo(FlowOf(rs), n) \in Int
      BY <1>2, <3>1
    <3> QED BY <1>2, <1>4, <3>2
  <2>4. Grown(longer, n + 1, n + 1)
          = close + SumTo(FlowOf(longer), n + 1) - SumTo(FlowOf(longer), n + 1)
    BY <1>1 DEF Grown, e
  <2> QED BY <1>5, <2>2, <2>3, <2>4
<1>8. \A i \in 1 .. n + 1 : i \in 1 .. n \/ i = n + 1
  BY <1>1
<1> QED BY <1>1, <1>6, <1>7, <1>8 DEF AssetsBooked, longer

\* A new close that closes a checked span reconciles, for the state it leaves says what the
\* assets have grown to.
LEMMA ClosesStayReconciled ==
  ASSUME NEW st \in PoolStates, NEW s \in PoolStates, NEW rec \in ExportRecords,
         NEW rs \in Seq(ExportRecords), ClosesReconcile(rs), Books(st, rec.entry, s),
         IsEpoch(rec.entry) => CanClose(st, rec.entry), AssetsBooked(s, Append(rs, rec))
  PROVE  ClosesReconcile(Append(rs, rec))
<1> DEFINE longer == Append(rs, rec)
           n == Len(rs)
<1>1. /\ n \in Nat /\ Len(longer) = n + 1 /\ longer[n + 1] = rec
      /\ \A i \in 1 .. n : longer[i] = rs[i]
  OBVIOUS
<1>2. \A i \in 0 .. n : SumTo(FlowOf(longer), i) = SumTo(FlowOf(rs), i)
  BY LongerSums
<1>3. rec.entry \in Entries
  BY DEF ExportRecords
<1> HIDE DEF longer, n
<1>4. ASSUME NEW i \in 1 .. n + 1, NEW j \in 1 .. n + 1, i < j, CheckedSpan(longer, i, j),
             IsEpoch(longer[j].entry)
      PROVE  longer[j].entry.payload["assets_close"] = Grown(longer, i, j)
  <2>1. CASE j = n + 1
    <3>1. j \in (i + 1) .. j
      BY <1>1, <1>4
    <3>2. rec.entry.schema = 2 /\ IsEpoch(rec.entry)
      BY <1>1, <1>4, <2>1, <3>1 DEF CheckedSpan
    <3>3. ParsesV2(rec.entry.payload)
      BY <3>2 DEF CanClose
    <3>4. /\ rec.entry.payload["assets_close"] \in Int
          /\ IsAmount(rec.entry.payload["assets_close"])
      BY <1>3, <3>3, ParsedFields
    <3>5. s.prevAssetsClose = rec.entry.payload["assets_close"] /\ s.epochAssetDelta = 0
      BY <3>2, <3>4 DEF Books, ClosesAssets
    <3>6. s.prevAssetsClose + s.epochAssetDelta = Grown(longer, i, n + 1)
      BY <1>1, <1>4, <2>1 DEF AssetsBooked, longer
    <3> QED BY <1>1, <2>1, <3>4, <3>5, <3>6
  <2>2. CASE j \in 1 .. n
    <3>1. i \in 1 .. n /\ i \in 0 .. n /\ j \in 0 .. n /\ longer[i] = rs[i] /\ longer[j] = rs[j]
      BY <1>1, <1>4, <2>2
    <3>2. \A k \in (i + 1) .. j : longer[k] = rs[k]
      BY <1>1, <1>4, <2>2
    <3>3. CheckedSpan(rs, i, j)
      BY <1>4, <3>1, <3>2 DEF CheckedSpan
    <3>4. rs[j].entry.payload["assets_close"] = Grown(rs, i, j)
      BY <1>4, <2>2, <3>1, <3>3 DEF ClosesReconcile, n
    <3> QED BY <1>2, <3>1, <3>4 DEF Grown
  <2> QED BY <1>1, <2>1, <2>2
<1> QED BY <1>1, <1>4 DEF ClosesReconcile, longer

\* One accepted record keeps the history booked.
LEMMA AcceptedBooked ==
  ASSUME NEW o, NEW st \in PoolStates, NEW rec \in ExportRecords, NEW rs \in Seq(ExportRecords),
         Booked(st, rs), CheckRecord(o, st, rec) = "ok"
  PROVE  Booked(Advanced(o, st, rec), Append(rs, rec))
<1> DEFINE s == Advanced(o, st, rec)
           longer == Append(rs, rec)
<1>1. CanReplay(st, rec.entry)
  BY AcceptedReplays
<1>2. s \in PoolStates /\ Books(st, rec.entry, s)
  BY <1>1, AdvancedMoves, AdvancedBooks DEF Moves
<1>3. IsEpoch(rec.entry) => CanClose(st, rec.entry)
  BY <1>1 DEF CanReplay, IsEpoch, MintTypes, BurnTypes, QuietTypes
<1>4. /\ Len(rs) \in Nat /\ Len(longer) = Len(rs) + 1 /\ longer[Len(rs) + 1] = rec
      /\ \A i \in 1 .. Len(rs) : longer[i] = rs[i]
  OBVIOUS
<1> HIDE DEF s
<1>5. BalancesBooked(s, longer)
  BY <1>2, BalancesStayBooked DEF Booked
<1>6. AssetsBooked(s, longer)
  BY <1>2, <1>3, AssetsStayBooked DEF Booked
<1>7. ClosesReconcile(longer)
  BY <1>2, <1>3, <1>6, ClosesStayReconciled DEF Booked
<1>8. FairFee(rec.entry)
  <2>1. rec.entry \in Entries
    BY DEF ExportRecords
  <2> QED BY <1>3, <2>1, ClosedFairFee
<1> HIDE DEF longer
<1>9. \A i \in 1 .. Len(longer) : FairFee(longer[i].entry)
  BY <1>4, <1>8 DEF Booked
<1>10. Booked(s, longer)
  BY <1>5, <1>6, <1>7, <1>9 DEF Booked
<1> QED BY <1>10 DEF s, longer

BooksInv == Inv /\ \A p \in Pools : Booked(pools[p], accepted[p])

\* No record is accepted yet, and every pool is new.
LEMMA InitBooks == Init => BooksInv
<1> SUFFICES ASSUME Init PROVE BooksInv
  OBVIOUS
<1> QED BY EmptyBooked, InitInv DEF Init, BooksInv

\* Only AcceptRecord touches pools and history, both in the record's own pool.
LEMMA NextBooks == BooksInv /\ [Next]_vars => BooksInv'
<1> SUFFICES ASSUME BooksInv, [Next]_vars PROVE BooksInv'
  OBVIOUS
<1>1. Inv'
  BY NextInv DEF BooksInv
<1>2. ASSUME NEW rec \in ExportRecords, AcceptRecord(rec)
      PROVE  \A p \in Pools : Booked(pools'[p], accepted'[p])
  <2> DEFINE q == rec.entry.pool
  <2>1. q \in Pools
    BY DEF ExportRecords, Entries
  <2>2. pools \in [Pools -> PoolStates] /\ accepted \in [Pools -> Seq(ExportRecords)]
    BY DEF BooksInv, Inv, TypeOK
  <2>3. /\ CheckRecord(opts, pools[q], rec) = "ok"
        /\ pools' = [pools EXCEPT ![q] = Advanced(opts, pools[q], rec)]
        /\ accepted' = [accepted EXCEPT ![q] = Append(accepted[q], rec)]
    BY <1>2 DEF AcceptRecord
  <2>4. Booked(Advanced(opts, pools[q], rec), Append(accepted[q], rec))
    <3>1. pools[q] \in PoolStates /\ accepted[q] \in Seq(ExportRecords)
      BY <2>1, <2>2
    <3> QED BY <2>1, <2>3, <3>1, AcceptedBooked DEF BooksInv
  <2> HIDE DEF q
  <2> QED BY <2>1, <2>2, <2>3, <2>4 DEF BooksInv
<1>3. ASSUME UNCHANGED <<pools, accepted>>
      PROVE  \A p \in Pools : Booked(pools'[p], accepted'[p])
  BY <1>3 DEF BooksInv
<1>4. \A p \in Pools : Booked(pools'[p], accepted'[p])
  BY <1>2, <1>3 DEF Next, VerifyRecord, RefuseRecord, RefuseLine, EndOfExport, vars
<1>5. ASSUME NEW p \in Pools PROVE Booked(pools[p], accepted[p])'
  BY <1>4
<1> QED BY <1>1, <1>5 DEF BooksInv

\* Whatever was accepted, in whatever order and from however many pools, a balance is what
\* the log issued to the account less what it redeemed, and it was never overdrawn.
THEOREM BalancesAreIssuance == Spec => []BalancesAreNetIssuance
<1>1. BooksInv => BalancesAreNetIssuance
  <2> SUFFICES ASSUME BooksInv, NEW p \in Pools, NEW a \in Accounts
               PROVE  /\ pools[p].accounts[a] = SumTo(Issuance(p, a), Len(accepted[p]))
                      /\ \A n \in Positions(p) : SumTo(Issuance(p, a), n) >= 0
    BY DEF BalancesAreNetIssuance
  <2>1. Issuance(p, a) = IssuedBy(accepted[p], a)
    BY DEF Issuance, IssuedBy, Positions, Entry
  <2>2. BalancesBooked(pools[p], accepted[p])
    BY DEF BooksInv, Booked
  <2> QED BY <2>1, <2>2 DEF BalancesBooked, Positions
<1> QED BY <1>1, InitBooks, NextBooks, PTL DEF Spec

\* Between two epoch closes of an accepted log, with schema 2 epochs between them, the assets
\* move by the declared results, the stakes and the redemptions, and by nothing else.
THEOREM AssetsAlwaysReconcile == Spec => []AssetsReconcile
<1>1. BooksInv => AssetsReconcile
  <2> SUFFICES ASSUME BooksInv, NEW p \in Pools, NEW i \in Positions(p), NEW j \in Positions(p),
                      i < j, ClosesAssets(Entry(p, i)), IsEpoch(Entry(p, j)),
                      \A k \in (i + 1) .. j : IsEpoch(Entry(p, k)) => Entry(p, k).schema = 2
               PROVE  Entry(p, j).payload["assets_close"] - Entry(p, i).payload["assets_close"]
                        = SumTo(AssetFlow(p), j) - SumTo(AssetFlow(p), i)
    BY DEF AssetsReconcile
  <2> DEFINE rs == accepted[p]
             from == rs[i].entry.payload["assets_close"]
             till == rs[j].entry.payload["assets_close"]
             f == SumTo(FlowOf(rs), i)
             g == SumTo(FlowOf(rs), j)
  <2>1. AssetFlow(p) = FlowOf(rs)
    BY DEF AssetFlow, FlowOf, Positions, Entry
  <2>2. CheckedSpan(rs, i, j) /\ IsEpoch(rs[j].entry) /\ i \in 1 .. Len(rs) /\ j \in 1 .. Len(rs)
    BY DEF CheckedSpan, Entry, Positions
  <2>3. till = from + g - f
    BY <2>2 DEF BooksInv, Booked, ClosesReconcile, Grown
  <2>4. from \in Int /\ f \in Int /\ g \in Int
    <3>1. rs \in Seq(ExportRecords)
      BY DEF BooksInv, Inv, TypeOK
    <3>2. \A k \in 1 .. Len(rs) : rs[k].entry \in Entries
      <4>1. \A k \in 1 .. Len(rs) : rs[k] \in ExportRecords
        BY <3>1
      <4> QED BY <4>1 DEF ExportRecords
    <3>3. from \in Int
      BY <2>2, <3>2 DEF CheckedSpan, ClosesAssets, IsAmount, Entries, PayloadKeys
    <3>4. \A k \in 1 .. Len(rs) : FlowOf(rs)[k] \in Int
      BY <3>2, EntryAmounts DEF FlowOf
    <3>5. ASSUME NEW m \in 1 .. Len(rs) PROVE SumTo(FlowOf(rs), m) \in Int
      <4>1. m \in Nat /\ \A k \in 1 .. m : FlowOf(rs)[k] \in Int
        BY <3>1, <3>4
      <4>2. RunningSum(FlowOf(rs), m) \in [0 .. m -> Int]
        BY <4>1, RunningSumDef
      <4> QED BY <4>1, <4>2 DEF SumTo
    <3> QED BY <2>2, <3>3, <3>5
  <2> HIDE DEF from, till, f, g
  <2>5. till - from = g - f
    BY <2>3, <2>4
  <2> QED BY <2>1, <2>5 DEF from, till, f, g, Entry
<1> QED BY <1>1, InitBooks, NextBooks, PTL DEF Spec

\* The fee shares of an accepted schema 2 epoch dilute no holder below the assets net of the
\* fee, and leave the operator less than one share unit short.
THEOREM FeesNeverDilute == Spec => []FeeSharesNeverDilute
<1>1. BooksInv => FeeSharesNeverDilute
  <2> SUFFICES ASSUME BooksInv, NEW p \in Pools, NEW i \in Positions(p)
               PROVE  FairFee(Entry(p, i))
    BY DEF FeeSharesNeverDilute, FairFee
  <2> QED BY DEF BooksInv, Booked, Positions, Entry
<1> QED BY <1>1, InitBooks, NextBooks, PTL DEF Spec

-----------------------------------------------------------------------------
(* Types of what the operator writes *)

\* A rounded quotient is an integer.
LEMMA RoundQuoType ==
  ASSUME NEW x \in Int, NEW d \in Nat \ {0}
  PROVE  RoundQuo(x, d) \in Int
<1>1. Abs(x) \in Int
  BY DEF Abs
<1>2. \A y \in Int : y \div (2 * d) \in Int
  OBVIOUS
<1>3. (2 * Abs(x) + d) \in Int /\ (2 * x + d) \in Int
  BY <1>1
<1>4. (2 * Abs(x) + d) \div (2 * d) \in Int /\ (2 * x + d) \div (2 * d) \in Int
  BY <1>2, <1>3
<1> QED BY <1>4 DEF RoundQuo

\* Rounding keeps amounts amounts.
LEMMA CanonicalAmountType ==
  ASSUME NEW x \in Int \cup {Absent}
  PROVE  CanonicalAmount(x) \in Int \cup {Absent}
<1>1. CASE x = Absent
  BY <1>1 DEF CanonicalAmount
<1>2. CASE x \in Int
  <2>1. RoundQuo(x, SubScale) \in Int /\ SubScale \in Int
    BY <1>2, RoundQuoType, ScaleAssumption
  <2>2. SubScale * RoundQuo(x, SubScale) \in Int
    BY <2>1
  <2> QED BY <1>2, <2>2, SentinelAssumption DEF CanonicalAmount
<1> QED BY <1>1, <1>2

\* The canonical form of an entry is an entry of the same pool.
LEMMA CanonicalType ==
  ASSUME NEW e \in Entries
  PROVE  Canonical(e) \in Entries /\ Canonical(e).pool = e.pool
<1> DEFINE amount == CanonicalAmount(e.amount)
           shares == CanonicalAmount(e.shares)
<1>1. amount \in Int \cup {Absent} /\ shares \in Int \cup {Absent}
  BY CanonicalAmountType DEF Entries
<1>2. Canonical(e) = [e EXCEPT !.amount = amount, !.shares = shares]
  BY DEF Canonical
<1> HIDE DEF amount, shares
<1> QED BY <1>1, <1>2 DEF Entries

\* A chain hash commits to entries.
LEMMA ChainEntryType ==
  ASSUME NEW h \in Hashes, NEW e \in Entries
  PROVE  ChainEntry(h, e) \in Hashes
BY CanonicalType DEF ChainEntry, NextHash, Hashes

\* The sum of whole balances is whole.
LEMMA SumType ==
  ASSUME NEW f \in [Accounts -> Nat]
  PROVE  SumAccounts(f) \in Int
<1>1. RunningSum(f, NumAccounts) \in [0 .. NumAccounts -> Int]
  BY AccountSums
<1> QED BY <1>1, NumAccountsAssumption DEF SumAccounts, SumTo

\* The key in force at an instant is a published one, or none.
LEMMA KeyAtType ==
  ASSUME NEW ts
  PROVE  KeyAt(Published, ts) \in KeyIds \cup {Absent}
<1>1. DOMAIN Published \subseteq KeyIds
  BY ProducerAssumption DEF IsRegistry
<1> QED BY <1>1 DEF KeyAt

-----------------------------------------------------------------------------
(* The operator's log *)

\* rs is a log of pool p: each hash commits to the entries so far, and each signature, where
\* there is one, to the hash beside it.
IsLog(p, rs) ==
  /\ rs \in Seq(ExportRecords)
  /\ \A i \in 1 .. Len(rs) :
       /\ rs[i].entryHash = [j \in 1 .. i |-> rs[j].entry]
       /\ rs[i].entry.pool = p
       /\ rs[i].signature = NoSignature \/ rs[i].signature.over = rs[i].entryHash

LogInv ==
  /\ log \in [Pools -> Seq(ExportRecords)]
  /\ books \in [Pools -> [Accounts -> Nat]]
  /\ \A p \in Pools : IsLog(p, log[p])

\* What is written extends the log by one record.
LEMMA StoredExtendsLog ==
  ASSUME LogInv, NEW p \in Pools, NEW e \in Entries, e.pool = p
  PROVE  IsLog(p, Append(log[p], MarshalLine(Stored(p, e))))
<1> DEFINE rs   == log[p]
           n    == Len(rs)
           head == HeadOf(p)
           hash == ChainEntry(head, e)
           key  == KeyAt(Published, e.ts)
           sig  == IF key = Absent THEN NoSignature ELSE SignEntryHash(key, hash)
           line == MarshalLine(Stored(p, e))
           more == Append(rs, line)
<1>1. rs \in Seq(ExportRecords) /\ n \in Nat
  BY DEF LogInv
<1>2. head \in Hashes /\ head = [j \in 1 .. n |-> rs[j].entry]
  <2>1. CASE rs = <<>>
    <3>1. head = <<>> /\ n = 0
      BY <2>1 DEF HeadOf, Genesis
    <3>2. <<>> \in Hashes
      BY DEF Hashes
    <3> HIDE DEF head, n
    <3> QED BY <3>1, <3>2
  <2>2. CASE rs # <<>>
    <3>1. n \in 1 .. n /\ head = rs[n].entryHash
      BY <1>1, <2>2 DEF HeadOf
    <3>2. rs[n] \in ExportRecords
      BY <1>1, <3>1
    <3>3. head \in Hashes
      BY <3>1, <3>2 DEF ExportRecords
    <3> QED BY <3>1, <3>3 DEF LogInv, IsLog
  <2> QED BY <2>1, <2>2
<1> HIDE DEF head
<1>3. hash \in Hashes /\ hash = Append(head, Canonical(e))
  BY <1>2, ChainEntryType DEF ChainEntry, NextHash
<1>4. key \in KeyIds \cup {Absent}
  BY KeyAtType
<1>5. /\ sig \in [key : KeyIds \cup {Absent}, over : Hashes]
      /\ sig = NoSignature \/ sig.over = hash
  <2>1. <<>> \in Hashes
    BY DEF Hashes
  <2> HIDE DEF hash, key
  <2> QED BY <1>3, <1>4, <2>1 DEF NoSignature, SignEntryHash, Genesis
<1>6. line = [seq |-> n + 1, entry |-> Canonical(e), prevHash |-> head, entryHash |-> hash,
              signature |-> sig, keyId |-> key]
  BY DEF MarshalLine, Stored, head
<1> HIDE DEF hash, key, sig, line
<1>7. line \in ExportRecords
  BY <1>1, <1>2, <1>3, <1>4, <1>5, <1>6, CanonicalType DEF ExportRecords
<1>8. line.entry = Canonical(e) /\ line.entryHash = hash /\ line.signature = sig
  BY <1>6
<1>9. /\ more \in Seq(ExportRecords) /\ Len(more) = n + 1 /\ more[n + 1] = line
      /\ \A i \in 1 .. n : more[i] = rs[i]
  BY <1>1, <1>7
<1>10. hash = [j \in 1 .. n + 1 |-> more[j].entry]
  BY <1>1, <1>2, <1>3, <1>8, <1>9
<1>11. ASSUME NEW i \in 1 .. n
       PROVE  /\ more[i].entryHash = [j \in 1 .. i |-> more[j].entry]
              /\ more[i].entry.pool = p
              /\ more[i].signature = NoSignature \/ more[i].signature.over = more[i].entryHash
  <2>1. /\ rs[i].entryHash = [j \in 1 .. i |-> rs[j].entry]
        /\ rs[i].entry.pool = p
        /\ rs[i].signature = NoSignature \/ rs[i].signature.over = rs[i].entryHash
    BY DEF LogInv, IsLog
  <2>2. \A j \in 1 .. i : j \in 1 .. n
    BY <1>1
  <2> HIDE DEF more, rs
  <2> QED BY <1>9, <2>1, <2>2
<1>12. Canonical(e).pool = p
  BY CanonicalType
<1> HIDE DEF more, rs, n
<1>13. ASSUME NEW i \in 1 .. Len(more)
       PROVE  /\ more[i].entryHash = [j \in 1 .. i |-> more[j].entry]
              /\ more[i].entry.pool = p
              /\ more[i].signature = NoSignature \/ more[i].signature.over = more[i].entryHash
  <2>1. CASE i = n + 1
    BY <1>5, <1>8, <1>9, <1>10, <1>12, <2>1
  <2>2. CASE i # n + 1
    <3>1. i \in 1 .. n
      BY <1>1, <1>9, <2>2
    <3> QED BY <1>11, <3>1
  <2> QED BY <2>1, <2>2
<1>14. IsLog(p, more)
  BY <1>9, <1>13 DEF IsLog
<1> QED BY <1>14 DEF more, rs, line

-----------------------------------------------------------------------------
(* The mirror *)

\* The signature of rec, if it has one, was made over an entry of the log.
SignedByOperator(rec) ==
  \/ rec.signature = NoSignature
  \/ \E p \in Pools : \E i \in 1 .. Len(log[p]) : rec.signature.over = log[p][i].entryHash

\* What the operator published is made of records, signed over entries of the log.
LEMMA GenuineRecords ==
  ASSUME LogInv, NEW rec \in Genuine
  PROVE  rec \in ExportRecords /\ SignedByOperator(rec)
<1>1. PICK p \in Pools : \E i \in 1 .. Len(log[p]) : rec = log[p][i]
  BY DEF Genuine
<1>2. PICK i \in 1 .. Len(log[p]) : rec = log[p][i]
  BY <1>1
<1>3. log[p] \in Seq(ExportRecords) /\ rec \in ExportRecords
  BY <1>2 DEF LogInv
<1>4. rec.signature = NoSignature \/ rec.signature.over = log[p][i].entryHash
  BY <1>2 DEF LogInv, IsLog
<1> QED BY <1>3, <1>4 DEF SignedByOperator

\* A re-hashed record is a record under its old signature.
LEMMA RehashedRecord ==
  ASSUME NEW rec \in ExportRecords, NEW h \in Hashes, NEW e \in Entries
  PROVE  Rehash(rec, h, e) \in ExportRecords /\ Rehash(rec, h, e).signature = rec.signature
<1> DEFINE hash == ChainEntry(h, e)
<1>1. hash \in Hashes
  BY ChainEntryType
<1>2. Rehash(rec, h, e) = [rec EXCEPT !.entry = e, !.prevHash = h, !.entryHash = hash]
  BY DEF Rehash
<1> HIDE DEF hash
<1> QED BY <1>1, <1>2 DEF ExportRecords

\* A record stripped of its signature is a record.
LEMMA UnsignedRecord ==
  ASSUME NEW rec \in ExportRecords
  PROVE  Unsign(rec) \in ExportRecords /\ SignedByOperator(Unsign(rec))
<1>1. NoSignature \in [key : KeyIds \cup {Absent}, over : Hashes]
  BY DEF NoSignature, Genesis, Hashes
<1> QED BY <1>1 DEF Unsign, ExportRecords, SignedByOperator

\* A mirror makes records out of records, and no signature.
LEMMA AlteredRecords ==
  ASSUME LogInv, Inv, NEW rec \in Genuine, NEW alt \in Altered(rec)
  PROVE  alt \in ExportRecords /\ SignedByOperator(alt)
<1>1. rec \in ExportRecords /\ SignedByOperator(rec)
  BY GenuineRecords
<1>2. rec.entry \in Entries /\ rec.entry.pool \in Pools /\ rec.prevHash \in Hashes
  BY <1>1 DEF ExportRecords, Entries
<1>3. pools[rec.entry.pool].head \in Hashes
  BY <1>2 DEF Inv, TypeOK, PoolStates
<1> DEFINE edits   == FieldEdits(rec.entry) \cap Entries
           prevs   == {rec.prevHash, pools[rec.entry.pool].head}
           rebuilt == {Rehash(rec, h, e) : h \in prevs, e \in edits \cup {rec.entry}}
<1>4. \/ alt \in {[rec EXCEPT !.entry = e] : e \in edits}
      \/ alt \in rebuilt
      \/ alt \in {Unsign(r) : r \in rebuilt}
      \/ alt \in {[rec EXCEPT !.seq = n] : n \in 0 .. MaxLog + 1}
      \/ alt \in {[rec EXCEPT !.keyId = k] : k \in KeyIds \cup {Absent}}
  BY DEF Altered
<1>5. 0 .. MaxLog + 1 \subseteq Int /\ edits \subseteq Entries /\ prevs \subseteq Hashes
  BY <1>2, <1>3, ProducerAssumption
<1> HIDE DEF edits, prevs
<1>6. \A r \in rebuilt : r \in ExportRecords /\ r.signature = rec.signature
  BY <1>1, <1>2, <1>5, RehashedRecord
<1> HIDE DEF rebuilt
<1>7. CASE alt \in {[rec EXCEPT !.entry = e] : e \in edits}
  <2>1. PICK e \in Entries : alt = [rec EXCEPT !.entry = e]
    BY <1>5, <1>7
  <2>2. alt \in ExportRecords /\ alt.signature = rec.signature
    BY <1>1, <2>1 DEF ExportRecords
  <2> QED BY <1>1, <2>2 DEF SignedByOperator
<1>8. CASE alt \in rebuilt
  BY <1>1, <1>6, <1>8 DEF SignedByOperator
<1>9. CASE alt \in {Unsign(r) : r \in rebuilt}
  BY <1>6, <1>9, UnsignedRecord
<1>10. CASE alt \in {[rec EXCEPT !.seq = n] : n \in 0 .. MaxLog + 1}
  <2>1. PICK n \in Int : alt = [rec EXCEPT !.seq = n]
    BY <1>5, <1>10
  <2>2. alt \in ExportRecords /\ alt.signature = rec.signature
    BY <1>1, <2>1 DEF ExportRecords
  <2> QED BY <1>1, <2>2 DEF SignedByOperator
<1>11. CASE alt \in {[rec EXCEPT !.keyId = k] : k \in KeyIds \cup {Absent}}
  <2>1. PICK k \in KeyIds \cup {Absent} : alt = [rec EXCEPT !.keyId = k]
    BY <1>11
  <2>2. alt \in ExportRecords /\ alt.signature = rec.signature
    BY <1>1, <2>1 DEF ExportRecords
  <2> QED BY <1>1, <2>2 DEF SignedByOperator
<1> QED BY <1>4, <1>7, <1>8, <1>9, <1>10, <1>11

-----------------------------------------------------------------------------
(* The invariant *)

FileInv == ChainInv /\ LogInv /\ SignedEntryVouchesForPrefix

\* The invariant of the signatures holds of empty logs.
LEMMA FileInitInv == FileInit => FileInv
<1> SUFFICES ASSUME FileInit PROVE FileInv
  OBVIOUS
<1>1. ChainInv
  BY InitChain DEF FileInit
<1>2. LogInv
  BY DEF FileInit, LogInv, IsLog
<1>3. SignedEntryVouchesForPrefix
  BY DEF FileInit, Init, SignedEntryVouchesForPrefix
<1> QED BY <1>1, <1>2, <1>3 DEF FileInv

\* The log only grows, so what was vouched for stays so.
LEMMA WriteKeeps ==
  ASSUME FileInv, NEW p \in Pools, NEW e \in Entries, e.pool = p,
         NEW newBooks \in [Accounts -> Nat], Write(p, e, newBooks)
  PROVE  FileInv' /\ UNCHANGED vars
<1> DEFINE line == MarshalLine(Stored(p, e))
<1>1. UNCHANGED vars /\ log' = [log EXCEPT ![p] = Append(log[p], line)]
                     /\ books' = [books EXCEPT ![p] = newBooks]
  BY DEF Write
<1>2. ChainInv'
  BY <1>1, NextChain DEF FileInv
<1>3. IsLog(p, Append(log[p], line))
  BY StoredExtendsLog DEF FileInv
<1> HIDE DEF line
<1>4. /\ log \in [Pools -> Seq(ExportRecords)] /\ books \in [Pools -> [Accounts -> Nat]]
      /\ \A q \in Pools : IsLog(q, log[q])
  BY DEF FileInv, LogInv
<1>5. /\ log'[p] = Append(log[p], line) /\ \A q \in Pools \ {p} : log'[q] = log[q]
      /\ Append(log[p], line) \in Seq(ExportRecords)
  BY <1>1, <1>3, <1>4 DEF IsLog
<1>6. LogInv'
  <2>1. log' \in [Pools -> Seq(ExportRecords)]
    BY <1>1, <1>4, <1>5
  <2>2. books' \in [Pools -> [Accounts -> Nat]]
    BY <1>1, <1>4
  <2>3. \A q \in Pools : IsLog(q, log'[q])
    BY <1>3, <1>4, <1>5
  <2> QED BY <2>1, <2>2, <2>3 DEF LogInv, IsLog
<1>7. ASSUME NEW q \in Pools
      PROVE  /\ Len(log[q]) \in Nat /\ Len(log[q]) <= Len(log'[q])
             /\ \A j \in 1 .. Len(log[q]) : log'[q][j] = log[q][j]
  <2>1. log[q] \in Seq(ExportRecords)
    BY <1>4
  <2>2. CASE q = p
    <3>1. \E r : Append(log[q], line) \in Seq(ExportRecords) /\ line = r
      BY <1>5, <2>2
    <3>2. Len(Append(log[q], line)) = Len(log[q]) + 1
      BY <2>1
    <3>3. \A j \in 1 .. Len(log[q]) : Append(log[q], line)[j] = log[q][j]
      BY <2>1
    <3> QED BY <1>5, <2>1, <2>2, <3>2, <3>3
  <2>3. CASE q # p
    BY <1>5, <2>1, <2>3
  <2> QED BY <2>2, <2>3
<1>8. accepted' = accepted
  BY <1>1 DEF vars
<1>9. SignedEntryVouchesForPrefix'
  <2> SUFFICES ASSUME NEW q \in Pools, NEW i \in 1 .. Len(accepted'[q]),
                      ~IsUnsigned(accepted'[q][i])
               PROVE  /\ i <= Len(log'[q])
                      /\ \A j \in 1 .. i :
                           Canonical(accepted'[q][j].entry) = log'[q][j].entry
    BY DEF SignedEntryVouchesForPrefix, IsUnsigned, Canonical, CanonicalAmount
  <2>1. /\ i <= Len(log[q])
        /\ \A j \in 1 .. i : Canonical(accepted[q][j].entry) = log[q][j].entry
    BY <1>8 DEF FileInv, SignedEntryVouchesForPrefix
  <2>2. accepted[q] \in Seq(ExportRecords)
    BY DEF FileInv, ChainInv, Inv, TypeOK
  <2>3. i \in Nat /\ \A j \in 1 .. i : j \in 1 .. Len(log[q])
    BY <1>7, <1>8, <2>1, <2>2
  <2>4. Len(log'[q]) \in Nat
    BY <1>6 DEF LogInv
  <2> QED BY <1>7, <1>8, <2>1, <2>3, <2>4
<1> QED BY <1>1, <1>2, <1>6, <1>9 DEF FileInv

\* A signed record that extends a chain carries the hash of that whole chain, and only the
\* operator's log of that pool has it.
LEMMA SignedIsLogged ==
  ASSUME LogInv, NEW p \in Pools, NEW rs \in Seq(ExportRecords), NEW n \in Nat, Len(rs) = n + 1,
         rs[n + 1].entry.pool = p,
         NEW q \in Pools, NEW i \in 1 .. Len(log[q]),
         log[q][i].entryHash = [j \in 1 .. n + 1 |-> Canonical(rs[j].entry)]
  PROVE  /\ n + 1 <= Len(log[p])
         /\ \A j \in 1 .. n + 1 : Canonical(rs[j].entry) = log[p][j].entry
<1> DEFINE h == log[q][i].entryHash
<1>1. log[q] \in Seq(ExportRecords) /\ Len(log[q]) \in Nat /\ i \in Nat /\ i <= Len(log[q])
  BY DEF LogInv
<1>2. /\ h = [j \in 1 .. i |-> log[q][j].entry]
      /\ \A k \in 1 .. Len(log[q]) : log[q][k].entry.pool = q
  BY DEF LogInv, IsLog
<1>3. i = n + 1
  <2>1. DOMAIN h = 1 .. i /\ DOMAIN h = 1 .. n + 1
    BY <1>2
  <2>2. 1 .. i = 1 .. n + 1
    BY <2>1
  <2> QED BY <1>1, <2>2
<1>4. ASSUME NEW j \in 1 .. n + 1 PROVE Canonical(rs[j].entry) = log[q][j].entry
  <2>1. h[j] = Canonical(rs[j].entry)
    OBVIOUS
  <2>2. h[j] = log[q][j].entry
    BY <1>2, <1>3
  <2> QED BY <2>1, <2>2
<1>5. p = q
  <2>1. rs[n + 1] \in ExportRecords
    OBVIOUS
  <2>2. rs[n + 1].entry \in Entries
    BY <2>1 DEF ExportRecords
  <2>3. Canonical(rs[n + 1].entry).pool = p
    BY <2>2, CanonicalType
  <2>4. log[q][n + 1].entry.pool = q /\ Canonical(rs[n + 1].entry) = log[q][n + 1].entry
    BY <1>1, <1>2, <1>3, <1>4
  <2> QED BY <2>3, <2>4
<1> QED BY <1>1, <1>3, <1>4, <1>5

\* What the property says of the state after a step that leaves the log alone.
LEMMA VouchedAfter ==
  ASSUME UNCHANGED log,
         \A q \in Pools : \A i \in 1 .. Len(accepted'[q]) :
           ~IsUnsigned(accepted'[q][i]) =>
             /\ i <= Len(log[q])
             /\ \A j \in 1 .. i : Canonical(accepted'[q][j].entry) = log[q][j].entry
  PROVE  SignedEntryVouchesForPrefix'
BY DEF SignedEntryVouchesForPrefix

\* A step that accepts a record keeps the prefixes vouched for.
LEMMA AcceptVouches ==
  ASSUME FileInv, NEW rec \in ExportRecords, SignedByOperator(rec), AcceptRecord(rec),
         UNCHANGED log
  PROVE  SignedEntryVouchesForPrefix'
<1> DEFINE p == rec.entry.pool
           rs == accepted[p]
           n == Len(rs)
           longer == Append(rs, rec)
<1>1. p \in Pools /\ pools[p] \in PoolStates /\ rs \in Seq(ExportRecords) /\ n \in Nat
  <2>1. rec.entry \in Entries
    BY DEF ExportRecords
  <2>2. p \in Pools
    BY <2>1 DEF Entries
  <2> HIDE DEF p
  <2> QED BY <2>2 DEF FileInv, ChainInv, Inv, TypeOK
<1>2. /\ CheckRecord(opts, pools[p], rec) = "ok"
      /\ accepted' = [accepted EXCEPT ![p] = longer]
      /\ accepted \in [Pools -> Seq(ExportRecords)]
  BY DEF AcceptRecord, FileInv, ChainInv, Inv, TypeOK
<1>3. /\ longer \in Seq(ExportRecords) /\ Len(longer) = n + 1 /\ longer[n + 1] = rec
      /\ \A j \in 1 .. n : longer[j] = rs[j]
  BY <1>1
<1>4. SignatureOk(opts, rec) /\ CanReplay(pools[p], rec.entry)
  BY <1>2, AcceptedReplays
<1>5. rec.entryHash = [j \in 1 .. n + 1 |-> Canonical(longer[j].entry)]
  <2>1. Tells(pools[p], rs)
    BY <1>1 DEF FileInv, ChainInv
  <2>2. Tells(Advanced(opts, pools[p], rec), longer)
    BY <1>1, <1>2, <2>1, AcceptedTells
  <2>3. Advanced(opts, pools[p], rec).head = rec.entryHash
    BY <1>1, <1>4, AdvancedFields
  <2> HIDE DEF longer
  <2> QED BY <1>3, <2>2, <2>3 DEF Tells, OneChain
<1>6. ~IsUnsigned(rec) =>
        /\ n + 1 <= Len(log[p])
        /\ \A j \in 1 .. n + 1 : Canonical(longer[j].entry) = log[p][j].entry
  <2> SUFFICES ASSUME ~IsUnsigned(rec)
               PROVE  /\ n + 1 <= Len(log[p])
                      /\ \A j \in 1 .. n + 1 : Canonical(longer[j].entry) = log[p][j].entry
    OBVIOUS
  <2>1. rec.signature.over = rec.entryHash
    BY <1>4 DEF SignatureOk, VerifyEntryHash
  <2>2. PICK q \in Pools : \E i \in 1 .. Len(log[q]) :
          rec.signature.over = log[q][i].entryHash
    BY DEF SignedByOperator, IsUnsigned
  <2>3. PICK i \in 1 .. Len(log[q]) : rec.signature.over = log[q][i].entryHash
    BY <2>2
  <2>4. rec.entryHash = log[q][i].entryHash
    BY <2>1, <2>3
  <2>5. LogInv /\ longer[n + 1].entry.pool = p
    BY <1>3 DEF FileInv
  <2>6. log[q][i].entryHash = [j \in 1 .. n + 1 |-> Canonical(longer[j].entry)]
    BY <1>5, <2>4
  <2>7. p \in Pools /\ n \in Nat /\ longer \in Seq(ExportRecords) /\ Len(longer) = n + 1
    BY <1>1, <1>3
  <2> HIDE DEF p, n, longer, rs
  <2> QED BY <2>5, <2>6, <2>7, SignedIsLogged
<1> SUFFICES ASSUME NEW q \in Pools, NEW i \in 1 .. Len(accepted'[q]),
                    ~IsUnsigned(accepted'[q][i])
             PROVE  /\ i <= Len(log[q])
                    /\ \A j \in 1 .. i : Canonical(accepted'[q][j].entry) = log[q][j].entry
  <2> HIDE DEF p, rs, n, longer
  <2> QED BY VouchedAfter
<1> HIDE DEF p, longer
<1>7. CASE q = p
  <2>1. accepted'[q] = longer
    BY <1>1, <1>2, <1>7
  <2>2. CASE i = n + 1
    BY <1>3, <1>6, <1>7, <2>1, <2>2
  <2>3. CASE i # n + 1
    <3>1. i \in 1 .. n /\ \A j \in 1 .. i : j \in 1 .. n
      BY <1>1, <1>3, <2>1, <2>3
    <3>2. ~IsUnsigned(rs[i])
      BY <1>3, <2>1, <3>1
    <3>3. /\ i <= Len(log[q])
          /\ \A j \in 1 .. i : Canonical(rs[j].entry) = log[q][j].entry
      BY <1>7, <3>1, <3>2 DEF FileInv, SignedEntryVouchesForPrefix
    <3> QED BY <1>3, <2>1, <3>1, <3>3
  <2> QED BY <2>2, <2>3
<1>8. CASE q # p
  <2>1. accepted'[q] = accepted[q]
    BY <1>2, <1>8
  <2> QED BY <2>1 DEF FileInv, SignedEntryVouchesForPrefix
<1> QED BY <1>7, <1>8

\* LogInv reads nothing but the log and the books.
LEMMA SameLog ==
  ASSUME LogInv, UNCHANGED <<log, books>>
  PROVE  LogInv'
<1>1. log' = log /\ books' = books
  OBVIOUS
<1>2. ASSUME NEW p \in Pools
      PROVE  IsLog(p, log[p])'
  <2>1. IsLog(p, log[p])
    BY DEF LogInv
  <2> QED BY <1>1, <2>1 DEF IsLog
<1> QED BY <1>1, <1>2 DEF LogInv

\* A step that reads a record.
LEMMA ReadKeeps ==
  ASSUME FileInv, NEW rec \in ExportRecords, SignedByOperator(rec), Read(rec)
  PROVE  FileInv' /\ [Next]_vars
<1>1. VerifyRecord(rec) /\ UNCHANGED <<log, books>>
  BY DEF Read
<1>2. [Next]_vars
  BY <1>1 DEF Next
<1>3. ChainInv'
  BY <1>2, NextChain DEF FileInv
<1>4. LogInv'
  BY <1>1, SameLog DEF FileInv
<1>5. SignedEntryVouchesForPrefix'
  <2>1. CASE AcceptRecord(rec)
    BY <1>1, <2>1, AcceptVouches
  <2>2. CASE RefuseRecord(rec)
    BY <1>1, <2>2 DEF RefuseRecord, FileInv, SignedEntryVouchesForPrefix
  <2> QED BY <1>1, <2>1, <2>2 DEF VerifyRecord
<1> QED BY <1>2, <1>3, <1>4, <1>5 DEF FileInv

\* A step that leaves log and history as they are.
LEMMA QuietKeeps ==
  ASSUME FileInv, [Next]_vars, UNCHANGED <<log, books, accepted>>
  PROVE  FileInv'
<1>1. ChainInv'
  BY NextChain DEF FileInv
<1>2. LogInv'
  BY SameLog DEF FileInv
<1>3. SignedEntryVouchesForPrefix'
  BY DEF FileInv, SignedEntryVouchesForPrefix
<1> QED BY <1>1, <1>2, <1>3 DEF FileInv

\* Every entry the operator writes is one, of the pool it writes it to.
LEMMA BlankEntryType ==
  ASSUME NEW p \in Pools, NEW t \in ProducedTypes, NEW ts \in Times
  PROVE  BlankEntry(p, t, ts) \in Entries /\ BlankEntry(p, t, ts).pool = p
<1>1. NoPayload \in [PayloadKeys -> Int \cup {Absent, Malformed}]
  BY DEF NoPayload
<1>2. Owner[p] \in STRING /\ t \in STRING /\ ts \in Int
  BY ProducerAssumption
<1> QED BY <1>1, <1>2 DEF BlankEntry, Entries

\* The event is one that a ledger with these holdings allows.
Allowed(e, held) ==
  \/ e.type \in MintTypes \cup {"STAKE"} /\ NamesShares(e)
  \/ e.type \in BurnTypes /\ NamesShares(e) /\ e.shares <= held[e.account]
  \/ e.type \in QuietTypes \cup {"STAKE"} /\ e.shares = Absent
  \/ /\ e.type = "EPOCH" /\ e.shares = Absent
     /\ IsAmount(e.payload["shares_close"]) /\ e.payload["shares_close"] = SumAccounts(held)

\* An entry as the operator fills it in.
FilledIn(p, e) ==
  /\ e.schema = 1 /\ e.operator = Owner[p] /\ Valid(e)
  /\ e.amount = Absent /\ e.shares \in ShareValues \cup {Absent}

\* What every action of the operator is: one entry of the pool's that its books allow, booked
\* as Issued says.
Writes(p, e, newBooks) ==
  /\ e \in Entries /\ e.pool = p
  /\ newBooks \in [Accounts -> Nat]
  /\ \A c \in Accounts : newBooks[c] = books[p][c] + Issued(e, c)
  /\ FilledIn(p, e) /\ Allowed(e, books[p])
  /\ Write(p, e, newBooks)

\* The fields no action of the operator changes.
LEMMA BlankEntryFields ==
  ASSUME NEW p \in Pools, NEW t, t \in ProducedTypes, NEW ts \in Times
  PROVE  LET b == BlankEntry(p, t, ts)
         IN  /\ b.schema = 1 /\ b.operator = Owner[p] /\ b.type = t /\ b.ts \in Int
             /\ b.amount = Absent /\ b.shares = Absent
             /\ b.type # Absent /\ b.operator # Absent /\ b.pool # Absent /\ b.ts # Absent
<1>1. Owner[p] # Absent /\ t # Absent /\ ts # Absent /\ p # Absent /\ ts \in Int
  BY ProducerAssumption, NamesAssumption, SentinelAssumption
<1> QED BY <1>1 DEF BlankEntry

\* A mint or a burn.
LEMMA WriteShares ==
  ASSUME FileInv, NEW p \in Pools, NEW t, NEW ts \in Times,
         NEW a \in Accounts, NEW n \in ShareValues, NEW newBooks \in [Accounts -> Nat], NEW d,
         \/ t \in MintTypes \cup {"STAKE"} /\ d = n
         \/ t \in BurnTypes /\ d = -n /\ n <= books[p][a],
         \A c \in Accounts : newBooks[c] = books[p][c] + (IF c = a THEN d ELSE 0),
         Write(p, [BlankEntry(p, t, ts) EXCEPT !.account = a, !.shares = n], newBooks)
  PROVE  \E e : Writes(p, e, newBooks)
<1> DEFINE b == BlankEntry(p, t, ts)
           e == [b EXCEPT !.account = a, !.shares = n]
<1>1. Write(p, e, newBooks)
  OBVIOUS
<1>2. t \in ProducedTypes
  <2>1. e.type \in ProducedTypes
    BY <1>1 DEF Write
  <2>2. e.type = t
    BY DEF BlankEntry
  <2> HIDE DEF e
  <2> QED BY <2>1, <2>2
<1>3. b \in Entries /\ b.pool = p /\ b.type = t /\ n \in Int
  <2>1. b.type = t
    BY DEF BlankEntry
  <2>2. b \in Entries /\ b.pool = p
    BY <1>2, BlankEntryType
  <2>3. n \in Int
    BY ProducerAssumption
  <2> QED BY <2>1, <2>2, <2>3
<1>4. /\ b.schema = 1 /\ b.operator = Owner[p] /\ b.amount = Absent
      /\ Absent \notin {b.operator, b.pool, b.type, b.ts}
  BY <1>2, BlankEntryFields
<1> HIDE DEF b
<1>5. e \in Entries /\ e.pool = p /\ e.type = t /\ e.account = a /\ e.shares = n
  BY <1>3 DEF Entries
<1>6. FilledIn(p, e)
  BY <1>3, <1>4 DEF FilledIn, Valid, SchemaVersions, Entries
<1> HIDE DEF e
<1>7. \A c \in Accounts : Issued(e, c) = IF c = a THEN d ELSE 0
  <2>1. e.shares # Absent
    BY <1>3, <1>5, SentinelAssumption
  <2> QED BY <1>5, <2>1 DEF Issued, MintTypes, BurnTypes
<1>8. NamesShares(e)
  BY <1>3, <1>5, SentinelAssumption, NumAccountsAssumption DEF NamesShares, Accounts
<1>9. Allowed(e, books[p])
  BY <1>5, <1>8 DEF Allowed
<1>10. Writes(p, e, newBooks)
  BY <1>1, <1>5, <1>7, <1>9, <1>6 DEF Writes
<1> QED BY <1>10

\* An epoch closed on the operator's own total.
LEMMA WriteClose ==
  ASSUME FileInv, NEW p \in Pools, NEW ts \in Times,
         Write(p, [BlankEntry(p, "EPOCH", ts) EXCEPT !.payload["shares_close"] = BooksTotal(p)],
               books[p])
  PROVE  \E e : Writes(p, e, books[p])
<1> DEFINE b == BlankEntry(p, "EPOCH", ts)
           n == BooksTotal(p)
           e == [b EXCEPT !.payload["shares_close"] = n]
<1>1. books[p] \in [Accounts -> Nat]
  BY DEF FileInv, LogInv
<1>2. n \in Int
  BY <1>1, SumType DEF BooksTotal
<1>3. Write(p, e, books[p])
  OBVIOUS
<1>4. "EPOCH" \in ProducedTypes
  <2>1. e.type \in ProducedTypes
    BY <1>3 DEF Write
  <2>2. e.type = "EPOCH"
    BY DEF BlankEntry
  <2> HIDE DEF e
  <2> QED BY <2>1, <2>2
<1>5. b \in Entries /\ b.pool = p /\ b.shares = Absent
  BY <1>4, BlankEntryType DEF BlankEntry
<1>6. /\ b.schema = 1 /\ b.operator = Owner[p] /\ b.amount = Absent /\ b.type = "EPOCH"
      /\ Absent \notin {b.operator, b.pool, b.type, b.ts}
  BY <1>4, BlankEntryFields
<1> HIDE DEF b, n
<1>7. e \in Entries /\ e.pool = p /\ e.shares = Absent /\ e.type = "EPOCH"
  BY <1>2, <1>5, <1>6 DEF Entries, PayloadKeys
<1>8. FilledIn(p, e)
  BY <1>5, <1>6 DEF FilledIn, Valid, SchemaVersions, Entries
<1>9. e.payload["shares_close"] = n
  <2>1. b.payload \in [PayloadKeys -> Int \cup {Absent, Malformed}]
    BY <1>5 DEF Entries
  <2>2. e.payload = [b.payload EXCEPT !["shares_close"] = n]
    BY <1>5 DEF Entries
  <2> HIDE DEF e
  <2> QED BY <2>1, <2>2 DEF PayloadKeys
<1> HIDE DEF e
<1>10. Allowed(e, books[p])
  <2>1. IsAmount(n) /\ n = SumAccounts(books[p])
    BY <1>2, SentinelAssumption DEF IsAmount, n, BooksTotal
  <2> QED BY <1>7, <1>9, <2>1 DEF Allowed
<1>11. \A c \in Accounts : books[p][c] = books[p][c] + Issued(e, c)
  BY <1>1, <1>7 DEF Issued
<1> QED BY <1>1, <1>3, <1>7, <1>8, <1>10, <1>11 DEF Writes

\* An event that moves no shares.
LEMMA WriteBlank ==
  ASSUME FileInv, NEW p \in Pools, NEW t, NEW ts \in Times,
         t \in QuietTypes \cup {"STAKE"}, Write(p, BlankEntry(p, t, ts), books[p])
  PROVE  \E e : Writes(p, e, books[p])
<1> DEFINE b == BlankEntry(p, t, ts)
<1>1. b.type \in ProducedTypes /\ b.type = t /\ b.shares = Absent
  BY DEF Write, BlankEntry
<1>2. b \in Entries /\ b.pool = p /\ books[p] \in [Accounts -> Nat]
  BY <1>1, BlankEntryType DEF FileInv, LogInv
<1>3. Write(p, b, books[p])
  OBVIOUS
<1>4. /\ b.schema = 1 /\ b.operator = Owner[p] /\ b.amount = Absent
      /\ Absent \notin {b.operator, b.pool, b.type, b.ts}
  BY <1>1, BlankEntryFields
<1> HIDE DEF b
<1>5. \A c \in Accounts : books[p][c] = books[p][c] + Issued(b, c)
  BY <1>1, <1>2 DEF Issued
<1>6. FilledIn(p, b)
  BY <1>1, <1>4 DEF FilledIn, Valid, SchemaVersions
<1>7. Allowed(b, books[p])
  BY <1>1 DEF Allowed
<1> QED BY <1>2, <1>3, <1>5, <1>6, <1>7 DEF Writes

\* Whatever the operator does is a write that its books allow.
LEMMA OperatorWrites ==
  ASSUME FileInv, NEW p \in Pools,
         WriteMint(p) \/ WriteBurn(p) \/ WriteQuiet(p) \/ WriteEpoch(p)
  PROVE  \E e, newBooks : Writes(p, e, newBooks)
<1>1. books[p] \in [Accounts -> Nat] /\ ShareValues \subseteq Nat
  BY ProducerAssumption DEF FileInv, LogInv
<1>2. CASE WriteMint(p)
  <2>1. PICK t \in MintTypes \cup {"STAKE"}, a \in Accounts, n \in ShareValues, ts \in Times :
          Write(p, [BlankEntry(p, t, ts) EXCEPT !.account = a, !.shares = n],
                [books[p] EXCEPT ![a] = @ + n])
    BY <1>2 DEF WriteMint
  <2> DEFINE newBooks == [books[p] EXCEPT ![a] = @ + n]
  <2>2. /\ newBooks \in [Accounts -> Nat]
        /\ \A c \in Accounts : newBooks[c] = books[p][c] + (IF c = a THEN n ELSE 0)
    BY <1>1
  <2>3. Write(p, [BlankEntry(p, t, ts) EXCEPT !.account = a, !.shares = n], newBooks)
    BY <2>1
  <2>4. t \in MintTypes \cup {"STAKE"} /\ n = n
    OBVIOUS
  <2> HIDE DEF newBooks
  <2>5. \E e : Writes(p, e, newBooks)
    BY <2>2, <2>3, <2>4, WriteShares
  <2> QED BY <2>5
<1>3. CASE WriteBurn(p)
  <2>1. PICK t \in BurnTypes, a \in Accounts, n \in ShareValues, ts \in Times :
          /\ n <= books[p][a]
          /\ Write(p, [BlankEntry(p, t, ts) EXCEPT !.account = a, !.shares = n],
                   [books[p] EXCEPT ![a] = @ - n])
    BY <1>3 DEF WriteBurn
  <2> DEFINE newBooks == [books[p] EXCEPT ![a] = @ - n]
             d == -n
  <2>2. /\ newBooks \in [Accounts -> Nat]
        /\ \A c \in Accounts : newBooks[c] = books[p][c] + (IF c = a THEN d ELSE 0)
    BY <1>1, <2>1
  <2>3. Write(p, [BlankEntry(p, t, ts) EXCEPT !.account = a, !.shares = n], newBooks)
    BY <2>1
  <2>4. t \in BurnTypes /\ d = -n /\ n <= books[p][a]
    BY <2>1
  <2> HIDE DEF newBooks, d
  <2>5. \E e : Writes(p, e, newBooks)
    BY <2>2, <2>3, <2>4, WriteShares
  <2> QED BY <2>5
<1>4. CASE WriteQuiet(p)
  BY <1>4, WriteBlank DEF WriteQuiet
<1>5. CASE WriteEpoch(p)
  BY <1>5, WriteClose DEF WriteEpoch
<1> QED BY <1>2, <1>3, <1>4, <1>5

\* So the invariant outlives what the operator does.
LEMMA OperatorKeeps ==
  ASSUME FileInv, NEW p \in Pools,
         WriteMint(p) \/ WriteBurn(p) \/ WriteQuiet(p) \/ WriteEpoch(p)
  PROVE  FileInv' /\ UNCHANGED vars
<1>1. PICK e, newBooks : Writes(p, e, newBooks)
  BY OperatorWrites
<1> QED BY <1>1, WriteKeeps DEF Writes

\* Every step keeps the invariant, and is a step of the verifier or a stutter.
LEMMA FileNextInv == FileInv /\ [FileNext]_allVars => FileInv' /\ [Next]_vars
<1> SUFFICES ASSUME FileInv, [FileNext]_allVars PROVE FileInv' /\ [Next]_vars
  OBVIOUS
<1>1. CASE OperatorNext
  BY <1>1, OperatorKeeps DEF OperatorNext
<1>2. CASE TakeExport
  BY <1>2, QuietKeeps DEF TakeExport, vars
<1>3. CASE ReadGenuine
  BY <1>3, GenuineRecords, ReadKeeps DEF ReadGenuine, FileInv
<1>4. CASE ReadAltered
  BY <1>4, AlteredRecords, ReadKeeps DEF ReadAltered, FileInv, ChainInv
<1>5. CASE ReadGarbage
  <2>1. [Next]_vars /\ UNCHANGED <<log, books, accepted>>
    BY <1>5 DEF ReadGarbage, RefuseLine, Next
  <2> QED BY <2>1, QuietKeeps
<1>6. CASE ReadEnd
  <2>1. [Next]_vars /\ UNCHANGED <<log, books, accepted>>
    BY <1>6 DEF ReadEnd, EndOfExport, Next, fileVars
  <2> QED BY <2>1, QuietKeeps
<1>7. CASE UNCHANGED allVars
  <2>1. UNCHANGED vars /\ UNCHANGED <<log, books, accepted>>
    BY <1>7 DEF allVars, vars
  <2> QED BY <2>1, QuietKeeps
<1> QED BY <1>1, <1>2, <1>3, <1>4, <1>5, <1>6, <1>7 DEF FileNext

\* Whatever comes of the operator's log through a mirror, the verifier does with it what it
\* does with any file: what is proved of VerifyStream holds of it (verify.go:179-250).
THEOREM FileImplementsVerifier == FileSpec => Spec
<1>1. FileInit => Init
  BY DEF FileInit
<1> QED BY <1>1, FileInitInv, FileNextInv, PTL DEF FileSpec, Spec

\* One genuine signature vouches for all of the pool's log before it: nothing lost, repeated,
\* moved or altered, under any registry and options (verify.go checks 1 and 2).
THEOREM SignedEntryVouches == FileSpec => []SignedEntryVouchesForPrefix
<1>1. FileInv => SignedEntryVouchesForPrefix
  BY DEF FileInv
<1> QED BY <1>1, FileInitInv, FileNextInv, PTL DEF FileSpec

-----------------------------------------------------------------------------
(* Amounts of one canonical form *)

\* The canonical value is the nearest whole number of units, on the amount's side of zero.
LEMMA CanonicalBounds ==
  ASSUME NEW x \in Int
  PROVE  LET c == CanonicalAmount(x)
         IN  /\ c \in Int
             /\ x >= 0 => c >= 0 /\ 2 * c <= 2 * x + SubScale
                          /\ 2 * x + SubScale < 2 * c + 2 * SubScale
             /\ x < 0 => c <= 0 /\ -2 * c <= -2 * x + SubScale
                         /\ -2 * x + SubScale < -2 * c + 2 * SubScale
<1> DEFINE y == IF x < 0 THEN -x ELSE x
           w == 2 * SubScale
           k == (2 * y + SubScale) \div w
           u == SubScale * k
           c == CanonicalAmount(x)
<1>1. SubScale \in Nat \ {0} /\ w \in Nat \ {0}
  BY ScaleAssumption
<1>2. y \in Nat
  OBVIOUS
<1>3. k \in Nat /\ w * k <= 2 * y + SubScale /\ 2 * y + SubScale < w * (k + 1)
  <2>1. 2 * y + SubScale \in Nat
    BY <1>1, <1>2
  <2> HIDE DEF y, w
  <2> QED BY <1>1, <2>1
<1>4. c = IF x < 0 THEN SubScale * (-k) ELSE SubScale * k
  <2>1. x # Absent
    BY SentinelAssumption
  <2> QED BY <2>1 DEF CanonicalAmount, RoundQuo, Abs
<1> HIDE DEF y, k
<1>5. u \in Nat /\ w * k = 2 * u /\ w * (k + 1) = 2 * u + 2 * SubScale /\ SubScale * (-k) = -u
  BY <1>1, <1>3
<1> HIDE DEF u, w
<1>6. c = IF x < 0 THEN -u ELSE u
  BY <1>4, <1>5 DEF u
<1>7. 2 * u <= 2 * y + SubScale /\ 2 * y + SubScale < 2 * u + 2 * SubScale
  BY <1>3, <1>5
<1> HIDE DEF c
<1>8. CASE x < 0
  <2>1. y = -x /\ c = -u
    BY <1>6, <1>8 DEF y
  <2> QED BY <1>1, <1>5, <1>7, <1>8, <2>1 DEF c
<1>9. CASE x >= 0
  <2>1. y = x /\ c = u
    BY <1>6, <1>9 DEF y
  <2> QED BY <1>1, <1>5, <1>7, <1>9, <2>1 DEF c
<1> QED BY <1>8, <1>9

\* So two amounts of one canonical form are less than one unit apart.
LEMMA SameCanonicalIsClose ==
  ASSUME NEW x \in Int, NEW y \in Int, CanonicalAmount(x) = CanonicalAmount(y)
  PROVE  -(SubScale - 1) <= x - y /\ x - y <= SubScale - 1
<1> DEFINE c == CanonicalAmount(x)
<1>1. /\ c \in Int
      /\ x >= 0 => c >= 0 /\ 2 * c <= 2 * x + SubScale
                   /\ 2 * x + SubScale < 2 * c + 2 * SubScale
      /\ x < 0 => c <= 0 /\ -2 * c <= -2 * x + SubScale
                  /\ -2 * x + SubScale < -2 * c + 2 * SubScale
  BY CanonicalBounds
<1>2. /\ y >= 0 => c >= 0 /\ 2 * c <= 2 * y + SubScale
                   /\ 2 * y + SubScale < 2 * c + 2 * SubScale
      /\ y < 0 => c <= 0 /\ -2 * c <= -2 * y + SubScale
                  /\ -2 * y + SubScale < -2 * c + 2 * SubScale
  BY CanonicalBounds
<1>3. SubScale \in Nat \ {0}
  BY ScaleAssumption
<1> HIDE DEF c
<1> QED BY <1>1, <1>2, <1>3

\* Entries of one canonical form issue nearly the same shares, to the same account.
LEMMA SameCanonicalIssued ==
  ASSUME NEW d \in Entries, NEW e \in Entries, NEW a \in Accounts, Canonical(d) = Canonical(e)
  PROVE  /\ -(SubScale - 1) <= Issued(d, a) - Issued(e, a)
         /\ Issued(d, a) - Issued(e, a) <= SubScale - 1
<1>1. /\ d.type = e.type /\ d.account = e.account
      /\ CanonicalAmount(d.shares) = CanonicalAmount(e.shares)
  <2>1. ASSUME NEW x \in Entries
        PROVE  /\ Canonical(x).type = x.type /\ Canonical(x).account = x.account
               /\ Canonical(x).shares = CanonicalAmount(x.shares)
    <3> DEFINE amount == CanonicalAmount(x.amount)
               shares == CanonicalAmount(x.shares)
    <3>1. Canonical(x) = [x EXCEPT !.amount = amount, !.shares = shares]
      BY DEF Canonical
    <3> HIDE DEF amount, shares
    <3>2. /\ Canonical(x).type = x.type /\ Canonical(x).account = x.account
          /\ Canonical(x).shares = shares
      BY <3>1 DEF Entries
    <3> QED BY <3>2 DEF shares
  <2> QED BY <2>1
<1>2. d.shares \in Int \cup {Absent} /\ e.shares \in Int \cup {Absent}
  BY DEF Entries
<1>3. d.shares = Absent <=> e.shares = Absent
  <2>1. ASSUME NEW x \in Int PROVE CanonicalAmount(x) # Absent
    BY <2>1, CanonicalBounds, SentinelAssumption
  <2>2. CanonicalAmount(Absent) = Absent
    BY DEF CanonicalAmount
  <2> QED BY <1>1, <1>2, <2>1, <2>2
<1>4. SubScale \in Nat \ {0}
  BY ScaleAssumption
<1>5. CASE d.account = a /\ d.shares # Absent
  <2>1. d.shares \in Int /\ e.shares \in Int /\ e.shares # Absent /\ e.account = a
    BY <1>1, <1>2, <1>3, <1>5
  <2>2. -(SubScale - 1) <= d.shares - e.shares /\ d.shares - e.shares <= SubScale - 1
    BY <1>1, <2>1, SameCanonicalIsClose
  <2>3. CASE d.type \in MintTypes \cup {"STAKE"}
    <3>1. Issued(d, a) = d.shares /\ Issued(e, a) = e.shares
      BY <1>1, <1>5, <2>1, <2>3 DEF Issued
    <3> QED BY <2>2, <3>1
  <2>4. CASE d.type \notin MintTypes \cup {"STAKE"} /\ d.type \in BurnTypes
    <3>1. Issued(d, a) = -d.shares /\ Issued(e, a) = -e.shares
      BY <1>1, <1>5, <2>1, <2>4 DEF Issued
    <3> QED BY <1>4, <2>1, <2>2, <3>1
  <2>5. CASE d.type \notin MintTypes \cup {"STAKE"} /\ d.type \notin BurnTypes
    <3>1. Issued(d, a) = 0 /\ Issued(e, a) = 0
      BY <1>1, <1>5, <2>1, <2>5 DEF Issued
    <3> QED BY <1>4, <3>1
  <2> QED BY <2>3, <2>4, <2>5
<1>6. CASE ~(d.account = a /\ d.shares # Absent)
  <2>1. Issued(d, a) = 0 /\ Issued(e, a) = 0
    BY <1>1, <1>3, <1>6 DEF Issued
  <2> QED BY <1>4, <2>1
<1> QED BY <1>5, <1>6

-----------------------------------------------------------------------------
(* The operator's books are what its entries issued *)

IssuedIn(es, a) == [i \in 1 .. Len(es) |-> Issued(es[i], a)]

\* rs and b are the log and the books of one who wrote the entries es.  The log holds their
\* canonical forms; the books were kept before anything was rounded.
WrittenAs(rs, es, b) ==
  /\ es \in Seq(Entries) /\ Len(es) = Len(rs)
  /\ \A i \in 1 .. Len(rs) : rs[i].entry = Canonical(es[i])
  /\ \A a \in Accounts : b[a] = SumTo(IssuedIn(es, a), Len(es))

WrittenInv == \A p \in Pools : \E es : WrittenAs(log[p], es, books[p])

\* One more entry written and booked.
LEMMA WrittenMore ==
  ASSUME NEW rs \in Seq(ExportRecords), NEW es, NEW b \in [Accounts -> Nat], WrittenAs(rs, es, b),
         NEW e \in Entries, NEW line \in ExportRecords, line.entry = Canonical(e),
         NEW newBooks, \A c \in Accounts : newBooks[c] = b[c] + Issued(e, c)
  PROVE  WrittenAs(Append(rs, line), Append(es, e), newBooks)
<1> DEFINE n  == Len(rs)
           fs == Append(es, e)
           qs == Append(rs, line)
<1>1. /\ n \in Nat /\ Len(qs) = n + 1 /\ qs[n + 1] = line
      /\ \A i \in 1 .. n : qs[i] = rs[i]
  OBVIOUS
<1>2. es \in Seq(Entries) /\ Len(es) = n
  BY DEF WrittenAs
<1>3. /\ fs \in Seq(Entries) /\ Len(fs) = n + 1 /\ fs[n + 1] = e
      /\ \A i \in 1 .. n : fs[i] = es[i]
  BY <1>2
<1> HIDE DEF n, fs, qs
<1>4. \A i \in 1 .. n + 1 : qs[i].entry = Canonical(fs[i])
  BY <1>1, <1>3 DEF WrittenAs, n
<1>5. ASSUME NEW a \in Accounts PROVE newBooks[a] = SumTo(IssuedIn(fs, a), n + 1)
  <2> DEFINE f == IssuedIn(es, a)
             g == IssuedIn(fs, a)
  <2>1. /\ \A k \in 1 .. n + 1 : g[k] \in Int
        /\ \A k \in 1 .. n : g[k] = f[k]
        /\ g[n + 1] = Issued(e, a)
    <3>1. \A k \in 1 .. n + 1 : fs[k] \in Entries
      BY <1>3
    <3> QED BY <1>1, <1>2, <1>3, <3>1, EntryAmounts DEF IssuedIn
  <2> HIDE DEF f, g
  <2>2. SumTo(g, n + 1) = SumTo(f, n) + g[n + 1]
    BY <1>1, <2>1, SumsExtend
  <2>3. b[a] = SumTo(f, n)
    BY <1>2 DEF WrittenAs, f
  <2> QED BY <2>1, <2>2, <2>3 DEF g
<1>6. WrittenAs(qs, fs, newBooks)
  BY <1>1, <1>3, <1>4, <1>5 DEF WrittenAs
<1> QED BY <1>6 DEF qs, fs

\* The empty log issued the empty books.
LEMMA InitWritten == FileInit => WrittenInv
<1> SUFFICES ASSUME FileInit, NEW p \in Pools PROVE WrittenAs(log[p], <<>>, books[p])
  BY DEF WrittenInv
<1>1. log[p] = <<>> /\ books[p] = [a \in Accounts |-> 0]
  BY DEF FileInit
<1>2. Len(<<>>) = 0 /\ <<>> \in Seq(Entries)
  OBVIOUS
<1> QED BY <1>1, <1>2, SumOfNone DEF WrittenAs

\* What the operator writes, it books.
LEMMA WriteWritten ==
  ASSUME FileInv, WrittenInv, NEW p \in Pools, NEW e, NEW newBooks, Writes(p, e, newBooks)
  PROVE  WrittenInv'
<1> DEFINE line == MarshalLine(Stored(p, e))
<1>1. /\ log' = [log EXCEPT ![p] = Append(log[p], line)]
      /\ books' = [books EXCEPT ![p] = newBooks]
  BY DEF Writes, Write
<1>2. line.entry = Canonical(e)
  BY DEF MarshalLine, Stored
<1>3. e \in Entries /\ e.pool = p
  BY DEF Writes
<1>4. IsLog(p, Append(log[p], line))
  BY <1>3, StoredExtendsLog DEF FileInv
<1> HIDE DEF line
<1>5. log \in [Pools -> Seq(ExportRecords)] /\ books \in [Pools -> [Accounts -> Nat]]
  BY DEF FileInv, LogInv
<1>6. line \in ExportRecords
  <2>1. Append(log[p], line) \in Seq(ExportRecords)
    BY <1>4 DEF IsLog
  <2>2. /\ Len(log[p]) + 1 \in 1 .. Len(Append(log[p], line))
        /\ Append(log[p], line)[Len(log[p]) + 1] = line
    BY <1>5
  <2> QED BY <2>1, <2>2
<1>7. ASSUME NEW q \in Pools PROVE \E es : WrittenAs(log'[q], es, books'[q])
  <2>1. PICK es : WrittenAs(log[q], es, books[q])
    BY DEF WrittenInv
  <2>2. CASE q = p
    <3>1. log'[q] = Append(log[p], line) /\ books'[q] = newBooks
      BY <1>1, <1>5, <2>2
    <3>2. log[p] \in Seq(ExportRecords) /\ books[p] \in [Accounts -> Nat]
      BY <1>5
    <3>3. WrittenAs(Append(log[p], line), Append(es, e), newBooks)
      BY <1>2, <1>3, <1>6, <2>1, <2>2, <3>2, WrittenMore DEF Writes
    <3> QED BY <3>1, <3>3
  <2>3. CASE q # p
    <3>1. log'[q] = log[q] /\ books'[q] = books[q]
      BY <1>1, <1>5, <2>3
    <3> QED BY <2>1, <3>1
  <2> QED BY <2>2, <2>3
<1> QED BY <1>7 DEF WrittenInv, WrittenAs

\* Every step keeps the books what the log issued.
LEMMA NextWritten == FileInv /\ WrittenInv /\ [FileNext]_allVars => WrittenInv'
<1> SUFFICES ASSUME FileInv, WrittenInv, [FileNext]_allVars PROVE WrittenInv'
  OBVIOUS
<1>1. CASE OperatorNext
  <2>1. PICK p \in Pools : WriteMint(p) \/ WriteBurn(p) \/ WriteQuiet(p) \/ WriteEpoch(p)
    BY <1>1 DEF OperatorNext
  <2> QED BY <2>1, OperatorWrites, WriteWritten
<1>2. CASE UNCHANGED <<log, books>>
  BY <1>2 DEF WrittenInv, WrittenAs
<1>3. ~OperatorNext => UNCHANGED <<log, books>>
  BY DEF FileNext, TakeExport, ReadGenuine, ReadAltered, Read, ReadGarbage, ReadEnd, fileVars,
         allVars
<1> QED BY <1>1, <1>2, <1>3

\* The replay of a wholly vouched log gives the operator's own books, but for what rounding to
\* the canonical scale hides: a balance is the sum of the accepted issuance (BooksInv), the
\* books are the sum of the written one (WrittenInv), and a signature makes the two agree entry
\* by entry up to their canonical forms (SignedEntryVouches).
THEOREM ReplayGivesBooks == FileSpec => []ReplayMatchesBooks
<1> DEFINE I == FileInv /\ BooksInv /\ WrittenInv
<1>1. FileInit => I
  BY FileInitInv, InitBooks, InitWritten DEF FileInit
<1>2. I /\ [FileNext]_allVars => I'
  BY FileNextInv, NextBooks, NextWritten
<1>3. I => ReplayMatchesBooks
  <2> SUFFICES ASSUME I, NEW p \in Pools, NEW a \in Accounts, Len(accepted[p]) > 0,
                      Len(accepted[p]) = Len(log[p]),
                      ~IsUnsigned(accepted[p][Len(accepted[p])])
               PROVE  Abs(pools[p].accounts[a] - books[p][a])
                        <= (SubScale - 1) * Len(accepted[p])
    BY DEF ReplayMatchesBooks
  <2> DEFINE rs == accepted[p]
             n  == Len(rs)
             b  == SubScale - 1
  <2>1. rs \in Seq(ExportRecords) /\ n \in Nat /\ n \in 1 .. n
    BY DEF BooksInv, Inv, TypeOK
  <2>2. PICK es : WrittenAs(log[p], es, books[p])
    BY DEF WrittenInv
  <2>3. es \in Seq(Entries) /\ Len(es) = n
    BY <2>2 DEF WrittenAs
  <2> DEFINE f == IssuedBy(rs, a)
             g == IssuedIn(es, a)
  <2>4. pools[p].accounts[a] = SumTo(f, n)
    BY DEF BooksInv, Booked, BalancesBooked
  <2>5. books[p][a] = SumTo(g, n)
    BY <2>2, <2>3 DEF WrittenAs
  <2>6. b \in Nat
    BY ScaleAssumption
  <2>7. \A i \in 1 .. n : Canonical(rs[i].entry) = Canonical(es[i])
    <3>1. \A i \in 1 .. n : Canonical(rs[i].entry) = log[p][i].entry
      BY <2>1 DEF FileInv, SignedEntryVouchesForPrefix
    <3> QED BY <2>2, <3>1 DEF WrittenAs
  <2>8. ASSUME NEW i \in 1 .. n
        PROVE  f[i] \in Int /\ g[i] \in Int /\ -b <= f[i] - g[i] /\ f[i] - g[i] <= b
    <3>1. rs[i] \in ExportRecords /\ es[i] \in Entries
      BY <2>1, <2>3
    <3>2. rs[i].entry \in Entries
      BY <3>1 DEF ExportRecords
    <3>3. f[i] = Issued(rs[i].entry, a) /\ g[i] = Issued(es[i], a)
      BY <2>3 DEF IssuedBy, IssuedIn
    <3> HIDE DEF f, g
    <3> QED BY <2>7, <3>1, <3>2, <3>3, EntryAmounts, SameCanonicalIssued
  <2> HIDE DEF f, g, b, n
  <2>9. -(b * n) <= SumTo(f, n) - SumTo(g, n) /\ SumTo(f, n) - SumTo(g, n) <= b * n
    BY <2>1, <2>6, <2>8, SumsClose
  <2>10. pools[p].accounts[a] \in Int /\ books[p][a] \in Int
    <3>1. pools[p] \in PoolStates /\ books[p] \in [Accounts -> Nat]
      BY DEF BooksInv, Inv, TypeOK, FileInv, LogInv
    <3> QED BY <3>1 DEF PoolStates
  <2> DEFINE drift == pools[p].accounts[a] - books[p][a]
             most  == b * n
  <2>11. drift \in Int /\ most \in Int /\ -most <= drift /\ drift <= most
    BY <2>1, <2>4, <2>5, <2>6, <2>9, <2>10
  <2> HIDE DEF drift, most
  <2>12. Abs(drift) <= most
    BY <2>11 DEF Abs
  <2> QED BY <2>12 DEF drift, most, b, n
<1> QED BY <1>1, <1>2, <1>3, PTL DEF FileSpec

-----------------------------------------------------------------------------
(* An honest export raises no alarm *)

\* The operator counts in whole canonical units.  Otherwise rounding may burn in the export
\* more than the account's rounded mints, and the export of an honest log is refused.
WholeUnits == \A n \in ShareValues : CanonicalAmount(n) = n

\* What the accounts hold after the first n records.
HeldAfter(rs, n) == [a \in Accounts |-> SumTo(IssuedBy(rs, a), n)]

\* Record i of the log, as the operator stores it.
HonestRecord(p, rs, i) ==
  LET e   == rs[i].entry
      key == KeyAt(Published, e.ts)
  IN  /\ rs[i].seq = i
      /\ rs[i].prevHash = [j \in 1 .. i - 1 |-> rs[j].entry]
      /\ rs[i].signature = IF key = Absent THEN NoSignature
                           ELSE SignEntryHash(key, rs[i].entryHash)
      /\ rs[i].keyId = key
      /\ FilledIn(p, e) /\ Canonical(e) = e
      /\ Allowed(e, HeldAfter(rs, i - 1))

HonestLog(p, rs) == \A i \in 1 .. Len(rs) : HonestRecord(p, rs, i)

HonestInv ==
  /\ \A p \in Pools : HonestLog(p, log[p]) /\ books[p] = HeldAfter(log[p], Len(log[p]))
  /\ writing => verdict = "reading"
  /\ clean => \A p \in Pools :
       /\ Len(accepted[p]) <= Len(log[p])
       /\ \A i \in 1 .. Len(accepted[p]) : accepted[p][i] = log[p][i]
  /\ HonestExportVerifies

\* In whole units, an entry the operator fills in is its own canonical form.
LEMMA FilledInIsCanonical ==
  ASSUME WholeUnits, NEW p, NEW e \in Entries, FilledIn(p, e)
  PROVE  Canonical(e) = e
<1> DEFINE amount == CanonicalAmount(e.amount)
           shares == CanonicalAmount(e.shares)
<1>1. amount = e.amount
  BY DEF FilledIn, CanonicalAmount
<1>2. shares = e.shares
  <2>1. CanonicalAmount(Absent) = Absent
    BY DEF CanonicalAmount
  <2> QED BY <2>1 DEF FilledIn, WholeUnits
<1>3. Canonical(e) = [e EXCEPT !.amount = amount, !.shares = shares]
  BY DEF Canonical
<1> HIDE DEF amount, shares
<1> QED BY <1>1, <1>2, <1>3 DEF Entries

\* What a ledger allows, its replay accepts: the verifier's balances sum to its total, so no
\* burn overdraws the total.
LEMMA AllowedReplays ==
  ASSUME NEW p, NEW st \in PoolStates, SumAccounts(st.accounts) = st.total, NEW e \in Entries,
         FilledIn(p, e), Allowed(e, st.accounts)
  PROVE  CanReplay(st, e)
<1>1. NonNegative(e.amount) /\ NonNegative(e.shares)
  <2>1. ShareValues \subseteq Nat
    BY ProducerAssumption
  <2>2. e.shares \in ShareValues \cup {Absent} /\ e.amount = Absent
    BY DEF FilledIn
  <2>3. e.shares = Absent \/ e.shares \in Nat
    BY <2>1, <2>2
  <2> QED BY <2>2, <2>3 DEF NonNegative
<1>2. CASE e.type \in MintTypes \cup {"STAKE"} /\ NamesShares(e)
  BY <1>1, <1>2 DEF CanReplay
<1>3. CASE e.type \in BurnTypes /\ NamesShares(e) /\ e.shares <= st.accounts[e.account]
  <2>1. /\ e.account \in Accounts /\ e.shares \in Int
        /\ st.accounts \in [Accounts -> Nat] /\ st.total \in Nat
    BY <1>3 DEF NamesShares, Entries, PoolStates
  <2>2. st.accounts[e.account] <= st.total /\ st.accounts[e.account] \in Nat
    BY <2>1, SumBoundsBalance
  <2>3. CanBurn(st, e)
    BY <1>3, <2>1, <2>2 DEF CanBurn
  <2> QED BY <1>1, <1>3, <2>3 DEF CanReplay
<1>4. CASE e.type \in QuietTypes \cup {"STAKE"} /\ e.shares = Absent
  BY <1>1, <1>4 DEF CanReplay
<1>5. CASE /\ e.type = "EPOCH" /\ e.shares = Absent
           /\ IsAmount(e.payload["shares_close"])
           /\ e.payload["shares_close"] = SumAccounts(st.accounts)
  <2>1. CanClose(st, e)
    BY <1>5 DEF CanClose, AccountSumOk, FilledIn
  <2> QED BY <1>1, <1>5, <2>1 DEF CanReplay
<1> QED BY <1>2, <1>3, <1>4, <1>5 DEF Allowed

\* What an honest reader says to a record of the log's: the key it was signed with was valid
\* when it was made, and where no key was, the registry's active key was not yet.
LEMMA HonestSignature ==
  ASSUME HonestOptions, NEW p \in Pools, NEW i \in 1 .. Len(log[p]),
         HonestRecord(p, log[p], i), opts \in OptionSets
  PROVE  SignatureOk(opts, log[p][i])
<1> DEFINE rec == log[p][i]
           ts  == rec.entry.ts
           key == KeyAt(Published, ts)
<1>1. /\ rec.signature = IF key = Absent THEN NoSignature ELSE SignEntryHash(key, rec.entryHash)
      /\ rec.keyId = key
  BY DEF HonestRecord
<1>2. opts.hasRegistry /\ opts.registry = Published
  BY DEF HonestOptions
<1>3. DOMAIN Published \subseteq KeyIds /\ \A k \in DOMAIN Published : Published[k].pub = k
  BY ProducerAssumption DEF IsRegistry
<1>4. CASE key = Absent
  <2>1. IsUnsigned(rec)
    BY <1>1, <1>4 DEF IsUnsigned
  <2>2. opts.allowUnsigned
    BY <2>1 DEF HonestOptions
  <2>3. ~ \E k \in DOMAIN Published : InWindow(Published[k], ts)
    <3>1. SUFFICES ASSUME \E k \in DOMAIN Published : InWindow(Published[k], ts) PROVE FALSE
      OBVIOUS
    <3>2. key \in DOMAIN Published
      BY <3>1 DEF KeyAt
    <3> QED BY <1>3, <1>4, <3>2, NamesAssumption
  <2>4. ~SigningWasActive(opts, rec)
    <3>1. SUFFICES ASSUME SigningWasActive(opts, rec) PROVE FALSE
      OBVIOUS
    <3> DEFINE k == opts.activeKeyID
    <3>2. k \in DOMAIN Published /\ ts >= Published[k].validFrom
      BY <1>2, <3>1 DEF SigningWasActive
    <3>3. Published[k].validTo = Absent
      BY <1>3, <3>2, NamesAssumption DEF HonestOptions
    <3>4. InWindow(Published[k], ts)
      BY <3>2, <3>3 DEF InWindow
    <3> QED BY <2>3, <3>2, <3>4
  <2> QED BY <2>1, <2>2, <2>4 DEF SignatureOk
<1>5. CASE key # Absent
  <2>1. key \in DOMAIN Published /\ InWindow(Published[key], ts)
    BY <1>5 DEF KeyAt
  <2>2. rec.signature = SignEntryHash(key, rec.entryHash)
    BY <1>1, <1>5
  <2>3. ~IsUnsigned(rec)
    BY <1>5, <2>2 DEF IsUnsigned, NoSignature, SignEntryHash
  <2>4. Resolves(opts.registry, rec.keyId, ts)
    BY <1>1, <1>2, <2>1 DEF Resolves
  <2>5. VerifyEntryHash(opts.registry[rec.keyId].pub, rec.entryHash, rec.signature)
    BY <1>1, <1>2, <1>3, <2>1, <2>2 DEF VerifyEntryHash, SignEntryHash
  <2> QED BY <1>2, <2>3, <2>4, <2>5 DEF SignatureOk
<1> QED BY <1>4, <1>5

\* The next record of the log passes every check of a reader that has accepted the log so far.
LEMMA NextGenuineAccepted ==
  ASSUME FileInv, BooksInv, HonestInv, clean, HonestOptions,
         NEW rec \in ExportRecords, NextGenuine(rec)
  PROVE  CheckRecord(opts, pools[rec.entry.pool], rec) = "ok"
<1> DEFINE p  == rec.entry.pool
           n  == Len(accepted[p])
           rs == accepted[p]
           ls == log[p]
           st == pools[p]
           e  == rec.entry
<1>1. p \in Pools /\ e \in Entries
  BY DEF ExportRecords, Entries
<1>2. n + 1 <= Len(ls) /\ rec = ls[n + 1]
  BY DEF NextGenuine
<1>3. /\ rs \in Seq(ExportRecords) /\ ls \in Seq(ExportRecords) /\ st \in PoolStates
      /\ SumAccounts(st.accounts) = st.total /\ opts \in OptionSets
  BY <1>1 DEF FileInv, LogInv, BooksInv, Inv, TypeOK, BalancesSumToTotal
<1>4. n \in Nat /\ n + 1 \in 1 .. Len(ls) /\ \A i \in 1 .. n : i \in 1 .. Len(ls)
  BY <1>2, <1>3
<1>5. \A i \in 1 .. n : rs[i] = ls[i]
  BY <1>1 DEF HonestInv
<1>6. \A i \in 1 .. Len(ls) : HonestRecord(p, ls, i)
  BY <1>1 DEF HonestInv, HonestLog
<1>7. Tells(st, rs) /\ BalancesBooked(st, rs)
  BY <1>1 DEF FileInv, ChainInv, BooksInv, Booked
<1>8. IsLog(p, ls)
  BY <1>1 DEF FileInv, LogInv
<1>9. SignatureOk(opts, rec)
  BY <1>1, <1>2, <1>3, <1>4, <1>6, HonestSignature
<1> HIDE DEF n, rs, ls, st, p
<1>10. /\ rec.seq = n + 1 /\ rec.prevHash = [j \in 1 .. n |-> ls[j].entry]
       /\ FilledIn(p, e) /\ Canonical(e) = e
       /\ Allowed(e, HeldAfter(ls, n))
  <2>1. HonestRecord(p, ls, n + 1) /\ (n + 1) - 1 = n
    BY <1>4, <1>6
  <2>2. /\ rec.seq = n + 1 /\ rec.prevHash = [j \in 1 .. (n + 1) - 1 |-> ls[j].entry]
        /\ FilledIn(p, e) /\ Canonical(e) = e
        /\ Allowed(e, HeldAfter(ls, (n + 1) - 1))
    BY <1>2, <2>1 DEF HonestRecord
  <2> HIDE DEF e
  <2> QED BY <2>1, <2>2
<1>11. ChainOk(st, rec)
  <2>1. e.schema \in SchemaVersions /\ Valid(e) /\ e.operator = Owner[p]
    BY <1>10 DEF FilledIn, Valid
  <2>2. st.operator # Absent => e.operator = st.operator
    <3>1. CASE n = 0
      <4>1. rs = <<>>
        BY <1>3, <3>1 DEF n, rs
      <4> QED BY <1>7, <4>1 DEF Tells
    <3>2. CASE n # 0
      <4>1. rs # <<>> /\ n \in 1 .. n /\ Len(rs) = n
        BY <1>3, <1>4, <3>2 DEF n, rs
      <4>2. st.operator = ls[n].entry.operator
        BY <1>5, <1>7, <4>1 DEF Tells
      <4>3. FilledIn(p, ls[n].entry)
        BY <1>4, <1>6, <4>1 DEF HonestRecord
      <4> QED BY <2>1, <4>2, <4>3 DEF FilledIn
    <3> QED BY <3>1, <3>2
  <2>3. st.head = [j \in 1 .. n |-> ls[j].entry] /\ st.events = n
    <3>1. /\ st.events = Len(rs) /\ Len(rs) = n
          /\ st.head = [j \in 1 .. n |-> Canonical(rs[j].entry)]
      BY <1>7 DEF Tells, OneChain, n, rs
    <3>2. \A j \in 1 .. n : Canonical(rs[j].entry) = ls[j].entry
      BY <1>4, <1>5, <1>6 DEF HonestRecord
    <3> QED BY <3>1, <3>2
  <2>4. n # 0 => rec.seq > st.lastSeq
    <3>1. SUFFICES ASSUME n # 0 PROVE rec.seq > st.lastSeq
      OBVIOUS
    <3>2. rs # <<>> /\ n \in 1 .. n /\ Len(rs) = n
      BY <1>3, <1>4, <3>1 DEF n, rs
    <3>3. st.lastSeq = ls[n].seq
      BY <1>5, <1>7, <3>2 DEF Tells
    <3>4. ls[n].seq = n
      BY <1>4, <1>6, <3>2 DEF HonestRecord
    <3> QED BY <1>4, <1>10, <3>3, <3>4
  <2>5. n = 0 => rec.prevHash = Genesis
    BY <1>10 DEF Genesis
  <2>6. rec.entryHash = ChainEntry(rec.prevHash, e)
    <3>1. rec.entryHash = [j \in 1 .. n + 1 |-> ls[j].entry]
      BY <1>2, <1>4, <1>8 DEF IsLog
    <3>2. ChainEntry(rec.prevHash, e) = Append([j \in 1 .. n |-> ls[j].entry], ls[n + 1].entry)
      BY <1>2, <1>10 DEF ChainEntry, NextHash
    <3> QED BY <1>4, <3>1, <3>2
  <2> QED BY <1>10, <2>1, <2>2, <2>3, <2>4, <2>5, <2>6 DEF ChainOk
<1>12. CanReplay(st, e)
  <2>1. ASSUME NEW a \in Accounts PROVE st.accounts[a] = SumTo(IssuedBy(ls, a), n)
    <3> DEFINE f == IssuedBy(ls, a)
               g == IssuedBy(rs, a)
    <3>1. Len(rs) = n
      BY DEF n, rs
    <3>2. \A k \in 1 .. n : f[k] \in Int /\ g[k] = f[k]
      <4>1. \A k \in 1 .. n : ls[k].entry \in Entries
        <5>1. \A k \in 1 .. n : ls[k] \in ExportRecords
          BY <1>3, <1>4
        <5> QED BY <5>1 DEF ExportRecords
      <4> QED BY <1>4, <1>5, <3>1, <4>1, EntryAmounts DEF IssuedBy
    <3> HIDE DEF f, g
    <3>3. n \in 0 .. n
      BY <1>4
    <3>4. RunningSum(g, n)[n] = RunningSum(f, n)[n]
      BY <1>4, <3>2, <3>3, SumsAgree
    <3>5. st.accounts[a] = SumTo(g, n)
      BY <1>7, <3>1 DEF BalancesBooked, g
    <3> QED BY <3>4, <3>5 DEF SumTo, f
  <2>2. st.accounts \in [Accounts -> Nat]
    BY <1>3 DEF PoolStates
  <2>3. HeldAfter(ls, n) = st.accounts
    BY <2>1, <2>2 DEF HeldAfter
  <2> QED BY <1>1, <1>3, <1>10, <2>3, AllowedReplays
<1> QED BY <1>9, <1>11, <1>12 DEF CheckRecord, p, st

\* What is stored of an entry.
LEMMA StoredFields ==
  ASSUME LogInv, NEW p \in Pools, NEW e \in Entries, e.pool = p
  PROVE  LET line == MarshalLine(Stored(p, e))
             key  == KeyAt(Published, e.ts)
         IN  /\ line \in ExportRecords
             /\ line.entry = Canonical(e)
             /\ line.seq = Len(log[p]) + 1
             /\ line.prevHash = [j \in 1 .. Len(log[p]) |-> log[p][j].entry]
             /\ line.keyId = key
             /\ line.signature = IF key = Absent THEN NoSignature
                                 ELSE SignEntryHash(key, line.entryHash)
<1> DEFINE rs   == log[p]
           n    == Len(rs)
           head == HeadOf(p)
           hash == ChainEntry(head, e)
           key  == KeyAt(Published, e.ts)
           sig  == IF key = Absent THEN NoSignature ELSE SignEntryHash(key, hash)
           line == MarshalLine(Stored(p, e))
<1>1. rs \in Seq(ExportRecords) /\ n \in Nat
  BY DEF LogInv
<1>2. head = [j \in 1 .. n |-> rs[j].entry]
  <2>1. CASE rs = <<>>
    <3>1. head = <<>> /\ n = 0
      BY <2>1 DEF HeadOf, Genesis
    <3> HIDE DEF head, n
    <3> QED BY <3>1
  <2>2. CASE rs # <<>>
    <3>1. n \in 1 .. n /\ head = rs[n].entryHash
      BY <1>1, <2>2 DEF HeadOf
    <3> QED BY <3>1 DEF LogInv, IsLog
  <2> QED BY <2>1, <2>2
<1>3. line = [seq |-> n + 1, entry |-> Canonical(e), prevHash |-> head, entryHash |-> hash,
              signature |-> sig, keyId |-> key]
  BY DEF MarshalLine, Stored
<1>4. line \in ExportRecords
  <2>1. IsLog(p, Append(rs, line))
    BY StoredExtendsLog
  <2> HIDE DEF line
  <2>2. Append(rs, line) \in Seq(ExportRecords)
    BY <2>1 DEF IsLog
  <2>3. n + 1 \in 1 .. Len(Append(rs, line)) /\ Append(rs, line)[n + 1] = line
    BY <1>1
  <2> QED BY <2>2, <2>3
<1> HIDE DEF rs, n, head, hash, key, line
<1>5. /\ line.entry = Canonical(e) /\ line.seq = n + 1 /\ line.prevHash = head
      /\ line.entryHash = hash /\ line.keyId = key /\ line.signature = sig
  BY <1>3
<1> QED BY <1>2, <1>4, <1>5 DEF rs, n, key, line

\* What the operator writes keeps its log honest.
LEMMA StoredHonest ==
  ASSUME WholeUnits, FileInv, NEW p \in Pools, NEW e, NEW newBooks, Writes(p, e, newBooks),
         HonestLog(p, log[p]), books[p] = HeldAfter(log[p], Len(log[p]))
  PROVE  LET more == Append(log[p], MarshalLine(Stored(p, e)))
         IN  /\ HonestLog(p, more) /\ newBooks = HeldAfter(more, Len(more))
             /\ Len(more) = Len(log[p]) + 1
             /\ \A i \in 1 .. Len(log[p]) : more[i] = log[p][i]
<1> DEFINE rs   == log[p]
           n    == Len(rs)
           key  == KeyAt(Published, e.ts)
           line == MarshalLine(Stored(p, e))
           more == Append(rs, line)
<1>1. e \in Entries /\ e.pool = p /\ FilledIn(p, e) /\ Allowed(e, books[p])
  BY DEF Writes
<1>2. LogInv /\ rs \in Seq(ExportRecords) /\ n \in Nat
  BY DEF FileInv, LogInv
<1>3. Canonical(e) = e
  BY <1>1, FilledInIsCanonical
<1>4. /\ line \in ExportRecords
      /\ line.entry = e
      /\ line.seq = n + 1
      /\ line.prevHash = [j \in 1 .. n |-> rs[j].entry]
      /\ line.keyId = key
      /\ line.signature = IF key = Absent THEN NoSignature
                          ELSE SignEntryHash(key, line.entryHash)
  BY <1>1, <1>2, <1>3, StoredFields
<1> HIDE DEF line
<1>5. /\ Len(more) = n + 1 /\ more[n + 1] = line
      /\ \A i \in 1 .. n : more[i] = rs[i]
      /\ \A a \in Accounts :
           /\ \A i \in 0 .. n : SumTo(IssuedBy(more, a), i) = SumTo(IssuedBy(rs, a), i)
           /\ SumTo(IssuedBy(more, a), n + 1) = SumTo(IssuedBy(rs, a), n) + Issued(line.entry, a)
  BY <1>2, <1>4, LongerSums
<1>6. /\ HonestLog(p, rs) /\ books[p] = HeldAfter(rs, n)
      /\ newBooks \in [Accounts -> Nat]
      /\ \A c \in Accounts : newBooks[c] = books[p][c] + Issued(e, c)
  BY DEF Writes
<1> HIDE DEF rs, n, more
<1>7. \A i \in 0 .. n : HeldAfter(more, i) = HeldAfter(rs, i)
  BY <1>5 DEF HeldAfter
<1>8. newBooks = HeldAfter(more, n + 1)
  <2>1. \A c \in Accounts : newBooks[c] = SumTo(IssuedBy(more, c), n + 1)
    BY <1>4, <1>5, <1>6 DEF HeldAfter
  <2> QED BY <1>6, <2>1 DEF HeldAfter
<1>9. ASSUME NEW i \in 1 .. n + 1 PROVE HonestRecord(p, more, i)
  <2>1. \A j \in 1 .. i - 1 : more[j] = rs[j]
    BY <1>2, <1>5
  <2>2. [j \in 1 .. i - 1 |-> more[j].entry] = [j \in 1 .. i - 1 |-> rs[j].entry]
    BY <2>1
  <2>3. HeldAfter(more, i - 1) = HeldAfter(rs, i - 1)
    <3>1. i - 1 \in 0 .. n
      BY <1>2
    <3> QED BY <1>7, <3>1
  <2>4. CASE i \in 1 .. n
    <3>1. HonestRecord(p, rs, i) /\ more[i] = rs[i]
      BY <1>5, <1>6, <2>4 DEF HonestLog, n
    <3> QED BY <2>2, <2>3, <3>1 DEF HonestRecord
  <2>5. CASE i = n + 1
    <3>1. i - 1 = n /\ more[i] = line
      BY <1>2, <1>5, <2>5
    <3>2. Allowed(line.entry, HeldAfter(more, i - 1))
      BY <1>1, <1>4, <1>6, <2>3, <3>1
    <3>3. /\ more[i].seq = i
          /\ more[i].prevHash = [j \in 1 .. i - 1 |-> more[j].entry]
      BY <1>4, <2>2, <2>5, <3>1
    <3>4. /\ more[i].keyId = KeyAt(Published, line.entry.ts)
          /\ more[i].signature = IF KeyAt(Published, line.entry.ts) = Absent THEN NoSignature
                                 ELSE SignEntryHash(KeyAt(Published, line.entry.ts),
                                                     more[i].entryHash)
      BY <1>4, <3>1 DEF key
    <3>5. FilledIn(p, line.entry) /\ Canonical(line.entry) = line.entry
      BY <1>1, <1>3, <1>4
    <3>6. more[i] = line
      BY <3>1
    <3> QED BY <3>2, <3>3, <3>4, <3>5, <3>6 DEF HonestRecord
  <2> QED BY <1>2, <2>4, <2>5
<1> QED BY <1>5, <1>8, <1>9 DEF HonestLog, rs, n, more, line

\* The empty log replays without a refusal.
LEMMA InitHonest == FileInit => HonestInv
<1> SUFFICES ASSUME FileInit PROVE HonestInv
  OBVIOUS
<1>1. ASSUME NEW p \in Pools
      PROVE  /\ HonestLog(p, log[p]) /\ books[p] = HeldAfter(log[p], Len(log[p]))
             /\ accepted[p] = <<>> /\ log[p] = <<>>
  <2>1. log[p] = <<>> /\ books[p] = [a \in Accounts |-> 0] /\ accepted[p] = <<>>
    BY DEF FileInit, Init
  <2>2. HeldAfter(<<>>, 0) = [a \in Accounts |-> 0]
    BY SumOfNone DEF HeldAfter
  <2>3. HonestLog(p, <<>>)
    BY DEF HonestLog
  <2> QED BY <2>1, <2>2, <2>3
<1>2. verdict = "reading"
  BY DEF FileInit, Init
<1> QED BY <1>1, <1>2 DEF HonestInv, HonestExportVerifies

\* While the operator writes, nobody reads.
LEMMA WriteHonest ==
  ASSUME WholeUnits, FileInv, HonestInv, NEW p \in Pools, NEW e, NEW newBooks,
         Writes(p, e, newBooks)
  PROVE  HonestInv'
<1> DEFINE more == Append(log[p], MarshalLine(Stored(p, e)))
<1>1. /\ log' = [log EXCEPT ![p] = more]
      /\ books' = [books EXCEPT ![p] = newBooks]
      /\ writing /\ UNCHANGED <<clean, writing, verdict, accepted>>
  BY DEF Writes, Write, vars
<1>2. /\ HonestLog(p, more) /\ newBooks = HeldAfter(more, Len(more))
      /\ Len(more) = Len(log[p]) + 1
      /\ \A i \in 1 .. Len(log[p]) : more[i] = log[p][i]
  BY StoredHonest DEF HonestInv
<1> HIDE DEF more
<1>3. log \in [Pools -> Seq(ExportRecords)] /\ books \in [Pools -> [Accounts -> Nat]]
  BY DEF FileInv, LogInv
<1>4. ASSUME NEW q \in Pools
      PROVE  /\ HonestLog(q, log'[q]) /\ books'[q] = HeldAfter(log'[q], Len(log'[q]))
             /\ Len(log[q]) \in Nat /\ Len(log'[q]) \in Nat /\ Len(log[q]) <= Len(log'[q])
             /\ \A i \in 1 .. Len(log[q]) : log'[q][i] = log[q][i]
  <2>1. Len(log[q]) \in Nat
    BY <1>3
  <2>2. CASE q = p
    <3>1. log'[q] = more /\ books'[q] = newBooks
      BY <1>1, <1>3, <2>2
    <3> QED BY <1>2, <2>1, <2>2, <3>1
  <2>3. CASE q # p
    <3>1. log'[q] = log[q] /\ books'[q] = books[q]
      BY <1>1, <1>3, <2>3
    <3> QED BY <2>1, <3>1 DEF HonestInv
  <2> QED BY <2>2, <2>3
<1>5. ASSUME clean', NEW q \in Pools
      PROVE  /\ Len(accepted'[q]) <= Len(log'[q])
             /\ \A i \in 1 .. Len(accepted'[q]) : accepted'[q][i] = log'[q][i]
  <2>1. /\ Len(accepted[q]) <= Len(log[q])
        /\ \A i \in 1 .. Len(accepted[q]) : accepted[q][i] = log[q][i]
    BY <1>1, <1>5 DEF HonestInv
  <2>2. Len(accepted[q]) \in Nat
    BY DEF FileInv, ChainInv, Inv, TypeOK
  <2> QED BY <1>1, <1>4, <2>1, <2>2
<1>6. verdict' = "reading"
  BY <1>1 DEF HonestInv
<1>7. HonestExportVerifies'
  BY <1>6 DEF HonestExportVerifies
<1>8. \A q \in Pools : HonestLog(q, log'[q]) /\ books'[q] = HeldAfter(log'[q], Len(log'[q]))
  BY <1>4
<1> QED BY <1>5, <1>6, <1>7, <1>8 DEF HonestInv, HonestLog, HonestRecord, HeldAfter

\* A step that leaves the log alone, and the history of a clean reader a prefix of it, and
\* says nothing against it.
LEMMA ReaderKeepsHonest ==
  ASSUME HonestInv, UNCHANGED <<log, books>>, writing' => verdict' = "reading",
         clean' => \A p \in Pools :
           /\ Len(accepted'[p]) <= Len(log[p])
           /\ \A i \in 1 .. Len(accepted'[p]) : accepted'[p][i] = log[p][i],
         HonestExportVerifies'
  PROVE  HonestInv'
<1>1. \A p \in Pools : HonestLog(p, log'[p]) /\ books'[p] = HeldAfter(log'[p], Len(log'[p]))
  BY DEF HonestInv
<1>2. clean' => \A p \in Pools :
        /\ Len(accepted'[p]) <= Len(log'[p])
        /\ \A i \in 1 .. Len(accepted'[p]) : accepted'[p][i] = log'[p][i]
  OBVIOUS
<1> QED BY <1>1, <1>2 DEF HonestInv, HonestLog, HonestRecord, HeldAfter

\* A step that reads a record.
LEMMA ReadHonest ==
  ASSUME FileInv, BooksInv, HonestInv, NEW rec \in ExportRecords, Read(rec)
  PROVE  HonestInv'
<1> DEFINE q == rec.entry.pool
<1>1. q \in Pools
  BY DEF ExportRecords, Entries
<1>2. /\ UNCHANGED <<log, books, writing>> /\ ~writing
      /\ clean' = (clean /\ NextGenuine(rec)) /\ VerifyRecord(rec)
  BY DEF Read
<1>3. accepted \in [Pools -> Seq(ExportRecords)]
  BY DEF BooksInv, Inv, TypeOK
<1>4. CASE AcceptRecord(rec)
  <2>1. /\ accepted' = [accepted EXCEPT ![q] = Append(accepted[q], rec)]
        /\ verdict' = "reading"
    BY <1>4 DEF AcceptRecord
  <2>2. ASSUME clean', NEW p \in Pools
        PROVE  /\ Len(accepted'[p]) <= Len(log[p])
               /\ \A i \in 1 .. Len(accepted'[p]) : accepted'[p][i] = log[p][i]
    <3>1. /\ Len(accepted[p]) <= Len(log[p])
          /\ \A i \in 1 .. Len(accepted[p]) : accepted[p][i] = log[p][i]
      BY <1>2, <2>2 DEF HonestInv
    <3>2. CASE p # q
      BY <1>3, <2>1, <3>1, <3>2
    <3>3. CASE p = q
      <4> DEFINE n == Len(accepted[p])
                 longer == Append(accepted[p], rec)
      <4>1. accepted'[p] = longer
        BY <1>1, <1>3, <2>1, <3>3
      <4>2. n + 1 <= Len(log[p]) /\ rec = log[p][n + 1]
        BY <1>2, <2>2, <3>3 DEF NextGenuine
      <4>3. /\ n \in Nat /\ Len(longer) = n + 1 /\ longer[n + 1] = rec
            /\ \A i \in 1 .. n : longer[i] = accepted[p][i]
        BY <1>3
      <4> HIDE DEF longer
      <4> QED BY <3>1, <4>1, <4>2, <4>3
    <3> QED BY <3>2, <3>3
  <2>3. HonestExportVerifies'
    BY <2>1 DEF HonestExportVerifies
  <2> QED BY <1>2, <2>1, <2>2, <2>3, ReaderKeepsHonest
<1>5. CASE RefuseRecord(rec)
  <2>1. UNCHANGED <<opts, accepted>> /\ CheckRecord(opts, pools[q], rec) # "ok"
    BY <1>5 DEF RefuseRecord
  <2>2. HonestExportVerifies'
    <3>1. SUFFICES ASSUME clean', HonestOptions' PROVE FALSE
      BY DEF HonestExportVerifies
    <3>2. HonestOptions
      BY <1>2, <2>1, <3>1 DEF HonestOptions
    <3> QED BY <1>2, <2>1, <3>1, <3>2, NextGenuineAccepted
  <2>3. clean' => clean
    BY <1>2
  <2>4. clean' => \A p \in Pools :
           /\ Len(accepted'[p]) <= Len(log[p])
           /\ \A i \in 1 .. Len(accepted'[p]) : accepted'[p][i] = log[p][i]
    BY <2>1, <2>3 DEF HonestInv
  <2> QED BY <1>2, <2>2, <2>4, ReaderKeepsHonest
<1> QED BY <1>2, <1>4, <1>5 DEF VerifyRecord

\* A step that reads nothing and writes nothing.
LEMMA QuietHonest ==
  ASSUME HonestInv, UNCHANGED <<log, books, accepted, clean, opts, verdict>>, writing' => writing
  PROVE  HonestInv'
<1>1. HonestOptions' => HonestOptions
  BY DEF HonestOptions
<1>2. HonestExportVerifies'
  BY <1>1 DEF HonestInv, HonestExportVerifies
<1>3. clean' => \A p \in Pools :
        /\ Len(accepted'[p]) <= Len(log[p])
        /\ \A i \in 1 .. Len(accepted'[p]) : accepted'[p][i] = log[p][i]
  BY DEF HonestInv
<1>4. writing' => verdict' = "reading"
  BY DEF HonestInv
<1> QED BY <1>2, <1>3, <1>4, ReaderKeepsHonest

\* Every step keeps honest logs replayable, and a reader who is handed them unaltered unrefused.
LEMMA NextHonest ==
  ASSUME WholeUnits
  PROVE  FileInv /\ BooksInv /\ HonestInv /\ [FileNext]_allVars => HonestInv'
<1> SUFFICES ASSUME FileInv, BooksInv, HonestInv, [FileNext]_allVars PROVE HonestInv'
  OBVIOUS
<1>1. CASE OperatorNext
  <2>1. PICK p \in Pools : WriteMint(p) \/ WriteBurn(p) \/ WriteQuiet(p) \/ WriteEpoch(p)
    BY <1>1 DEF OperatorNext
  <2>2. PICK e, newBooks : Writes(p, e, newBooks)
    BY <2>1, OperatorWrites
  <2> QED BY <2>2, WriteHonest
<1>2. CASE TakeExport
  BY <1>2, QuietHonest DEF TakeExport, vars
<1>3. CASE ReadGenuine
  BY <1>3, GenuineRecords, ReadHonest DEF ReadGenuine, FileInv
<1>4. CASE ReadAltered
  BY <1>4, AlteredRecords, ReadHonest DEF ReadAltered, FileInv, ChainInv
<1>5. CASE ReadGarbage
  <2>1. UNCHANGED <<log, books, writing>> /\ ~writing /\ ~clean'
    BY <1>5 DEF ReadGarbage
  <2>2. HonestExportVerifies'
    BY <2>1 DEF HonestExportVerifies
  <2> QED BY <2>1, <2>2, ReaderKeepsHonest
<1>6. CASE ReadEnd
  <2>1. /\ UNCHANGED <<log, books, writing, clean, accepted, opts>> /\ ~writing
        /\ verdict' = IF \A p \in Pools : AccountSumOk(pools[p]) THEN "ok" ELSE "replay"
    BY <1>6 DEF ReadEnd, EndOfExport, fileVars
  <2>2. verdict' = "ok"
    BY <2>1 DEF BooksInv, Inv, BalancesSumToTotal, AccountSumOk
  <2>3. HonestExportVerifies'
    BY <2>2 DEF HonestExportVerifies
  <2>4. clean' => \A p \in Pools :
          /\ Len(accepted'[p]) <= Len(log[p])
          /\ \A i \in 1 .. Len(accepted'[p]) : accepted'[p][i] = log[p][i]
    BY <2>1 DEF HonestInv
  <2> QED BY <2>1, <2>3, <2>4, ReaderKeepsHonest
<1>7. CASE UNCHANGED allVars
  BY <1>7, QuietHonest DEF allVars
<1> QED BY <1>1, <1>2, <1>3, <1>4, <1>5, <1>6, <1>7 DEF FileNext

\* No false alarm, whatever the registry, the rotations and the length of the log: the export of
\* an operator that counts in whole canonical units is never refused as long as it is read
\* unaltered and in order (verify.go checks 1 to 3 all pass).
THEOREM HonestExportsVerify ==
  ASSUME WholeUnits
  PROVE  FileSpec => []HonestExportVerifies
<1> DEFINE I == FileInv /\ BooksInv /\ HonestInv
<1>1. FileInit => I
  BY FileInitInv, InitBooks, InitHonest DEF FileInit
<1>2. I /\ [FileNext]_allVars => I'
  BY FileNextInv, NextBooks, NextHonest
<1>3. I => HonestExportVerifies
  BY DEF HonestInv
<1> QED BY <1>1, <1>2, <1>3, PTL DEF FileSpec

-----------------------------------------------------------------------------
(* An epoch settlement raises no alarm *)

\* What the settlement has frozen once it settles: amounts that satisfy the checks to come.
FrozenInv ==
  settling =>
    /\ SharesAfterFee > 0 => Mid > 0
    /\ frozen.feeShares = (IF frozen.fee > 0 /\ frozen.sharesOpen > 0 /\ Mid - frozen.fee > 0
                           THEN FloorRatioShares(frozen.fee * frozen.sharesOpen, Mid - frozen.fee)
                           ELSE 0)
    /\ Replica.hasPrevEpoch => frozen.assetsOpen = Replica.prevAssetsClose

FrozenType ==
  [assetsOpen : Int, ggr : Int, capNet : Int, fee : Nat, feeShares : Nat, sharesOpen : Nat]

\* The log of the pool so far is the settlement's.
ReplicaInv ==
  /\ Replica.operator \in {Absent, Operator}
  /\ Replica.events = 0 => Replica.head = Genesis

SettlementInv ==
  /\ Inv /\ HonestEpochsVerify /\ ReplicaInv
  /\ assets \in Int /\ settling \in BOOLEAN /\ frozen \in FrozenType
  /\ AssetsFollowReplay /\ FrozenInv

\* The account 1 exists, and so does the state of the pool.
LEMMA SettledPool ==
  ASSUME Inv
  PROVE  /\ Pool \in Pools /\ Treasury \in Accounts /\ 1 \in Accounts
         /\ Replica \in PoolStates /\ SumAccounts(Replica.accounts) = Replica.total
         /\ opts \in OptionSets
<1>1. Pool \in Pools /\ Treasury \in Accounts /\ 1 \in Accounts
  BY SettlementAssumption, NumAccountsAssumption DEF Accounts
<1> QED BY <1>1 DEF Inv, TypeOK, BalancesSumToTotal, Replica

\* Before the first epoch.
LEMMA InitSettlement == SettlementInit => SettlementInv
<1> SUFFICES ASSUME SettlementInit PROVE SettlementInv
  OBVIOUS
<1>1. Inv /\ verdict = "reading"
  BY InitInv DEF SettlementInit, Init
<1>2. Replica = EmptyPool
  BY SettlementAssumption DEF SettlementInit, Init, Replica
<1>3. /\ Replica.operator = Absent /\ Replica.head = Genesis /\ Replica.epochAssetDelta = 0
      /\ Replica.hasPrevEpoch = FALSE
  BY <1>2 DEF EmptyPool
<1>4. frozen \in FrozenType /\ assets = 0 /\ settling = FALSE
  BY DEF SettlementInit, NothingFrozen, FrozenType
<1>5. AssetsFollowReplay /\ FrozenInv
  BY <1>3, <1>4 DEF AssetsFollowReplay, FrozenInv
<1>6. ReplicaInv /\ assets \in Int
  BY <1>3, <1>4 DEF ReplicaInv
<1> QED BY <1>1, <1>4, <1>5, <1>6 DEF SettlementInv, HonestEpochsVerify

\* Whole units of shares are in canonical form.
LEMMA FloorIsCanonical ==
  ASSUME NEW x \in Nat, NEW d \in Nat \ {0}
  PROVE  /\ FloorRatioShares(x, d) \in Nat
         /\ CanonicalAmount(FloorRatioShares(x, d)) = FloorRatioShares(x, d)
<1>1. PICK k \in Nat : k = (x \div d) \div SubScale
  BY ScaleAssumption
<1>2. SubScale \in Nat \ {0} /\ SubScale * k \in Nat
  BY <1>1, ScaleAssumption
<1>3. FloorRatioShares(x, d) = SubScale * k
  BY <1>1 DEF FloorRatioShares
<1>4. RoundQuo(SubScale * k, SubScale) = k
  <2>1. (2 * (SubScale * k) + SubScale) \div (2 * SubScale) = k
    <3>1. 2 * (SubScale * k) + SubScale = (2 * SubScale) * k + SubScale
      BY <1>1, <1>2
    <3> DEFINE w == 2 * SubScale
    <3>2. w \in Nat \ {0} /\ 0 <= SubScale /\ SubScale < w
      BY <1>2
    <3> HIDE DEF w
    <3>3. (w * k + SubScale) \div w = k
      BY <1>1, <1>2, <3>2
    <3> QED BY <3>1, <3>3 DEF w
  <2> QED BY <1>2, <2>1 DEF RoundQuo
<1>5. SubScale * k # Absent
  BY <1>2, SentinelAssumption
<1> QED BY <1>2, <1>3, <1>4, <1>5 DEF CanonicalAmount

\* An entry of the settlement: of its pool and operator, in canonical form.
Settles(e) ==
  /\ e \in Entries
  /\ e.schema = 2 /\ e.operator = Operator /\ e.pool = Pool /\ e.ts = 1
  /\ e.type \in STRING
  /\ CanonicalAmount(e.amount) = e.amount /\ CanonicalAmount(e.shares) = e.shares

\* So the line made of it carries it unchanged.
LEMMA SettledIsCanonical ==
  ASSUME NEW e, Settles(e)
  PROVE  Canonical(e) = e
<1> DEFINE amount == CanonicalAmount(e.amount)
           shares == CanonicalAmount(e.shares)
<1>1. amount = e.amount /\ shares = e.shares /\ e \in Entries
  BY DEF Settles
<1>2. Canonical(e) = [e EXCEPT !.amount = amount, !.shares = shares]
  BY DEF Canonical
<1> HIDE DEF amount, shares
<1> QED BY <1>1, <1>2 DEF Entries

\* The verifier's state of the pool after the entry.
Reads(e) ==
  /\ Inv' /\ HonestEpochsVerify' /\ ReplicaInv'
  /\ Books(Replica, e, Replica') /\ [Next]_vars

\* An event that replays is accepted as it was appended.
LEMMA AppendedIsRead ==
  ASSUME SettlementInv, NEW e, Settles(e), CanReplay(Replica, e), Appended(e)
  PROVE  Reads(e)
<1> DEFINE made == [seq |-> Replica.lastSeq + 1, entry |-> e, prevHash |-> Replica.head,
                    entryHash |-> ChainEntry(Replica.head, e),
                    signature |-> NoSignature, keyId |-> Absent]
           rec == MarshalLine(made)
<1>1. /\ Pool \in Pools /\ Replica \in PoolStates /\ opts \in OptionSets /\ Inv
      /\ verdict = "reading" /\ ReplicaInv /\ e \in Entries
  BY SettledPool DEF SettlementInv, HonestEpochsVerify, Settles
<1>2. rec = made
  BY SettledIsCanonical DEF MarshalLine
<1>3. /\ rec.seq = Replica.lastSeq + 1 /\ rec.entry = e /\ rec.prevHash = Replica.head
      /\ rec.entryHash = ChainEntry(Replica.head, e) /\ rec.signature = NoSignature
  BY <1>2
<1>4. rec \in ExportRecords
  <2>1. Replica.head \in Hashes /\ Replica.lastSeq + 1 \in Int
    BY <1>1 DEF PoolStates
  <2>2. ChainEntry(Replica.head, e) \in Hashes
    BY <1>1, <2>1, ChainEntryType
  <2>3. NoSignature \in [key : KeyIds \cup {Absent}, over : Hashes]
    BY DEF NoSignature, Genesis, Hashes
  <2> QED BY <1>1, <1>2, <2>1, <2>2, <2>3 DEF ExportRecords
<1>5. VerifyRecord(rec)
  BY DEF Appended
<1> HIDE DEF rec, made
<1>6. ChainOk(Replica, rec)
  <2>1. Valid(e)
    <3>1. Absent # Operator /\ Absent # e.type /\ Absent # Pool /\ Absent # 1
      BY <1>1, NamesAssumption, SentinelAssumption, SettlementAssumption DEF Settles
    <3> QED BY <3>1 DEF Valid, Settles, SchemaVersions
  <2>2. Replica.lastSeq \in Int
    BY <1>1 DEF PoolStates
  <2>3. Replica.operator # Absent => e.operator = Replica.operator
    BY <1>1 DEF ReplicaInv, Settles
  <2> QED BY <1>1, <1>3, <2>1, <2>2, <2>3 DEF ChainOk, ReplicaInv, Settles, SchemaVersions
<1>7. SignatureOk(opts, rec)
  BY <1>1, <1>3, UnsignedAssumption DEF SignatureOk, IsUnsigned, SigningWasActive
<1>8. CheckRecord(opts, Replica, rec) = "ok"
  BY <1>3, <1>6, <1>7 DEF CheckRecord
<1>9. rec.entry.pool = Pool
  BY <1>3 DEF Settles
<1>10. AcceptRecord(rec)
  BY <1>5, <1>8, <1>9 DEF VerifyRecord, RefuseRecord, Replica
<1>11. Next /\ Inv'
  BY <1>1, <1>4, <1>10, NextInv DEF Next, VerifyRecord
<1>12. Replica' = Advanced(opts, Replica, rec) /\ verdict' = "reading"
  BY <1>1, <1>9, <1>10 DEF AcceptRecord, Replica, Inv, TypeOK
<1>13. Books(Replica, e, Replica')
  BY <1>1, <1>3, <1>4, <1>12, AdvancedBooks
<1>14. ReplicaInv'
  <2>1. /\ Replica'.operator = IF Replica.operator = Absent THEN e.operator
                               ELSE Replica.operator
        /\ Replica'.events = Replica.events + 1
    BY <1>1, <1>3, <1>4, <1>12, AdvancedFields
  <2>2. Replica.events \in Nat
    BY <1>1 DEF PoolStates
  <2>3. Replica'.events # 0
    BY <2>1, <2>2
  <2> QED BY <1>1, <2>1, <2>3 DEF ReplicaInv, Settles
<1> QED BY <1>11, <1>12, <1>13, <1>14 DEF Reads, HonestEpochsVerify

\* What an amount in canonical form may be.
Figures == {x \in Nat \cup {Absent} : CanonicalAmount(x) = x}

\* Such an entry is one the log may hold.
LEMMA EventSettles ==
  ASSUME NEW type \in SettledTypes, NEW account \in Accounts \cup {Absent}, NEW amount \in Figures,
         NEW shares \in Figures, NEW payload \in [PayloadKeys -> Int \cup {Absent, Malformed}]
  PROVE  /\ Settles(SettlementEvent(type, account, amount, shares, payload))
         /\ NonNegative(amount) /\ NonNegative(shares)
<1>1. /\ amount \in Int \cup {Absent} /\ shares \in Int \cup {Absent}
      /\ CanonicalAmount(amount) = amount /\ CanonicalAmount(shares) = shares
      /\ NonNegative(amount) /\ NonNegative(shares)
  BY DEF Figures, NonNegative
<1>2. Pool \in Pools /\ type \in STRING /\ Operator \in STRING
  BY SettlementAssumption
<1>3. SettlementEvent(type, account, amount, shares, payload) \in Entries
  BY <1>1, <1>2 DEF SettlementEvent, Entries
<1> QED BY <1>1, <1>2, <1>3 DEF Settles, SettlementEvent

\* No figure, a flow and a floored figure are in canonical form, and no payload is one.
LEMMA FigureTypes ==
  /\ Absent \in Figures
  /\ \A x \in Flows : x \in Figures /\ x \in Nat
  /\ \A x \in Nat, d \in Nat \ {0} :
       FloorRatioShares(x, d) \in Figures /\ FloorRatioShares(x, d) \in Nat
  /\ NoPayload \in [PayloadKeys -> Int \cup {Absent, Malformed}]
<1>1. Absent \in Figures
  BY DEF Figures, CanonicalAmount
<1>2. \A x \in Flows : x \in Figures /\ x \in Nat
  BY SettlementAssumption DEF Figures
<1>3. \A x \in Nat, d \in Nat \ {0} :
        FloorRatioShares(x, d) \in Figures /\ FloorRatioShares(x, d) \in Nat
  BY FloorIsCanonical DEF Figures
<1> QED BY <1>1, <1>2, <1>3 DEF NoPayload

\* What a change of the frozen figures, the assets and the pool has to keep.
LEMMA SettlementKeeps ==
  ASSUME Inv', HonestEpochsVerify', ReplicaInv', assets' \in Int, settling' \in BOOLEAN,
         frozen' \in FrozenType, AssetsFollowReplay', FrozenInv'
  PROVE  SettlementInv'
BY DEF SettlementInv

\* Money in escrow is outside the pool: nothing the verifier replays changes.
LEMMA EscrowSettles ==
  ASSUME SettlementInv, NEW amount \in Flows, Escrow(amount)
  PROVE  SettlementInv' /\ [Next]_vars
<1> DEFINE e == SettlementEvent("STAKE", 1, amount, Absent, NoPayload)
<1>1. Appended(e) /\ UNCHANGED <<assets, settling, frozen>>
  BY DEF Escrow
<1>2. 1 \in Accounts /\ Replica \in PoolStates
  BY SettledPool DEF SettlementInv
<1>3. Settles(e) /\ NonNegative(amount) /\ NonNegative(Absent)
  BY <1>2, FigureTypes, EventSettles DEF SettledTypes
<1>4. e.type = "STAKE" /\ e.shares = Absent /\ e.amount = amount
  BY DEF SettlementEvent
<1> HIDE DEF e
<1>5. CanReplay(Replica, e)
  BY <1>3, <1>4 DEF CanReplay
<1>6. Reads(e)
  BY <1>1, <1>3, <1>5, AppendedIsRead
<1>7. Flow(e) = 0 /\ ~ IsEpoch(e) /\ ~ ClosesAssets(e)
  BY <1>4 DEF Flow, IsEpoch, ClosesAssets
<1>8. /\ Replica'.epochAssetDelta = Replica.epochAssetDelta
      /\ Replica'.prevAssetsClose = Replica.prevAssetsClose
      /\ Replica'.hasPrevEpoch = Replica.hasPrevEpoch
  BY <1>2, <1>6, <1>7 DEF Reads, Books, PoolStates
<1>9. Mid' = Mid /\ SharesAfterFee' = SharesAfterFee
  BY <1>1 DEF Mid, SharesAfterFee
<1>10. AssetsFollowReplay' /\ FrozenInv'
  BY <1>1, <1>8, <1>9 DEF SettlementInv, AssetsFollowReplay, FrozenInv
<1> QED BY <1>1, <1>6, <1>10, SettlementKeeps DEF Reads, SettlementInv

\* A flow at the frozen price moves the assets as the verifier's stake movement.
LEMMA FlowSettles ==
  ASSUME SettlementInv, settling, NEW e, Settles(e), CanReplay(Replica, e), Appended(e),
         ~ IsEpoch(e), Flow(e) \in Int, assets' = assets + Flow(e),
         UNCHANGED <<settling, frozen>>
  PROVE  SettlementInv' /\ [Next]_vars
<1>1. Reads(e) /\ ~ ClosesAssets(e)
  BY AppendedIsRead DEF ClosesAssets
<1>2. /\ Replica'.epochAssetDelta = Replica.epochAssetDelta + Flow(e)
      /\ Replica'.prevAssetsClose = Replica.prevAssetsClose
      /\ Replica'.hasPrevEpoch = Replica.hasPrevEpoch
  BY <1>1, SettledPool DEF Reads, Books, PoolStates, SettlementInv
<1>3. Mid' = Mid /\ SharesAfterFee' = SharesAfterFee /\ Mid \in Int
  BY DEF Mid, SharesAfterFee, SettlementInv, FrozenType
<1>4. Replica.epochAssetDelta \in Int /\ assets \in Int
  BY SettledPool DEF SettlementInv, PoolStates
<1>5. AssetsFollowReplay'
  BY <1>2, <1>3, <1>4 DEF SettlementInv, AssetsFollowReplay
<1>6. FrozenInv'
  BY <1>2, <1>3 DEF SettlementInv, FrozenInv
<1>7. assets' \in Int
  BY <1>4
<1> QED BY <1>1, <1>5, <1>6, <1>7, SettlementKeeps DEF Reads, SettlementInv

\* The figures of the price.
LEMMA PriceTypes ==
  ASSUME SettlementInv, settling
  PROVE  /\ Mid \in Int /\ SharesAfterFee \in Nat
         /\ SharesAfterFee > 0 => Mid \in Nat \ {0} /\ SharesAfterFee \in Nat \ {0}
<1>1. Mid \in Int /\ SharesAfterFee \in Nat
  BY DEF SettlementInv, FrozenType, Mid, SharesAfterFee
<1> QED BY <1>1 DEF SettlementInv, FrozenInv

\* A product of naturals is one.
LEMMA ProductType ==
  ASSUME NEW x \in Nat, NEW y \in Nat
  PROVE  x * y \in Nat
OBVIOUS

\* A subscription is a mint at the frozen price.
LEMMA SubscribeSettles ==
  ASSUME SettlementInv, NEW a \in Accounts, NEW amount \in Flows, Subscribe(a, amount)
  PROVE  SettlementInv' /\ [Next]_vars
<1> DEFINE shares == SharesFor(amount)
           e == SettlementEvent("STAKE", a, amount, shares, NoPayload)
<1>1. shares \in Figures /\ shares \in Nat /\ amount \in Figures /\ amount \in Nat
  <2>1. amount \in Figures /\ amount \in Nat
    BY FigureTypes
  <2>2. CASE SharesAfterFee > 0
    <3>1. Mid \in Nat \ {0} /\ amount * SharesAfterFee \in Nat
      BY <2>1, <2>2, PriceTypes, ProductType DEF Subscribe
    <3>2. SharesFor(amount) = FloorRatioShares(amount * SharesAfterFee, Mid)
      BY <2>2 DEF SharesFor
    <3> QED BY <2>1, <3>1, <3>2, FigureTypes
  <2>3. CASE ~ (SharesAfterFee > 0)
    BY <2>1, <2>3 DEF SharesFor
  <2> QED BY <2>2, <2>3
<1>2. Appended(e) /\ settling /\ UNCHANGED <<settling, frozen>> /\ assets' = assets + amount
  BY DEF Subscribe
<1> HIDE DEF shares
<1>3. Settles(e) /\ NonNegative(amount) /\ NonNegative(shares)
  BY <1>1, FigureTypes, EventSettles DEF SettledTypes
<1>4. e.type = "STAKE" /\ e.shares = shares /\ e.amount = amount /\ e.account = a
  BY DEF SettlementEvent
<1> HIDE DEF e
<1>5. amount # Absent /\ shares # Absent /\ a # Absent
  BY <1>1, SentinelAssumption DEF Accounts
<1>6. CanReplay(Replica, e)
  BY <1>3, <1>4, <1>5 DEF CanReplay, NamesShares
<1>7. Flow(e) = amount /\ ~ IsEpoch(e)
  BY <1>4, <1>5 DEF Flow, IsEpoch, AmountOf
<1> QED BY <1>1, <1>2, <1>3, <1>6, <1>7, FlowSettles

\* A redemption is a burn at the frozen price, of shares the account holds.
LEMMA RedeemSettles ==
  ASSUME SettlementInv, NEW a \in Accounts, NEW shares \in Flows, Redeem(a, shares)
  PROVE  SettlementInv' /\ [Next]_vars
<1> DEFINE payout == PayoutFor(shares)
           e == SettlementEvent("UNSTAKE_BURN", a, payout, shares, NoPayload)
<1>1. payout \in Figures /\ payout \in Nat /\ shares \in Figures /\ shares \in Nat
  <2>1. shares \in Figures /\ shares \in Nat
    BY FigureTypes
  <2>2. Mid \in Nat /\ SharesAfterFee \in Nat \ {0}
    BY PriceTypes DEF Redeem
  <2>3. shares * Mid \in Nat
    BY <2>1, <2>2, ProductType
  <2> QED BY <2>1, <2>2, <2>3, FigureTypes DEF PayoutFor
<1>2. /\ Appended(e) /\ settling /\ UNCHANGED <<settling, frozen>>
      /\ assets' = assets - payout /\ shares <= Replica.accounts[a]
  BY DEF Redeem
<1> HIDE DEF payout
<1>3. Settles(e) /\ NonNegative(payout) /\ NonNegative(shares)
  BY <1>1, FigureTypes, EventSettles DEF SettledTypes
<1>4. e.type = "UNSTAKE_BURN" /\ e.shares = shares /\ e.amount = payout /\ e.account = a
  BY DEF SettlementEvent
<1> HIDE DEF e
<1>5. payout # Absent /\ shares # Absent /\ a # Absent
  BY <1>1, SentinelAssumption DEF Accounts
<1>6. CanReplay(Replica, e)
  <2>1. Replica.accounts \in [Accounts -> Nat] /\ Replica.total \in Nat
    BY SettledPool DEF SettlementInv, PoolStates
  <2>2. Replica.accounts[a] \in Nat /\ Replica.accounts[a] <= Replica.total
    BY <2>1, SumBoundsBalance, SettledPool DEF SettlementInv
  <2>3. CanBurn(Replica, e)
    BY <1>1, <1>2, <1>4, <1>5, <2>1, <2>2 DEF CanBurn, NamesShares
  <2> QED BY <1>3, <1>4, <2>3 DEF CanReplay, BurnTypes
<1>7. Flow(e) = -payout /\ ~ IsEpoch(e)
  BY <1>4, <1>5 DEF Flow, IsEpoch, AmountOf
<1>8. Flow(e) \in Int /\ assets' = assets + Flow(e)
  BY <1>1, <1>2, <1>7 DEF SettlementInv
<1> QED BY <1>2, <1>3, <1>6, <1>7, <1>8, FlowSettles

\* Freezing an epoch: the verifier's pool and the settlement's figures agree as it starts, and
\* the fee shares are those the verifier will compute.
LEMMA StartSettles ==
  ASSUME SettlementInv, NEW ggr \in Results, NEW capNet \in Capital, NEW fee \in Fees,
         StartEpoch(ggr, capNet, fee)
  PROVE  SettlementInv' /\ [Next]_vars
<1> DEFINE mid == assets + ggr + capNet
           total == Replica.total
           feeShares == IF fee > 0 /\ total > 0
                        THEN FloorRatioShares(fee * total, mid - fee) ELSE 0
           e == SettlementEvent("FEE_MINT", Treasury, Absent, feeShares, NoPayload)
<1>1. /\ ~ settling /\ settling' = TRUE /\ assets' = mid
      /\ total > 0 => mid > 0
      /\ mid > fee \/ fee = 0
      /\ frozen' = [assetsOpen |-> assets, ggr |-> ggr, capNet |-> capNet, fee |-> fee,
                    feeShares |-> feeShares, sharesOpen |-> total]
      /\ IF feeShares > 0 THEN Appended(e) ELSE UNCHANGED vars
  BY DEF StartEpoch
<1>2. /\ Treasury \in Accounts /\ Replica \in PoolStates /\ total \in Nat
      /\ Replica.epochAssetDelta = 0
      /\ Replica.hasPrevEpoch => assets = Replica.prevAssetsClose
  BY <1>1, SettledPool DEF SettlementInv, PoolStates, AssetsFollowReplay
<1>3. ggr \in Int /\ capNet \in Int /\ fee \in Nat /\ assets \in Int /\ mid \in Int
  BY SettlementAssumption DEF SettlementInv
<1> HIDE DEF total, mid
<1>4. feeShares \in Nat /\ (feeShares > 0 => feeShares \in Figures)
  <2>1. CASE fee > 0 /\ total > 0
    <3>1. fee * total \in Nat /\ mid - fee \in Nat \ {0}
      BY <1>1, <1>2, <1>3, <2>1, ProductType
    <3> QED BY <2>1, <3>1, FigureTypes
  <2>2. CASE ~ (fee > 0 /\ total > 0)
    BY <2>2
  <2> QED BY <2>1, <2>2
<1>5. Replica'.epochAssetDelta = 0 /\ Replica'.hasPrevEpoch = Replica.hasPrevEpoch
      /\ Replica'.prevAssetsClose = Replica.prevAssetsClose
      /\ Inv' /\ HonestEpochsVerify' /\ ReplicaInv' /\ [Next]_vars
  <2>1. CASE feeShares > 0
    <3> HIDE DEF feeShares
    <3>1. Settles(e) /\ NonNegative(Absent) /\ NonNegative(feeShares)
      BY <1>2, <1>4, <2>1, FigureTypes, EventSettles DEF SettledTypes
    <3>2. e.type = "FEE_MINT" /\ e.shares = feeShares /\ e.amount = Absent
          /\ e.account = Treasury
      BY DEF SettlementEvent
    <3>3. Appended(e)
      BY <1>1, <2>1
    <3> HIDE DEF e
    <3>4. feeShares # Absent /\ Treasury # Absent
      BY <1>2, <1>4, SentinelAssumption DEF Accounts
    <3>5. CanReplay(Replica, e)
      BY <3>1, <3>2, <3>4 DEF CanReplay, NamesShares, MintTypes
    <3>6. Reads(e)
      BY <3>1, <3>3, <3>5, AppendedIsRead
    <3>7. Flow(e) = 0 /\ ~ IsEpoch(e) /\ ~ ClosesAssets(e)
      BY <3>2 DEF Flow, IsEpoch, ClosesAssets
    <3> QED BY <1>2, <3>6, <3>7 DEF Reads, Books, PoolStates
  <2>2. CASE ~ (feeShares > 0)
    <3>1. UNCHANGED vars
      BY <1>1, <2>2
    <3>2. Replica' = Replica /\ Inv'
      BY <3>1 DEF vars, Replica, SettlementInv, Inv, TypeOK, BalancesSumToTotal
    <3> QED BY <1>2, <3>1, <3>2 DEF SettlementInv, vars, HonestEpochsVerify, ReplicaInv
  <2> QED BY <2>1, <2>2
<1>6. frozen' \in FrozenType
  BY <1>1, <1>2, <1>3, <1>4 DEF FrozenType
<1>7. /\ frozen'.assetsOpen = assets /\ frozen'.fee = fee /\ frozen'.feeShares = feeShares
      /\ frozen'.sharesOpen = total
      /\ Mid' = mid /\ SharesAfterFee' = total + feeShares
  BY <1>1 DEF Mid, SharesAfterFee, mid
<1>8. AssetsFollowReplay'
  BY <1>1, <1>3, <1>5, <1>7 DEF AssetsFollowReplay
<1>9. FrozenInv'
  <2>1. total + feeShares > 0 => mid > 0
    BY <1>1, <1>2, <1>3
  <2>2. feeShares = IF fee > 0 /\ total > 0 /\ mid - fee > 0
                    THEN FloorRatioShares(fee * total, mid - fee) ELSE 0
    BY <1>1, <1>3
  <2> HIDE DEF feeShares
  <2> QED BY <1>2, <1>5, <1>7, <2>1, <2>2 DEF FrozenInv
<1> QED BY <1>1, <1>3, <1>5, <1>6, <1>8, <1>9, SettlementKeeps

\* The closing figures, field by field.
LEMMA ClosingFields ==
  ASSUME SettlementInv, settling
  PROVE  LET p == ClosingPayload
         IN  /\ p["assets_open"] = frozen.assetsOpen /\ p["assets_close"] = assets
             /\ p["ggr"] = frozen.ggr /\ p["cap_net"] = frozen.capNet /\ p["fee"] = frozen.fee
             /\ p["fee_shares"] = frozen.feeShares /\ p["shares_open"] = frozen.sharesOpen
             /\ p["shares_close"] = Replica.total
             /\ SharesAfterFee > 0 => p["price"] = DivRound(Mid, SharesAfterFee)
             /\ p \in [PayloadKeys -> Int]
<1> DEFINE price == IF SharesAfterFee > 0 THEN DivRound(Mid, SharesAfterFee) ELSE 0
<1>1. price \in Int
  <2>1. CASE SharesAfterFee > 0
    <3>1. Mid * PriceScale \in Int /\ SharesAfterFee \in Nat \ {0}
      BY <2>1, PriceTypes, ScaleAssumption
    <3> QED BY <2>1, <3>1, RoundQuoType DEF DivRound
  <2>2. CASE ~ (SharesAfterFee > 0)
    BY <2>2
  <2> QED BY <2>1, <2>2
<1>2. Replica.total \in Int
  BY SettledPool DEF SettlementInv, PoolStates
<1>3. /\ frozen.assetsOpen \in Int /\ frozen.ggr \in Int /\ frozen.capNet \in Int
      /\ frozen.fee \in Int /\ frozen.feeShares \in Int /\ frozen.sharesOpen \in Int
      /\ assets \in Int
  BY DEF SettlementInv, FrozenType
<1> DEFINE p == ClosingPayload
<1> HIDE DEF price
<1>4. p = [assets_open |-> frozen.assetsOpen, assets_close |-> assets,
           ggr |-> frozen.ggr, cap_net |-> frozen.capNet,
           fee |-> frozen.fee, fee_shares |-> frozen.feeShares,
           shares_open |-> frozen.sharesOpen, shares_close |-> Replica.total,
           price |-> price]
  BY DEF ClosingPayload, price
<1> HIDE DEF p
<1>5. /\ p["assets_open"] = frozen.assetsOpen /\ p["assets_close"] = assets
      /\ p["ggr"] = frozen.ggr /\ p["cap_net"] = frozen.capNet /\ p["fee"] = frozen.fee
      /\ p["fee_shares"] = frozen.feeShares /\ p["shares_open"] = frozen.sharesOpen
      /\ p["shares_close"] = Replica.total /\ p["price"] = price
  BY <1>4
<1>6. DOMAIN p = PayloadKeys /\ p = [k \in DOMAIN p |-> p[k]]
  BY <1>4 DEF PayloadKeys
<1>7. \A k \in PayloadKeys : p[k] \in Int
  BY <1>1, <1>2, <1>3, <1>5 DEF PayloadKeys
<1>8. p \in [PayloadKeys -> Int]
  BY <1>6, <1>7
<1> QED BY <1>5, <1>8 DEF p, price

\* The close passes all four checks of schema 2 and the check of the shares.
LEMMA SettledCloses ==
  ASSUME SettlementInv, settling, NEW e, e.payload = ClosingPayload, e.shares = Absent
  PROVE  CanClose(Replica, e)
<1> DEFINE p == ClosingPayload
<1>1. /\ p["assets_open"] = frozen.assetsOpen /\ p["assets_close"] = assets
      /\ p["ggr"] = frozen.ggr /\ p["cap_net"] = frozen.capNet /\ p["fee"] = frozen.fee
      /\ p["fee_shares"] = frozen.feeShares /\ p["shares_open"] = frozen.sharesOpen
      /\ p["shares_close"] = Replica.total
      /\ SharesAfterFee > 0 => p["price"] = DivRound(Mid, SharesAfterFee)
      /\ p \in [PayloadKeys -> Int]
  BY ClosingFields
<1>2. e.payload = p
  OBVIOUS
<1> HIDE DEF p
<1>3. \A k \in PayloadKeys : IsAmount(p[k])
  BY <1>1, SentinelAssumption DEF IsAmount
<1>4. AssetsMid(p) = Mid /\ p["shares_open"] + p["fee_shares"] = SharesAfterFee
  BY <1>1 DEF AssetsMid, Mid, SharesAfterFee
<1>5. ParsesV2(p) /\ IsAmount(p["shares_close"])
  BY <1>3 DEF ParsesV2, PayloadKeys
<1>6. PriceOk(p)
  BY <1>1, <1>4 DEF PriceOk
<1>7. AssetChainOk(Replica, p)
  BY <1>1 DEF AssetChainOk, SettlementInv, FrozenInv
<1>8. EpochInvariantOk(Replica, p)
  BY <1>1, <1>4 DEF EpochInvariantOk, SettlementInv, AssetsFollowReplay
<1>9. FeeSharesOk(p)
  BY <1>1, <1>4 DEF FeeSharesOk, WantFeeShares, SettlementInv, FrozenInv
<1>10. AccountSumOk(Replica)
  BY SettledPool DEF AccountSumOk, SettlementInv
<1> QED BY <1>1, <1>2, <1>5, <1>6, <1>7, <1>8, <1>9, <1>10 DEF CanClose

\* So the close is accepted, and the next epoch starts from its assets.
LEMMA CloseSettles ==
  ASSUME SettlementInv, CloseEpoch
  PROVE  SettlementInv' /\ [Next]_vars
<1> DEFINE e == SettlementEvent("EPOCH", Absent, Absent, Absent, ClosingPayload)
<1>1. /\ settling /\ Appended(e) /\ settling' = FALSE /\ assets' = assets
      /\ frozen' = NothingFrozen
  BY DEF CloseEpoch
<1>2. /\ ClosingPayload \in [PayloadKeys -> Int \cup {Absent, Malformed}]
      /\ ClosingPayload["assets_close"] = assets
  BY <1>1, ClosingFields
<1>3. Settles(e) /\ NonNegative(Absent)
  BY <1>2, FigureTypes, EventSettles DEF SettledTypes
<1>4. /\ e.type = "EPOCH" /\ e.shares = Absent /\ e.amount = Absent
      /\ e.payload = ClosingPayload
  BY DEF SettlementEvent
<1> HIDE DEF e
<1>5. CanReplay(Replica, e)
  BY <1>1, <1>3, <1>4, SettledCloses DEF CanReplay
<1>6. Reads(e)
  BY <1>1, <1>3, <1>5, AppendedIsRead
<1>7. IsAmount(assets)
  BY SentinelAssumption DEF IsAmount, SettlementInv
<1>8. IsEpoch(e) /\ ClosesAssets(e)
  BY <1>2, <1>4, <1>7 DEF IsEpoch, ClosesAssets
<1>9. /\ Replica'.epochAssetDelta = 0 /\ Replica'.prevAssetsClose = assets
  BY <1>2, <1>4, <1>6, <1>8 DEF Reads, Books
<1>10. AssetsFollowReplay' /\ FrozenInv'
  BY <1>1, <1>9 DEF AssetsFollowReplay, FrozenInv
<1>11. frozen' \in FrozenType
  BY <1>1 DEF NothingFrozen, FrozenType
<1> QED BY <1>1, <1>6, <1>10, <1>11, SettlementKeeps DEF Reads, SettlementInv

\* Every step of the settlement keeps the invariant, and is a step of the verifier or of none.
LEMMA NextSettlement ==
  ASSUME SettlementInv, [SettlementNext]_settlementVars
  PROVE  SettlementInv' /\ [Next]_vars
<1>1. CASE UNCHANGED settlementVars
  <2>1. UNCHANGED <<vars, assets, settling, frozen>>
    BY <1>1 DEF settlementVars
  <2>2. Replica' = Replica /\ Inv' /\ Mid' = Mid /\ SharesAfterFee' = SharesAfterFee
    BY <2>1 DEF vars, Replica, SettlementInv, Inv, TypeOK, BalancesSumToTotal, Mid,
                SharesAfterFee
  <2>3. AssetsFollowReplay' /\ FrozenInv'
    BY <2>1, <2>2 DEF SettlementInv, AssetsFollowReplay, FrozenInv
  <2> QED BY <2>1, <2>2, <2>3, SettlementKeeps
          DEF SettlementInv, vars, HonestEpochsVerify, ReplicaInv
<1> QED BY <1>1, StartSettles, EscrowSettles, SubscribeSettles, RedeemSettles, CloseSettles
        DEF SettlementNext

\* The invariant holds throughout.
LEMMA SettlementInvariance == SettlementSpec => []SettlementInv
<1>1. SettlementInit => SettlementInv
  BY InitSettlement
<1>2. SettlementInv /\ [SettlementNext]_settlementVars => SettlementInv'
  BY NextSettlement
<1> QED BY <1>1, <1>2, PTL DEF SettlementSpec

\* The settlement only adds records of a well-formed export: what the theorems above say of
\* the verifier and any file, they say of every settlement.
THEOREM SettlementImplementsVerifier == SettlementSpec => Spec
<1>1. SettlementInit => Init
  BY DEF SettlementInit
<1>2. SettlementInv /\ [SettlementNext]_settlementVars => [Next]_vars
  BY NextSettlement
<1> QED BY <1>1, <1>2, SettlementInvariance, PTL DEF SettlementSpec, Spec

\* verify.go:458-589 on an honest log, for every instance: whatever the epochs' results, fees
\* and capital, in whatever order shares are subscribed and redeemed and however shares,
\* payouts and the price are rounded, no line of the log is refused.
THEOREM HonestSettlementsVerify == SettlementSpec => []HonestEpochsVerify
<1>1. SettlementInv => HonestEpochsVerify
  BY DEF SettlementInv
<1> QED BY <1>1, SettlementInvariance, PTL

\* The verifier's stake movement and its last close, for every instance, account for the
\* settlement's assets at any moment.
THEOREM SettlementAssetsFollow == SettlementSpec => []AssetsFollowReplay
<1>1. SettlementInv => AssetsFollowReplay
  BY DEF SettlementInv
<1> QED BY <1>1, SettlementInvariance, PTL
=============================================================================
