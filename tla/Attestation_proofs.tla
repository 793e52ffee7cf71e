------------------------- MODULE Attestation_proofs -------------------------
(***************************************************************************)
(* For any pools, currencies, wallet keys and readers, any number of heads, *)
(* requests and replies, and any document made without the wallet's keys:   *)
(* whose figures are recorded and verified, and how fresh they are.         *)
(***************************************************************************)
EXTENDS Attestation, IntervalLemmas

WalletIds == WalletPinsIn(WalletKeys)

\* What RecordAudit makes.
AuditRecords ==
  [kind : {"auditor"}, operator : {Operator}, currency : {CurrencyOf[p] : p \in Pools},
   balance : Balances, asOf : Nat, challenge : [pool : Pools, size : Nat],
   keyId : {Absent}, pub : {Absent}, sig : {Absent}]

-----------------------------------------------------------------------------
(* The invariant *)

HeadsInv ==
  /\ clock \in Nat
  /\ heads \in [Pools -> Seq(Nat)]
  /\ \A p \in Pools : \A n \in 1 .. Len(heads[p]) : heads[p][n] <= clock

\* c is the root of a published head.
IsRoot(c) ==
  c.pool \in Pools /\ c.size \in 1 .. Len(heads[c.pool]) /\ c = RootOf(c.pool, c.size)

\* The key of a statement is the wallet's of the statement's day.
KeyOfItsDay(s) ==
  s.pub \in WalletPinsIn(WalletKeys) /\ InWindow(WalletKeys[s.pub], s.asOf)

AskedInv ==
  asked # Absent => IsRoot(asked.challenge) /\ asked.currency = CurrencyOf[asked.challenge.pool]

\* A statement of the wallet's: verifiable, for the currency of its pool, and no older than
\* the head it is bound to.
Fresh(s) ==
  /\ HasFields(s) /\ s.kind = "wallet_attested"
  /\ s.keyId = s.pub /\ KeyOfItsDay(s)
  /\ s.sig = [key |-> s.pub, context |-> "wallet", over |-> CanonicalStatement(s)]
  /\ IsRoot(s.challenge)
  /\ s.currency = CurrencyOf[s.challenge.pool]
  /\ s.balance \in Int
  /\ s.asOf \in Nat /\ s.asOf >= PublishedAt(s.challenge)

SignedInv == \A s \in signed : Fresh(s)

RecordsInv == records \in Seq(signed \cup AuditRecords)

\* A document is only read with the options of a reader, and nobody forged it.
ReadInv == verdict # "recording" => opts \in OptionSets /\ Makeable(doc)

CheckedInv == verdict = "ok" => DocOk(opts, doc)

IInv == HeadsInv /\ AskedInv /\ SignedInv /\ RecordsInv /\ ReadInv /\ CheckedInv

\* Nothing is published, asked or recorded at first.
LEMMA InitIInv == Init => IInv
BY DEF Init, IInv, HeadsInv, AskedInv, SignedInv, RecordsInv, ReadInv, CheckedInv

-----------------------------------------------------------------------------
(* Recording *)

\* While recording, a step that leaves the documents alone has this much to show.
LEMMA RecordingKeeps ==
  ASSUME IInv, verdict = "recording", UNCHANGED runVars,
         HeadsInv', AskedInv', SignedInv', RecordsInv'
  PROVE  IInv'
BY DEF IInv, runVars, ReadInv, CheckedInv

\* A later time and more heads: what was published stays so.
LEMMA StaysFresh ==
  ASSUME HeadsInv, HeadsInv', NEW s, Fresh(s),
         \A p \in Pools : /\ Len(heads[p]) <= Len(heads'[p])
                          /\ \A n \in 1 .. Len(heads[p]) : heads'[p][n] = heads[p][n]
  PROVE  Fresh(s)'
<1> DEFINE p == s.challenge.pool
           n == s.challenge.size
<1>1. p \in Pools /\ n \in 1 .. Len(heads[p]) /\ Len(heads[p]) \in Nat
  BY DEF Fresh, IsRoot, HeadsInv
<1>2. Len(heads'[p]) \in Nat
  BY <1>1 DEF HeadsInv
<1>3. n \in 1 .. Len(heads'[p]) /\ heads'[p][n] = heads[p][n]
  BY <1>1, <1>2
<1> QED BY <1>1, <1>3 DEF Fresh, IsRoot, KeyOfItsDay, PublishedAt, HasFields, CanonicalStatement

\* The same of the request under way.
LEMMA StaysRoot ==
  ASSUME HeadsInv, HeadsInv', NEW c, IsRoot(c),
         \A p \in Pools : Len(heads[p]) <= Len(heads'[p])
  PROVE  IsRoot(c)'
<1>1. c.pool \in Pools /\ c.size \in 1 .. Len(heads[c.pool]) /\ Len(heads[c.pool]) \in Nat
  BY DEF IsRoot, HeadsInv
<1>2. Len(heads'[c.pool]) \in Nat
  BY <1>1 DEF HeadsInv
<1> QED BY <1>1, <1>2 DEF IsRoot

\* Time passes; what was fresh stays fresh.
LEMMA TickKeeps ==
  ASSUME IInv, Tick
  PROVE  IInv'
<1>1. clock' = clock + 1 /\ UNCHANGED <<heads, signed, asked, records>> /\ UNCHANGED runVars
  BY DEF Tick
<1>2. HeadsInv'
  <2> SUFFICES ASSUME NEW p \in Pools, NEW n \in 1 .. Len(heads[p])
               PROVE  heads[p][n] <= clock + 1
    BY <1>1 DEF IInv, HeadsInv
  <2>1. heads[p] \in Seq(Nat) /\ heads[p][n] <= clock /\ clock \in Nat
    BY DEF IInv, HeadsInv
  <2> QED BY <2>1
<1>3. SignedInv' /\ AskedInv' /\ RecordsInv'
  BY <1>1 DEF IInv, SignedInv, AskedInv, RecordsInv, Fresh, IsRoot, KeyOfItsDay,
              PublishedAt, HasFields, CanonicalStatement
<1> QED BY <1>1, <1>2, <1>3, RecordingKeeps DEF Tick

\* One more head; statements bound to earlier heads stay bound.
LEMMA PublishKeeps ==
  ASSUME IInv, NEW p \in Pools, PublishHead(p)
  PROVE  IInv'
<1> DEFINE more == Append(heads[p], clock)
<1>1. /\ heads' = [heads EXCEPT ![p] = more]
      /\ UNCHANGED <<clock, signed, asked, records>> /\ UNCHANGED runVars
  BY DEF PublishHead
<1>2. /\ clock \in Nat /\ heads \in [Pools -> Seq(Nat)]
      /\ \A q \in Pools : \A n \in 1 .. Len(heads[q]) : heads[q][n] <= clock
  BY DEF IInv, HeadsInv
<1>3. /\ more \in Seq(Nat) /\ Len(more) = Len(heads[p]) + 1 /\ Len(heads[p]) \in Nat
      /\ more[Len(heads[p]) + 1] = clock
      /\ \A n \in 1 .. Len(heads[p]) : more[n] = heads[p][n]
  BY <1>2
<1> HIDE DEF more
<1>4. \A q \in Pools : heads'[q] = IF q = p THEN more ELSE heads[q]
  BY <1>1, <1>2
<1>5. HeadsInv'
  <2>1. heads' \in [Pools -> Seq(Nat)]
    BY <1>1, <1>2, <1>3
  <2>2. ASSUME NEW q \in Pools, NEW n \in 1 .. Len(heads'[q]) PROVE heads'[q][n] <= clock
    <3>1. CASE q # p
      BY <1>2, <1>4, <3>1
    <3>2. CASE q = p
      <4>1. CASE n = Len(heads[p]) + 1
        BY <1>2, <1>3, <1>4, <3>2, <4>1
      <4>2. CASE n # Len(heads[p]) + 1
        <5>1. n \in 1 .. Len(heads[p])
          BY <1>3, <1>4, <3>2, <4>2
        <5> QED BY <1>2, <1>3, <1>4, <3>2, <5>1
      <4> QED BY <4>1, <4>2
    <3> QED BY <3>1, <3>2
  <2> QED BY <1>1, <1>2, <2>1, <2>2 DEF HeadsInv
<1>6. \A q \in Pools : /\ Len(heads[q]) <= Len(heads'[q])
                       /\ \A n \in 1 .. Len(heads[q]) : heads'[q][n] = heads[q][n]
  <2> SUFFICES ASSUME NEW q \in Pools
               PROVE  /\ Len(heads[q]) <= Len(heads'[q])
                      /\ \A n \in 1 .. Len(heads[q]) : heads'[q][n] = heads[q][n]
    OBVIOUS
  <2>1. Len(heads[q]) \in Nat
    BY <1>2
  <2>2. CASE q = p
    <3>1. heads'[q] = more
      BY <1>4, <2>2
    <3>2. /\ Len(more) = Len(heads[q]) + 1
          /\ \A n \in 1 .. Len(heads[q]) : more[n] = heads[q][n]
      BY <1>3, <2>2
    <3>3. Len(heads[q]) <= Len(heads'[q])
      BY <2>1, <3>1, <3>2
    <3> QED BY <3>1, <3>2, <3>3
  <2>3. CASE q # p
    <3>1. heads'[q] = heads[q]
      BY <1>4, <2>3
    <3> QED BY <2>1, <3>1
  <2> QED BY <2>2, <2>3
<1>7. SignedInv'
  BY <1>1, <1>5, <1>6, StaysFresh DEF IInv, SignedInv
<1>8. AskedInv'
  BY <1>1, <1>5, <1>6, StaysRoot DEF IInv, AskedInv
<1>9. RecordsInv'
  BY <1>1 DEF IInv, RecordsInv
<1> QED BY <1>1, <1>5, <1>7, <1>8, <1>9, RecordingKeeps DEF PublishHead

\* The latest root of a pool with heads is one.
LEMMA LatestIsRoot ==
  ASSUME HeadsInv, NEW p \in Pools, heads[p] # <<>>
  PROVE  IsRoot(LatestRoot(p)) /\ LatestRoot(p) \in [pool : Pools, size : Nat]
<1>1. heads[p] \in Seq(Nat)
  BY DEF HeadsInv
<1>2. Len(heads[p]) \in Nat /\ Len(heads[p]) >= 1
  BY <1>1
<1> QED BY <1>2 DEF IsRoot, LatestRoot, RootOf

\* A step that leaves heads, statements and records alone and either asks or stops asking.
LEMMA AskingKeeps ==
  ASSUME IInv, verdict = "recording", UNCHANGED <<clock, heads, signed, records>>,
         UNCHANGED runVars, AskedInv'
  PROVE  IInv'
<1>1. HeadsInv' /\ SignedInv' /\ RecordsInv'
  BY DEF IInv, HeadsInv, SignedInv, RecordsInv, Fresh, IsRoot, KeyOfItsDay, PublishedAt, HasFields,
         CanonicalStatement
<1> QED BY <1>1, RecordingKeeps

\* A request names a published head of a pool and the pool's currency.
LEMMA AskKeeps ==
  ASSUME IInv, NEW p \in Pools, Ask(p)
  PROVE  IInv'
<1>1. /\ asked' = [operator |-> Operator, currency |-> CurrencyOf[p],
                   challenge |-> LatestRoot(p)]
      /\ heads[p] # <<>> /\ verdict = "recording"
      /\ UNCHANGED <<clock, heads, signed, records>> /\ UNCHANGED runVars
  BY DEF Ask, logVars
<1>2. IsRoot(LatestRoot(p))
  BY <1>1, LatestIsRoot DEF IInv
<1>3. LatestRoot(p).pool = p
  BY DEF LatestRoot, RootOf
<1>4. AskedInv'
  BY <1>1, <1>2, <1>3 DEF AskedInv, IsRoot
<1> QED BY <1>1, <1>4, AskingKeeps

\* A signed statement, field by field.
LEMMA SignedFields ==
  ASSUME NEW key, NEW u, HasFields(u)
  PROVE  SignStatement(key, u) =
           [kind |-> u.kind, operator |-> u.operator, currency |-> u.currency,
            balance |-> u.balance, asOf |-> u.asOf, challenge |-> u.challenge,
            keyId |-> key, pub |-> key,
            sig |-> [key |-> key, context |-> "wallet", over |-> CanonicalStatement(u)]]
<1> DEFINE sig == [key |-> key, context |-> "wallet", over |-> CanonicalStatement(u)]
<1> HIDE DEF sig
<1>1. [u EXCEPT !.keyId = key, !.pub = key, !.sig = sig] =
        [kind |-> u.kind, operator |-> u.operator, currency |-> u.currency,
         balance |-> u.balance, asOf |-> u.asOf, challenge |-> u.challenge,
         keyId |-> key, pub |-> key, sig |-> sig]
  <2> DEFINE fields == {"kind", "operator", "currency", "balance", "asOf", "challenge",
                        "keyId", "pub", "sig"}
             signedU == [u EXCEPT !.keyId = key, !.pub = key, !.sig = sig]
  <2>1. DOMAIN u = fields /\ DOMAIN signedU = fields
    BY DEF HasFields
  <2>2. signedU = [f \in fields |-> signedU[f]]
    BY <2>1
  <2>3. \A f \in fields : signedU[f] = IF f = "sig" THEN sig
                                      ELSE IF f \in {"keyId", "pub"} THEN key ELSE u[f]
    BY <2>1
  <2> HIDE DEF signedU
  <2>4. /\ signedU.kind = u.kind /\ signedU.operator = u.operator
        /\ signedU.currency = u.currency /\ signedU.balance = u.balance
        /\ signedU.asOf = u.asOf /\ signedU.challenge = u.challenge
        /\ signedU.keyId = key /\ signedU.pub = key /\ signedU.sig = sig
    BY <2>3
  <2>5. HasFields(signedU)
    BY <2>1, <2>2 DEF HasFields
  <2> QED BY <2>4, <2>5 DEF HasFields
<1> QED BY <1>1 DEF sig, SignStatement

\* What the wallet signs is fresh when it signs it.
LEMMA WalletSignsKeeps ==
  ASSUME IInv, NEW b \in Balances, WalletSigns(b)
  PROVE  IInv'
<1> PICK key \in WalletPinsIn(WalletKeys) :
           /\ InWindow(WalletKeys[key], clock)
           /\ signed' = signed \cup {SignStatement(key, Bare("wallet_attested", asked, b))}
  BY DEF WalletSigns
<1> DEFINE u == Bare("wallet_attested", asked, b)
           s == SignStatement(key, u)
<1>1. /\ signed' = signed \cup {s} /\ asked # Absent /\ verdict = "recording"
      /\ UNCHANGED <<clock, heads, asked, records>> /\ UNCHANGED runVars
  BY DEF WalletSigns, logVars
<1>2. /\ IsRoot(asked.challenge) /\ asked.currency = CurrencyOf[asked.challenge.pool]
      /\ clock \in Nat /\ PublishedAt(asked.challenge) <= clock
  BY <1>1 DEF IInv, AskedInv, HeadsInv, IsRoot, PublishedAt
<1>3. /\ s.kind = "wallet_attested" /\ s.keyId = s.pub /\ s.challenge = asked.challenge
      /\ s.currency = asked.currency /\ s.asOf = clock /\ s.pub = key /\ s.balance = b
      /\ s.sig = [key |-> s.pub, context |-> "wallet", over |-> CanonicalStatement(s)]
      /\ HasFields(s)
  <2>1. /\ HasFields(u) /\ u.kind = "wallet_attested" /\ u.challenge = asked.challenge
        /\ u.currency = asked.currency /\ u.asOf = clock /\ u.balance = b
    BY DEF Bare, HasFields
  <2> HIDE DEF u
  <2>2. s = [kind |-> u.kind, operator |-> u.operator, currency |-> u.currency,
             balance |-> u.balance, asOf |-> u.asOf, challenge |-> u.challenge,
             keyId |-> key, pub |-> key,
             sig |-> [key |-> key, context |-> "wallet", over |-> CanonicalStatement(u)]]
    BY <2>1, SignedFields
  <2> HIDE DEF s
  <2>3. CanonicalStatement(s) = CanonicalStatement(u)
    BY <2>2 DEF CanonicalStatement
  <2> QED BY <2>1, <2>2, <2>3 DEF HasFields
<1> HIDE DEF s
<1>4. heads \in [Pools -> Seq(Nat)] /\ PublishedAt(asked.challenge) \in Nat
  BY <1>2 DEF IInv, HeadsInv, IsRoot, PublishedAt
<1>5. Fresh(s)
  BY <1>2, <1>3, <1>4, BalancesAssumption DEF Fresh, KeyOfItsDay
<1>6. HeadsInv' /\ AskedInv'
  BY <1>1 DEF IInv, HeadsInv, AskedInv, IsRoot
<1>7. SignedInv'
  <2>1. HeadsInv
    BY DEF IInv
  <2>2. ASSUME NEW x, Fresh(x) PROVE Fresh(x)'
    BY <1>1, <1>6, <2>1, <2>2, StaysFresh DEF HeadsInv
  <2>3. \A x \in signed \cup {s} : Fresh(x)
    BY <1>5 DEF IInv, SignedInv
  <2> QED BY <1>1, <2>2, <2>3 DEF SignedInv
<1>8. RecordsInv'
  BY <1>1 DEF IInv, RecordsInv
<1> QED BY <1>1, <1>6, <1>7, <1>8, RecordingKeeps

\* A statement with another balance, field by field.
LEMMA WithBalance ==
  ASSUME NEW s, NEW b, HasFields(s)
  PROVE  [s EXCEPT !.balance = b] =
           [kind |-> s.kind, operator |-> s.operator, currency |-> s.currency, balance |-> b,
            asOf |-> s.asOf, challenge |-> s.challenge, keyId |-> s.keyId, pub |-> s.pub,
            sig |-> s.sig]
<1> DEFINE fields == {"kind", "operator", "currency", "balance", "asOf", "challenge",
                      "keyId", "pub", "sig"}
           t == [s EXCEPT !.balance = b]
<1>1. DOMAIN s = fields /\ DOMAIN t = fields
  BY DEF HasFields
<1>2. t = [f \in fields |-> t[f]]
  BY <1>1
<1>3. \A f \in fields : t[f] = IF f = "balance" THEN b ELSE s[f]
  BY <1>1
<1> HIDE DEF t
<1>4. /\ t.kind = s.kind /\ t.operator = s.operator /\ t.currency = s.currency
      /\ t.balance = b /\ t.asOf = s.asOf /\ t.challenge = s.challenge
      /\ t.keyId = s.keyId /\ t.pub = s.pub /\ t.sig = s.sig
  BY <1>3
<1>5. HasFields(t)
  BY <1>1, <1>2 DEF HasFields
<1> QED BY <1>4, <1>5 DEF HasFields, t

\* A reply that passes is recorded as the wallet signed it.
LEMMA AttestedIsReply ==
  ASSUME NEW request, NEW s, HasFields(s), AttestOk(request, s)
  PROVE  Attested(request, s) = s
<1>1. /\ s.operator = request.operator /\ s.currency = request.currency
      /\ s.challenge = request.challenge
  BY DEF AttestOk
<1> QED BY <1>1 DEF Attested, HasFields

\* A reply is recorded only if it is one to the request under way.
LEMMA ReplyKeeps ==
  ASSUME IInv, NEW s \in signed, Reply(s)
  PROVE  IInv'
<1>1. /\ \/ records' = records
         \/ AttestOk(asked, s) /\ records' = Append(records, Attested(asked, s))
      /\ asked' = Absent /\ verdict = "recording"
      /\ UNCHANGED <<clock, heads, signed>> /\ UNCHANGED runVars
  BY DEF Reply, logVars
<1>2. HasFields(s)
  BY DEF IInv, SignedInv, Fresh
<1>3. RecordsInv'
  <2>1. CASE records' = records
    BY <1>1, <2>1 DEF IInv, RecordsInv
  <2>2. CASE AttestOk(asked, s) /\ records' = Append(records, Attested(asked, s))
    BY <1>1, <1>2, <2>2, AttestedIsReply DEF IInv, RecordsInv
  <2> QED BY <1>1, <2>1, <2>2
<1>4. HeadsInv' /\ SignedInv' /\ AskedInv'
  BY <1>1 DEF IInv, HeadsInv, AskedInv, SignedInv, Fresh, IsRoot, KeyOfItsDay,
              PublishedAt, HasFields, CanonicalStatement
<1> QED BY <1>1, <1>3, <1>4, RecordingKeeps

\* A failed call records nothing.
LEMMA CallFailsKeeps ==
  ASSUME IInv, CallFails
  PROVE  IInv'
<1>1. /\ asked' = Absent /\ verdict = "recording"
      /\ UNCHANGED <<clock, heads, signed, records>> /\ UNCHANGED runVars
  BY DEF CallFails, logVars
<1> QED BY <1>1, AskingKeeps DEF AskedInv

\* An auditor's record is no wallet figure.
LEMMA RecordAuditKeeps ==
  ASSUME IInv, NEW p \in Pools, NEW b \in Balances, RecordAudit(p, b)
  PROVE  IInv'
<1> DEFINE r == Bare("auditor", [operator |-> Operator, currency |-> CurrencyOf[p],
                                 challenge |-> LatestRoot(p)], b)
<1>1. /\ records' = Append(records, r) /\ heads[p] # <<>> /\ verdict = "recording"
      /\ UNCHANGED <<clock, heads, signed, asked>> /\ UNCHANGED runVars
  BY DEF RecordAudit, logVars
<1>2. r \in AuditRecords
  <2>1. LatestRoot(p) \in [pool : Pools, size : Nat] /\ clock \in Nat
    BY <1>1, LatestIsRoot DEF IInv, HeadsInv
  <2> QED BY <2>1 DEF Bare, AuditRecords
<1> HIDE DEF r
<1>3. RecordsInv'
  BY <1>1, <1>2 DEF IInv, RecordsInv
<1>4. HeadsInv' /\ SignedInv' /\ AskedInv'
  BY <1>1 DEF IInv, HeadsInv, AskedInv, SignedInv, Fresh, IsRoot, KeyOfItsDay,
              PublishedAt, HasFields, CanonicalStatement
<1> QED BY <1>1, <1>3, <1>4, RecordingKeeps

-----------------------------------------------------------------------------
(* The document *)

\* A nonempty set of numbers up to n has a maximum.
LEMMA MaxIsIn ==
  ASSUME NEW n \in Nat, NEW S, S \subseteq 1 .. n, S # {}
  PROVE  Max(S) \in S
<1> DEFINE T == {n - k : k \in S}
<1>1. T \subseteq Nat /\ T # {}
  <2>1. \A k \in S : n - k \in Nat
    OBVIOUS
  <2>2. PICK k \in S : TRUE
    OBVIOUS
  <2>3. n - k \in T
    BY <2>2
  <2> QED BY <2>1, <2>3
<1>2. PICK m \in T : \A k \in T : m <= k
  <2> HIDE DEF T
  <2> QED BY <1>1, Least
<1>3. PICK x \in S : m = n - x
  OBVIOUS
<1>4. ASSUME NEW y \in S PROVE x >= y
  <2>1. n - y \in T
    OBVIOUS
  <2>2. n - x <= n - y
    BY <1>2, <1>3, <2>1
  <2> QED BY <2>2
<1> QED BY <1>4 DEF Max

\* What is served was recorded.
LEMMA NewestAreRecorded ==
  ASSUME RecordsInv, NEW p
  PROVE  Newest(p) \in Seq(signed \cup AuditRecords)
<1> DEFINE R == signed \cup AuditRecords
           places(kind) == {i \in DOMAIN records : /\ records[i].kind = kind
                                                   /\ records[i].challenge.pool = p}
           newest(kind) == IF places(kind) = {} THEN <<>> ELSE <<records[Max(places(kind))]>>
<1>1. /\ records \in Seq(R) /\ Len(records) \in Nat /\ DOMAIN records = 1 .. Len(records)
  BY DEF RecordsInv
<1> HIDE DEF R
<1>2. ASSUME NEW kind PROVE newest(kind) \in Seq(R)
  <2>1. CASE places(kind) = {}
    BY <2>1
  <2>2. CASE places(kind) # {}
    <3>1. places(kind) \subseteq 1 .. Len(records)
      BY <1>1
    <3> HIDE DEF places
    <3>2. Max(places(kind)) \in 1 .. Len(records)
      BY <1>1, <2>2, <3>1, MaxIsIn
    <3>3. records[Max(places(kind))] \in R
      BY <1>1, <3>2
    <3> QED BY <2>2, <3>3
  <2> QED BY <2>1, <2>2
<1>3. Newest(p) = newest("auditor") \o newest("wallet_attested")
  BY DEF Newest
<1> HIDE DEF newest
<1>4. Newest(p) \in Seq(R)
  BY <1>2, <1>3
<1> QED BY <1>4 DEF R

\* The published form of a record differs in the balance alone.
LEMMA WireFields ==
  ASSUME NEW r, HasFields(r)
  PROVE  /\ NewWireRecord(r) =
              [kind |-> r.kind, operator |-> r.operator, currency |-> r.currency,
               balance |-> CanonicalAmount(r.balance), asOf |-> r.asOf,
               challenge |-> r.challenge, keyId |-> r.keyId, pub |-> r.pub, sig |-> r.sig]
         /\ HasFields(NewWireRecord(r))
<1> DEFINE c == CanonicalAmount(r.balance)
<1>1. NewWireRecord(r) = [r EXCEPT !.balance = c]
  BY DEF NewWireRecord
<1> HIDE DEF c
<1>2. NewWireRecord(r) =
        [kind |-> r.kind, operator |-> r.operator, currency |-> r.currency, balance |-> c,
         asOf |-> r.asOf, challenge |-> r.challenge, keyId |-> r.keyId, pub |-> r.pub,
         sig |-> r.sig]
  BY <1>1, WithBalance
<1>3. HasFields(NewWireRecord(r))
  BY <1>2 DEF HasFields
<1> QED BY <1>2, <1>3 DEF c

\* So nobody forged the document as it is served.
LEMMA ServedIsMakeable ==
  ASSUME SignedInv, RecordsInv, NEW p
  PROVE  Makeable(Served(p))
<1>1. Newest(p) \in Seq(signed \cup AuditRecords)
  BY NewestAreRecorded
<1>2. ASSUME NEW i \in DOMAIN Newest(p)
      PROVE  HasFields(NewWireRecord(Newest(p)[i])) /\ ~ Forged(NewWireRecord(Newest(p)[i]))
  <2> DEFINE r == Newest(p)[i]
             w == NewWireRecord(r)
  <2>1. r \in signed \cup AuditRecords
    BY <1>1
  <2>2. HasFields(r)
    BY <2>1 DEF SignedInv, Fresh, AuditRecords, HasFields
  <2> HIDE DEF r
  <2>3. w.kind = r.kind /\ w.sig = r.sig /\ HasFields(w)
    BY <2>2, WireFields
  <2>4. r \in AuditRecords => r.kind = "auditor"
    BY DEF AuditRecords
  <2> HIDE DEF w
  <2>5. ~ Forged(w)
    BY <2>1, <2>3, <2>4 DEF Forged
  <2> QED BY <2>3, <2>5 DEF r, w
<1>3. Served(p).attestations = WireRecords(Newest(p))
  BY DEF Served
<1> QED BY <1>2, <1>3 DEF Makeable, WireRecords

\* A document is served, altered as far as it can be without the keys.
LEMMA FetchKeeps ==
  ASSUME IInv, NEW p \in Pools, Fetch(p)
  PROVE  IInv'
<1>1. /\ doc' = Served(p) \/ Makeable(doc')
      /\ opts' \in OptionSets /\ asked' = Absent /\ verdict' = "reading"
      /\ UNCHANGED <<clock, heads, signed, records>>
  BY DEF Fetch, logVars
<1>2. Makeable(Served(p))
  BY ServedIsMakeable DEF IInv
<1>3. ReadInv' /\ CheckedInv'
  BY <1>1, <1>2 DEF ReadInv, CheckedInv, Makeable, Forged
<1>4. HeadsInv' /\ SignedInv' /\ AskedInv' /\ RecordsInv'
  BY <1>1 DEF IInv, HeadsInv, AskedInv, SignedInv, RecordsInv, Fresh, IsRoot, PublishedAt,
              HasFields, CanonicalStatement
<1> QED BY <1>3, <1>4 DEF IInv

\* Whatever leaves all but the verdict alone.
LEMMA LogStays ==
  ASSUME IInv, UNCHANGED <<clock, heads, signed, asked, records>>
  PROVE  HeadsInv' /\ SignedInv' /\ AskedInv' /\ RecordsInv'
BY DEF IInv, HeadsInv, AskedInv, SignedInv, RecordsInv, Fresh, IsRoot, PublishedAt,
       HasFields, CanonicalStatement

\* The verifier counts one record, or ends the run.
LEMMA VerifyDocKeeps ==
  ASSUME IInv, VerifyDoc
  PROVE  IInv'
<1>1. /\ verdict = "reading"
      /\ verdict' = IF DocOk(opts, doc) THEN "ok" ELSE "failed"
      /\ UNCHANGED <<clock, heads, signed, asked, records, opts, sths, doc, genuine>>
  BY DEF VerifyDoc, logVars
<1>2. DocOk(opts, doc)' = DocOk(opts, doc)
  BY <1>1 DEF DocOk, RecordOk, ChallengeOk, ChallengeChecked
<1>3. ReadInv' /\ CheckedInv'
  BY <1>1, <1>2 DEF IInv, ReadInv, CheckedInv, Makeable, Forged
<1> QED BY <1>1, <1>3, LogStays DEF IInv

\* Nothing happens.
LEMMA StutterKeeps ==
  ASSUME IInv, UNCHANGED vars
  PROVE  IInv'
<1>1. UNCHANGED <<clock, heads, signed, asked, records, opts, sths, doc, genuine, verdict>>
  BY DEF vars
<1>2. DocOk(opts, doc)' = DocOk(opts, doc)
  BY <1>1 DEF DocOk, RecordOk, ChallengeOk, ChallengeChecked
<1>3. ReadInv' /\ CheckedInv'
  BY <1>1, <1>2 DEF IInv, ReadInv, CheckedInv, Makeable, Forged
<1> QED BY <1>1, <1>3, LogStays DEF IInv

\* Every step keeps the invariant.
LEMMA NextKeeps ==
  ASSUME IInv, [Next]_vars
  PROVE  IInv'
<1>1. CASE Tick
  BY <1>1, TickKeeps
<1>2. ASSUME NEW p \in Pools, PublishHead(p) \/ Ask(p) \/ Fetch(p) PROVE IInv'
  BY <1>2, PublishKeeps, AskKeeps, FetchKeeps
<1>3. ASSUME NEW b \in Balances, WalletSigns(b) PROVE IInv'
  BY <1>3, WalletSignsKeeps
<1>4. ASSUME NEW s \in signed, Reply(s) PROVE IInv'
  BY <1>4, ReplyKeeps
<1>5. CASE CallFails
  BY <1>5, CallFailsKeeps
<1>6. ASSUME NEW p \in Pools, NEW b \in Balances, RecordAudit(p, b) PROVE IInv'
  BY <1>6, RecordAuditKeeps
<1>7. CASE VerifyDoc
  BY <1>7, VerifyDocKeeps
<1>8. CASE UNCHANGED vars
  BY <1>8, StutterKeeps
<1> QED BY <1>1, <1>2, <1>3, <1>4, <1>5, <1>6, <1>7, <1>8 DEF Next

\* The invariant holds throughout.
LEMMA Invariance == Spec => []IInv
<1>1. Init => IInv
  BY InitIInv
<1>2. IInv /\ [Next]_vars => IInv'
  BY NextKeeps
<1> QED BY <1>1, <1>2, PTL DEF Spec

-----------------------------------------------------------------------------
(* The theorems *)

\* wallet.go:219-223, for every instance: whichever request a reply belonged to, a wallet
\* figure that is recorded was signed by the wallet, for the currency of its pool, and not
\* before the head it is bound to came out.
THEOREM RecordedAreFresh == Spec => []RecordedFiguresAreFresh
<1>1. IInv => RecordedFiguresAreFresh
  <2> SUFFICES ASSUME IInv, NEW i \in DOMAIN records, records[i].kind = "wallet_attested"
               PROVE  /\ records[i] \in signed
                      /\ records[i].currency = CurrencyOf[records[i].challenge.pool]
                      /\ records[i].asOf >= PublishedAt(records[i].challenge)
    BY DEF RecordedFiguresAreFresh, WalletRecords
  <2>1. records[i] \in signed \cup AuditRecords
    BY DEF IInv, RecordsInv
  <2>2. records[i] \in signed
    BY <2>1 DEF AuditRecords
  <2> QED BY <2>2 DEF IInv, SignedInv, Fresh
<1> QED BY <1>1, Invariance, PTL

\* A wallet record that passes under a pinned key is one the wallet signed, but for digits of
\* the balance below the canonical scale.
LEMMA PassedIsSigned ==
  ASSUME IInv, verdict = "ok", WalletPinAvailable(opts),
         NEW i \in DOMAIN doc.attestations, doc.attestations[i].kind = "wallet_attested"
  PROVE  \E s \in signed : RoundsTo(doc.attestations[i], s)
<1> DEFINE r == doc.attestations[i]
<1>1. opts \in OptionSets /\ Makeable(doc) /\ DocOk(opts, doc)
  BY DEF IInv, ReadInv, CheckedInv
<1>2. HasFields(r) /\ ~ Forged(r) /\ RecordOk(opts, doc, r) /\ r.kind = "wallet_attested"
  BY <1>1 DEF Makeable, DocOk
<1> HIDE DEF r
<1>3. VerifyWalletStatement(r) /\ PinOk(opts, r)
  BY <1>2 DEF RecordOk
<1>4. r.keyId = r.pub
  BY <1>3 DEF VerifyWalletStatement
<1>5. r.pub \in WalletIds
  <2>1. CASE opts.walletKey # Absent
    BY <1>1, <1>3, <2>1, PinAssumption DEF PinOk, WalletIds
  <2>2. CASE WalletPinsIn(opts.registry) # {}
    <3>1. r.keyId \in WalletPinsIn(opts.registry)
      BY <1>3, <2>2 DEF PinOk, WalletPinsIn
    <3> QED BY <1>1, <1>4, <3>1, PinAssumption DEF WalletIds
  <2> QED BY <2>1, <2>2 DEF WalletPinAvailable
<1>6. PICK s \in signed : s.sig = r.sig
  BY <1>2, <1>3, <1>5 DEF Forged, WalletIds
<1>7. /\ HasFields(s) /\ s.kind = "wallet_attested" /\ s.keyId = s.pub
      /\ s.sig = [key |-> s.pub, context |-> "wallet", over |-> CanonicalStatement(s)]
  BY <1>6 DEF IInv, SignedInv, Fresh
<1>8. r.sig = [key |-> r.pub, context |-> "wallet", over |-> CanonicalStatement(r)]
  BY <1>3 DEF VerifyWalletStatement
<1>9. /\ s.sig.key = s.pub /\ s.sig.over = CanonicalStatement(s)
      /\ r.sig.key = r.pub /\ r.sig.over = CanonicalStatement(r)
  BY <1>7, <1>8
<1>10. s.pub = r.pub /\ CanonicalStatement(s) = CanonicalStatement(r)
  BY <1>6, <1>9
<1>11. /\ s.operator = r.operator /\ s.currency = r.currency
       /\ CanonicalAmount(s.balance) = CanonicalAmount(r.balance)
       /\ s.asOf = r.asOf /\ s.challenge = r.challenge
  BY <1>10 DEF CanonicalStatement
<1>12. r = [s EXCEPT !.balance = r.balance]
  <2>1. r = [kind |-> s.kind, operator |-> s.operator, currency |-> s.currency,
             balance |-> r.balance, asOf |-> s.asOf, challenge |-> s.challenge,
             keyId |-> s.keyId, pub |-> s.pub, sig |-> s.sig]
    BY <1>2, <1>4, <1>6, <1>7, <1>10, <1>11 DEF HasFields
  <2> QED BY <1>7, <2>1, WithBalance
<1>13. RoundsTo(r, s)
  BY <1>11, <1>12 DEF RoundsTo
<1> QED BY <1>6, <1>13 DEF r

\* cmd/staking-verify/attest.go:11-20, for every instance: with a pinned key, every wallet
\* record of a document that passes is a statement the wallet signed, whoever handed the
\* document on, but for digits of its balance that rounding to the canonical scale drops:
\* those the signature does not cover (wallet.go:137).
THEOREM PinnedAreTheWallets == Spec => []PinnedFiguresAreTheWallets
<1>1. IInv => PinnedFiguresAreTheWallets
  BY PassedIsSigned DEF PinnedFiguresAreTheWallets, WalletRecords
<1> QED BY <1>1, Invariance, PTL

\* The same with tree heads to check against, for every instance: the figure belongs to the
\* pool of the document and its currency, and was signed after a head of that pool came out.
THEOREM CheckedAreFresh == Spec => []CheckedFiguresAreFresh
<1>1. IInv => CheckedFiguresAreFresh
  <2> SUFFICES ASSUME IInv, verdict = "ok", WalletPinAvailable(opts), ChallengeChecked,
                      NEW i \in DOMAIN doc.attestations,
                      doc.attestations[i].kind = "wallet_attested"
               PROVE  /\ doc.attestations[i].challenge.pool = doc.pool
                      /\ doc.attestations[i].currency = CurrencyOf[doc.pool]
                      /\ doc.attestations[i].asOf >= PublishedAt(doc.attestations[i].challenge)
    BY DEF CheckedFiguresAreFresh, WalletRecords
  <2> DEFINE r == doc.attestations[i]
  <2>1. PICK s \in signed : RoundsTo(r, s)
    BY PassedIsSigned
  <2>2. Fresh(s)
    BY DEF IInv, SignedInv
  <2>3. r.challenge.pool = doc.pool
    BY DEF IInv, CheckedInv, DocOk, RecordOk, ChallengeOk
  <2> HIDE DEF r
  <2>4. r = [kind |-> s.kind, operator |-> s.operator, currency |-> s.currency,
             balance |-> r.balance, asOf |-> s.asOf, challenge |-> s.challenge,
             keyId |-> s.keyId, pub |-> s.pub, sig |-> s.sig]
    BY <2>1, <2>2, WithBalance DEF RoundsTo, Fresh
  <2>5. r.challenge = s.challenge /\ r.currency = s.currency /\ r.asOf = s.asOf
    BY <2>4
  <2> QED BY <2>2, <2>3, <2>5 DEF Fresh, r
<1> QED BY <1>1, Invariance, PTL

-----------------------------------------------------------------------------
(* No false alarm *)

\* A figure anyone may state, bound to a published head.
Sound(r) ==
  /\ HasFields(r) /\ IsRoot(r.challenge)
  /\ r.balance \in Int /\ r.balance >= 0
  /\ r.kind = "wallet_attested" => StatementValid(r)

SoundInv == \A i \in DOMAIN records : Sound(records[i])

\* What is genuine was served, and what failed does not pass.
ServedInv == verdict # "recording" /\ genuine => \E p \in Pools : doc = Served(p)

FailedInv == verdict = "failed" => ~ DocOk(opts, doc)

AlarmInv == SoundInv /\ ServedInv /\ FailedInv

\* Later heads leave a recorded figure what it was.
LEMMA StaysSound ==
  ASSUME IInv, IInv', NEW r, Sound(r),
         \A p \in Pools : Len(heads[p]) <= Len(heads'[p])
  PROVE  Sound(r)'
BY StaysRoot DEF IInv, Sound, StatementValid, HasFields

\* Whatever records nothing and fetches nothing.
LEMMA RecordingKeepsAlarm ==
  ASSUME IInv, IInv', AlarmInv, verdict = "recording", UNCHANGED records, UNCHANGED runVars,
         \A p \in Pools : Len(heads[p]) <= Len(heads'[p])
  PROVE  AlarmInv'
<1>1. SoundInv'
  BY StaysSound DEF AlarmInv, SoundInv
<1> QED BY <1>1 DEF AlarmInv, ServedInv, FailedInv, runVars

\* One more record, sound when it is recorded.
LEMMA RecordKeepsAlarm ==
  ASSUME IInv, IInv', AlarmInv, verdict = "recording", UNCHANGED heads, UNCHANGED runVars,
         NEW r, records' = Append(records, r), Sound(r)
  PROVE  AlarmInv'
<1>1. records \in Seq(signed \cup AuditRecords)
  BY DEF IInv, RecordsInv
<1>2. ASSUME NEW i \in DOMAIN records' PROVE Sound(records'[i])
  <2>1. i \in DOMAIN records \/ records'[i] = r
    BY <1>1
  <2>2. CASE i \in DOMAIN records
    BY <1>1, <2>2 DEF AlarmInv, SoundInv
  <2> QED BY <2>1, <2>2
<1>3. SoundInv'
  BY <1>2 DEF SoundInv, Sound, IsRoot, StatementValid, HasFields
<1> QED BY <1>3 DEF AlarmInv, ServedInv, FailedInv, runVars

\* A head is published.
LEMMA PublishKeepsAlarm ==
  ASSUME IInv, IInv', AlarmInv, NEW p \in Pools, PublishHead(p)
  PROVE  AlarmInv'
<1>1. /\ heads' = [heads EXCEPT ![p] = Append(heads[p], clock)] /\ verdict = "recording"
      /\ UNCHANGED records /\ UNCHANGED runVars
  BY DEF PublishHead
<1>2. heads \in [Pools -> Seq(Nat)] /\ clock \in Nat
  BY DEF IInv, HeadsInv
<1>3. ASSUME NEW q \in Pools PROVE Len(heads[q]) <= Len(heads'[q])
  <2>1. heads[q] \in Seq(Nat) /\ Len(heads[q]) \in Nat
    BY <1>2
  <2>2. CASE q = p
    BY <1>1, <1>2, <2>1, <2>2
  <2>3. CASE q # p
    BY <1>1, <1>2, <2>1, <2>3
  <2> QED BY <2>2, <2>3
<1> QED BY <1>1, <1>3, RecordingKeepsAlarm

\* A reply is recorded only if it verifies.
LEMMA ReplyKeepsAlarm ==
  ASSUME IInv, IInv', AlarmInv, NEW s \in signed, Reply(s)
  PROVE  AlarmInv'
<1>1. /\ \/ records' = records
         \/ AttestOk(asked, s) /\ records' = Append(records, Attested(asked, s))
      /\ verdict = "recording" /\ UNCHANGED heads /\ UNCHANGED runVars
  BY DEF Reply, logVars
<1>2. Fresh(s)
  BY DEF IInv, SignedInv
<1>3. \A p \in Pools : Len(heads[p]) \in Nat
  BY DEF IInv, HeadsInv
<1>4. CASE records' = records
  BY <1>1, <1>3, <1>4, RecordingKeepsAlarm
<1>5. CASE AttestOk(asked, s) /\ records' = Append(records, Attested(asked, s))
  <2>1. Attested(asked, s) = s
    BY <1>2, <1>5, AttestedIsReply DEF Fresh
  <2>2. Sound(s)
    BY <1>2, <1>5 DEF Sound, Fresh, AttestOk, VerifyWalletStatement, StatementValid
  <2> QED BY <1>1, <1>5, <2>1, <2>2, RecordKeepsAlarm
<1> QED BY <1>1, <1>4, <1>5

\* An auditor's figure is not negative.
LEMMA AuditKeepsAlarm ==
  ASSUME IInv, IInv', AlarmInv, NEW p \in Pools, NEW b \in Balances, RecordAudit(p, b)
  PROVE  AlarmInv'
<1> DEFINE r == Bare("auditor", [operator |-> Operator, currency |-> CurrencyOf[p],
                                 challenge |-> LatestRoot(p)], b)
<1>1. /\ records' = Append(records, r) /\ heads[p] # <<>> /\ verdict = "recording" /\ b >= 0
      /\ UNCHANGED heads /\ UNCHANGED runVars
  BY DEF RecordAudit, logVars
<1>2. IsRoot(LatestRoot(p))
  BY <1>1, LatestIsRoot DEF IInv
<1>3. Sound(r)
  BY <1>1, <1>2, BalancesAssumption DEF Sound, Bare, HasFields
<1> HIDE DEF r
<1> QED BY <1>1, <1>3, RecordKeepsAlarm

\* A document is genuine when it is as it was served.
LEMMA FetchKeepsAlarm ==
  ASSUME IInv, AlarmInv, NEW p \in Pools, Fetch(p)
  PROVE  AlarmInv'
<1>1. /\ genuine' = (doc' = Served(p)) /\ verdict' = "reading"
      /\ UNCHANGED <<clock, heads, records>>
  BY DEF Fetch, logVars
<1>2. Served(p)' = Served(p)
  BY <1>1 DEF Served, Newest, WireRecords
<1>3. SoundInv'
  BY <1>1 DEF AlarmInv, SoundInv, Sound, IsRoot, StatementValid, HasFields
<1>4. genuine' => doc' = Served(p)'
  BY <1>1, <1>2
<1>5. ServedInv' /\ FailedInv'
  BY <1>1, <1>4 DEF ServedInv, FailedInv
<1> QED BY <1>3, <1>5 DEF AlarmInv

\* The verifier fails what does not pass, and nothing else.
LEMMA VerdictKeepsAlarm ==
  ASSUME AlarmInv, VerifyDoc \/ UNCHANGED vars
  PROVE  AlarmInv'
<1>1. /\ UNCHANGED <<clock, heads, records, opts, sths, doc, genuine>>
      /\ \/ verdict = "reading" /\ verdict' = IF DocOk(opts, doc) THEN "ok" ELSE "failed"
         \/ verdict' = verdict
  BY DEF VerifyDoc, logVars, vars
<1>2. DocOk(opts, doc)' = DocOk(opts, doc) /\ \A p : Served(p)' = Served(p)
  BY <1>1 DEF DocOk, RecordOk, ChallengeOk, ChallengeChecked, Served, Newest, WireRecords
<1>3. SoundInv'
  BY <1>1 DEF AlarmInv, SoundInv, Sound, IsRoot, StatementValid, HasFields
<1>4. ServedInv' /\ FailedInv'
  BY <1>1, <1>2 DEF AlarmInv, ServedInv, FailedInv
<1> QED BY <1>3, <1>4 DEF AlarmInv

\* Every step keeps these as well.
LEMMA AlarmStep ==
  ASSUME IInv, IInv', AlarmInv, [Next]_vars
  PROVE  AlarmInv'
<1>1. \A p \in Pools : Len(heads[p]) \in Nat
  BY DEF IInv, HeadsInv
<1>2. ASSUME verdict = "recording", UNCHANGED <<heads, records>>, UNCHANGED runVars
      PROVE  AlarmInv'
  BY <1>1, <1>2, RecordingKeepsAlarm
<1>3. CASE Tick \/ CallFails
  BY <1>2, <1>3 DEF Tick, CallFails, logVars
<1>4. ASSUME NEW p \in Pools, PublishHead(p) \/ Ask(p) \/ Fetch(p) PROVE AlarmInv'
  <2>1. CASE Ask(p)
    BY <1>2, <2>1 DEF Ask, logVars
  <2> QED BY <1>4, <2>1, PublishKeepsAlarm, FetchKeepsAlarm
<1>5. ASSUME NEW b \in Balances, WalletSigns(b) PROVE AlarmInv'
  BY <1>2, <1>5 DEF WalletSigns, logVars
<1>6. ASSUME NEW s \in signed, Reply(s) PROVE AlarmInv'
  BY <1>6, ReplyKeepsAlarm
<1>7. ASSUME NEW p \in Pools, NEW b \in Balances, RecordAudit(p, b) PROVE AlarmInv'
  BY <1>7, AuditKeepsAlarm
<1>8. CASE VerifyDoc \/ UNCHANGED vars
  BY <1>8, VerdictKeepsAlarm
<1> QED BY <1>3, <1>4, <1>5, <1>6, <1>7, <1>8 DEF Next

\* Every record of a served document is one of the pool's.
LEMMA ServedRecords ==
  ASSUME IInv, NEW p, NEW i \in DOMAIN Newest(p)
  PROVE  \E j \in DOMAIN records : /\ Newest(p)[i] = records[j]
                                   /\ records[j].challenge.pool = p
<1> DEFINE places(kind) == {j \in DOMAIN records : /\ records[j].kind = kind
                                                   /\ records[j].challenge.pool = p}
           newest(kind) == IF places(kind) = {} THEN <<>> ELSE <<records[Max(places(kind))]>>
           Good(r) == \E j \in DOMAIN records : r = records[j] /\ records[j].challenge.pool = p
<1>1. Len(records) \in Nat /\ DOMAIN records = 1 .. Len(records)
  BY DEF IInv, RecordsInv
<1>2. ASSUME NEW kind
      PROVE  newest(kind) = <<>> \/ \E r : Good(r) /\ newest(kind) = <<r>>
  <2>1. CASE places(kind) # {}
    <3>1. places(kind) \subseteq 1 .. Len(records)
      BY <1>1
    <3>2. Max(places(kind)) \in places(kind)
      <4> HIDE DEF places
      <4> QED BY <1>1, <2>1, <3>1, MaxIsIn
    <3>3. Good(records[Max(places(kind))])
      BY <3>2
    <3> HIDE DEF places, Good
    <3> QED BY <2>1, <3>3
  <2> QED BY <2>1
<1>3. Newest(p) = newest("auditor") \o newest("wallet_attested")
  BY DEF Newest
<1> HIDE DEF newest, Good
<1>4. PICK a, b : /\ a = <<>> \/ \E r : Good(r) /\ a = <<r>>
                  /\ b = <<>> \/ \E r : Good(r) /\ b = <<r>>
                  /\ Newest(p) = a \o b
  BY <1>2, <1>3
<1>5. Good(Newest(p)[i])
  <2>1. CASE a = <<>> /\ b = <<>>
    BY <1>4, <2>1
  <2>2. ASSUME NEW r, Good(r), a = <<r>>, b = <<>> PROVE Good(Newest(p)[i])
    <3>1. i = 1 /\ Newest(p)[1] = r
      BY <1>4, <2>2
    <3> QED BY <2>2, <3>1
  <2>3. ASSUME NEW r, Good(r), a = <<>>, b = <<r>> PROVE Good(Newest(p)[i])
    <3>1. i = 1 /\ Newest(p)[1] = r
      BY <1>4, <2>3
    <3> QED BY <2>3, <3>1
  <2>4. ASSUME NEW r, Good(r), NEW s, Good(s), a = <<r>>, b = <<s>>
        PROVE  Good(Newest(p)[i])
    <3> DEFINE R == {r, s}
    <3>1. /\ <<r>> \in Seq(R) /\ Len(<<r>>) = 1 /\ <<r>>[1] = r
          /\ <<s>> \in Seq(R) /\ Len(<<s>>) = 1 /\ <<s>>[1] = s
      OBVIOUS
    <3>2. Newest(p) = <<r>> \o <<s>>
      BY <1>4, <2>4
    <3> HIDE DEF R
    <3>3. /\ DOMAIN (<<r>> \o <<s>>) = 1 .. 2
          /\ (<<r>> \o <<s>>)[1] = r /\ (<<r>> \o <<s>>)[2] = s
      BY <3>1
    <3>4. Newest(p)[1] = r /\ Newest(p)[2] = s /\ i \in 1 .. 2
      BY <3>2, <3>3
    <3> QED BY <2>4, <3>4
  <2> QED BY <1>4, <2>1, <2>2, <2>3, <2>4
<1> QED BY <1>5 DEF Good

\* A figure that is not negative has a canonical form, which is not negative and its own.
LEMMA CanonicalForm ==
  ASSUME NEW x \in Int, x >= 0
  PROVE  /\ CanonicalAmount(x) \in Int /\ CanonicalAmount(x) >= 0
         /\ CanonicalAmount(CanonicalAmount(x)) = CanonicalAmount(x)
<1> DEFINE d == 2 * SubScale
           k == RoundQuo(x, SubScale)
           y == SubScale * k
<1>1. SubScale \in Nat \ {0} /\ d \in Nat \ {0} /\ x # Absent
  BY ScaleAssumption, SentinelAssumption
<1>2. k = (2 * x + SubScale) \div d
  BY DEF RoundQuo
<1>3. k \in Nat
  <2> DEFINE n == 2 * x + SubScale
  <2>1. n \in Nat
    BY <1>1
  <2> HIDE DEF n, d
  <2>2. n \div d \in Nat
    BY <1>1, <2>1
  <2> QED BY <1>2, <2>2 DEF n
<1> HIDE DEF k
<1>4. y \in Nat /\ y # Absent
  BY <1>1, <1>3, SentinelAssumption
<1>5. CanonicalAmount(x) = y
  BY <1>1 DEF CanonicalAmount, k
<1>6. RoundQuo(y, SubScale) = k
  <2>1. 2 * y + SubScale = d * k + SubScale
    BY <1>1, <1>3
  <2>2. SubScale < d /\ 0 <= SubScale
    BY <1>1
  <2>3. (d * k + SubScale) \div d = k
    <3> HIDE DEF d
    <3> QED BY <1>1, <1>3, <2>2
  <2>4. RoundQuo(y, SubScale) = (2 * y + SubScale) \div d
    <3> HIDE DEF y
    <3> QED BY <1>4 DEF RoundQuo
  <2> QED BY <2>1, <2>3, <2>4
<1> QED BY <1>4, <1>5, <1>6 DEF CanonicalAmount

\* A record of a pool, as it is published, passes any honest reader's check of that pool: the
\* signature covers what rounding leaves of the balance.
LEMMA RecordPasses ==
  ASSUME IInv, AlarmInv, HonestReader, NEW j \in DOMAIN records,
         NEW i \in DOMAIN doc.attestations, doc.attestations[i] = NewWireRecord(records[j]),
         records[j].challenge.pool = doc.pool
  PROVE  RecordOk(opts, doc, NewWireRecord(records[j]))
<1> DEFINE q == records[j]
           r == NewWireRecord(q)
<1>1. q \in signed \cup AuditRecords
  BY DEF IInv, RecordsInv
<1>2. Sound(q)
  BY DEF AlarmInv, SoundInv
<1>3. /\ r.kind = q.kind /\ r.operator = q.operator /\ r.currency = q.currency
      /\ r.balance = CanonicalAmount(q.balance) /\ r.asOf = q.asOf
      /\ r.challenge = q.challenge /\ r.keyId = q.keyId /\ r.pub = q.pub /\ r.sig = q.sig
  <2> HIDE DEF q
  <2> QED BY <1>2, WireFields DEF Sound
<1>4. r.balance >= 0 /\ CanonicalAmount(r.balance) = CanonicalAmount(q.balance)
  BY <1>2, <1>3, CanonicalForm DEF Sound
<1>5. r = doc.attestations[i] /\ q.challenge.pool = doc.pool
  OBVIOUS
<1> SUFFICES RecordOk(opts, doc, r)
  OBVIOUS
<1> HIDE DEF q, r
<1>6. r.challenge \in Roots
  BY <1>2, <1>3 DEF Sound, IsRoot, Roots
<1>7. ChallengeOk(doc, r)
  BY <1>3, <1>5, <1>6 DEF ChallengeOk, HonestReader
<1>8. CASE q \in AuditRecords
  BY <1>3, <1>4, <1>7, <1>8 DEF AuditRecords, RecordOk
<1>9. CASE q \in signed
  <2>1. Fresh(q)
    BY <1>9 DEF IInv, SignedInv
  <2>2. CanonicalStatement(r) = CanonicalStatement(q)
    BY <1>3, <1>4 DEF CanonicalStatement
  <2>3. VerifyWalletStatement(r) /\ r.kind = "wallet_attested"
    BY <1>2, <1>3, <1>4, <2>1, <2>2 DEF Fresh, Sound, VerifyWalletStatement, StatementValid
  <2>4. r.keyId = r.pub /\ KeyOfItsDay(r)
    BY <1>3, <2>1 DEF Fresh, KeyOfItsDay
  <2>5. opts.walletKey # Absent => r.keyId = opts.walletKey /\ r.pub = opts.walletKey
    BY <1>5, <2>3, <2>4 DEF HonestReader, WalletRecords
  <2>6. PinOk(opts, r)
    <3>1. CASE opts.registry = <<>>
      <4>1. WalletPinsIn(opts.registry) = {}
        BY <3>1 DEF WalletPinsIn
      <4> QED BY <2>5, <4>1 DEF PinOk
    <3>2. CASE opts.registry = WalletKeys
      <4>1. r.pub \in DOMAIN WalletKeys /\ WalletKeys[r.pub].purpose = "wallet-attest"
        BY <2>4 DEF KeyOfItsDay, WalletPinsIn
      <4>2. WalletKeys[r.pub].pub = r.pub /\ Resolves(WalletKeys, r.pub, r.asOf)
        BY <2>4, <4>1, WalletKeysAssumption DEF KeyOfItsDay, Resolves
      <4> QED BY <2>4, <2>5, <3>2, <4>1, <4>2 DEF PinOk
    <3> QED BY <3>1, <3>2 DEF HonestReader
  <2> QED BY <1>4, <1>7, <2>3, <2>6 DEF RecordOk
<1> QED BY <1>1, <1>8, <1>9

\* cmd/staking-verify/attest.go:137-226 on what was really recorded, for every instance: a
\* document handed on as it was served passes for every reader who has the registry, or pins
\* the key that signed, and all the heads: no key rotation, late reply or later head of the
\* pool makes it fail.
THEOREM HonestDocsPass == Spec => []HonestDocVerifies
<1>1. Init => AlarmInv
  BY DEF Init, AlarmInv, SoundInv, ServedInv, FailedInv
<1>2. IInv /\ IInv' /\ AlarmInv /\ [Next]_vars => AlarmInv'
  BY AlarmStep
<1>3. IInv /\ AlarmInv => HonestDocVerifies
  <2> SUFFICES ASSUME IInv, AlarmInv, verdict = "failed", genuine, HonestReader
               PROVE  DocOk(opts, doc)
    BY DEF HonestDocVerifies, AlarmInv, FailedInv
  <2>1. PICK p \in Pools : doc = Served(p)
    BY DEF AlarmInv, ServedInv
  <2>2. doc.attestations = WireRecords(Newest(p)) /\ doc.pool = p
    BY <2>1 DEF Served
  <2>3. DocParses(doc)
    BY <2>1 DEF Served, DocParses
  <2>4. doc.coverage = "attested" => doc.total = Total(doc.attestations)
    BY <2>1 DEF Served
  <2>5. ASSUME NEW i \in DOMAIN doc.attestations
        PROVE  RecordOk(opts, doc, doc.attestations[i])
    <3>1. i \in DOMAIN Newest(p) /\ doc.attestations[i] = NewWireRecord(Newest(p)[i])
      BY <2>2 DEF WireRecords
    <3>2. PICK j \in DOMAIN records : /\ Newest(p)[i] = records[j]
                                      /\ records[j].challenge.pool = p
      BY <3>1, ServedRecords
    <3>3. doc.attestations[i] = NewWireRecord(records[j]) /\ records[j].challenge.pool = doc.pool
      BY <2>2, <3>1, <3>2
    <3> QED BY <3>3, RecordPasses
  <2> QED BY <2>3, <2>4, <2>5 DEF DocOk
<1> QED BY <1>1, <1>2, <1>3, Invariance, PTL DEF Spec
=============================================================================
