----------------------------- MODULE Attestation ----------------------------
(***************************************************************************)
(* Asset attestations, from the wallet's signature to the -attest check     *)
(* (pkg/attest wallet.go, auditor.go, attest.go, wire.go and                *)
(* cmd/staking-verify/attest.go).                                           *)
(*                                                                         *)
(* WalletAttestor.Attest asks the wallet service for a signed statement     *)
(* bound to the pool's latest tree head and records it; an auditor's        *)
(* statement is recorded beside it; the records of a pool are served as a   *)
(* document, and VerifyAttestDoc checks the document.  The wallet service,  *)
(* the head publisher and the recording service are not in this repository. *)
(* Calls fail, replies come late or to another request, and whoever hands   *)
(* the document on may alter it but has no key of the wallet's.  Balances   *)
(* are counted as in Translog, in 1/SubScale of a canonical unit.  Instants *)
(* are whole: a time is kept to the microsecond or is refused.              *)
(***************************************************************************)
EXTENDS Translog, FiniteSets, SequencesExt

CONSTANTS
  Pools,       \* pool ids
  CurrencyOf,  \* the currency of each pool
  Operator,    \* the operator id
  WalletKeys,  \* the published key registry: entries with a purpose
  OptionSets,  \* the -registry and -wallet-key options considered
  Balances,    \* figures the wallet and the auditor may state
  DocEdits(_), \* documents that may be handed on in place of one
  MaxTime,     \* bound: instants
  MaxHeads,    \* bound: heads of all pools
  MaxSigned,   \* bound: statements the wallet signs
  MaxRecords   \* bound: attestations recorded

WalletPinsIn(registry) == {k \in DOMAIN registry : registry[k].purpose = "wallet-attest"}

\* A published id is derived from its key, and is the model's name of the key.
ASSUME WalletKeysAssumption == \A k \in WalletPinsIn(WalletKeys) : WalletKeys[k].pub = k

\* A figure is a decimal, of any precision.
ASSUME BalancesAssumption == Balances \subseteq Int

\* Readers pin keys the wallet published, all of them or some.
ASSUME PinAssumption ==
  \A o \in OptionSets :
    /\ o.walletKey # Absent => o.walletKey \in WalletPinsIn(WalletKeys)
    /\ WalletPinsIn(o.registry) \subseteq WalletPinsIn(WalletKeys)

VARIABLES
  clock,    \* the time of day
  heads,    \* when each head of a pool was published
  signed,   \* every statement the wallet has signed; some may still be under way
  asked,    \* the request Attest waits on, or Absent
  records,  \* the attestations recorded, oldest first
  opts,     \* AttestOptions, or Absent before the run
  sths,     \* the tree head roots of the -sth file, or Absent when there is none
  doc,      \* the document read, or Absent
  genuine,  \* history: doc is as it was served
  verdict   \* the run's outcome

vars == <<clock, heads, signed, asked, records, opts, sths, doc, genuine, verdict>>
logVars == <<clock, heads>>
runVars == <<opts, sths, doc, genuine, verdict>>

-----------------------------------------------------------------------------
(* Statements and records *)

\* A head's root stands for its pool and size.
RootOf(p, n) == [pool |-> p, size |-> n]

LatestRoot(p) == RootOf(p, Len(heads[p]))

Roots == UNION {{RootOf(p, n) : n \in 1 .. Len(heads[p])} : p \in Pools}

\* WalletStatement.CanonicalJSON: the fields a wallet signature covers, the balance rounded
\* to the canonical scale.  Statements whose balances round alike share a signature.
CanonicalStatement(s) ==
  [operator |-> s.operator, currency |-> s.currency, balance |-> CanonicalAmount(s.balance),
   asOf |-> s.asOf, challenge |-> s.challenge]

\* WalletStatement.Validate
StatementValid(s) == s.currency > 0 /\ s.balance >= 0

\* SignWalletStatement, under a context no other signature has.
SignStatement(key, s) ==
  [s EXCEPT !.keyId = key, !.pub = key,
            !.sig = [key |-> key, context |-> "wallet", over |-> CanonicalStatement(s)]]

\* The statement verifies under the key it carries itself.
VerifyWalletStatement(s) ==
  /\ s.keyId = s.pub
  /\ StatementValid(s)
  /\ s.sig = [key |-> s.pub, context |-> "wallet", over |-> CanonicalStatement(s)]

Bare(kind, request, balance) ==
  [kind |-> kind, operator |-> request.operator, currency |-> request.currency,
   balance |-> balance, asOf |-> clock, challenge |-> request.challenge,
   keyId |-> Absent, pub |-> Absent, sig |-> Absent]

\* The fields of a statement, and no others.
HasFields(s) ==
  s = [kind |-> s.kind, operator |-> s.operator, currency |-> s.currency,
       balance |-> s.balance, asOf |-> s.asOf, challenge |-> s.challenge,
       keyId |-> s.keyId, pub |-> s.pub, sig |-> s.sig]

-----------------------------------------------------------------------------
(* The surroundings *)

Tick ==
  /\ verdict = "recording" /\ clock < MaxTime
  /\ clock' = clock + 1
  /\ UNCHANGED <<heads, signed, asked, records>>
  /\ UNCHANGED runVars

PublishHead(p) ==
  /\ verdict = "recording" /\ Cardinality(Roots) < MaxHeads
  /\ heads' = [heads EXCEPT ![p] = Append(@, clock)]
  /\ UNCHANGED <<clock, signed, asked, records>>
  /\ UNCHANGED runVars

\* The wallet signs what it was asked for with a key of the day; the reply is under way.
WalletSigns(balance) ==
  /\ verdict = "recording" /\ asked # Absent /\ Cardinality(signed) < MaxSigned
  /\ \E key \in WalletPinsIn(WalletKeys) :
       /\ InWindow(WalletKeys[key], clock)
       /\ signed' = signed \cup {SignStatement(key, Bare("wallet_attested", asked, balance))}
  /\ UNCHANGED <<asked, records>>
  /\ UNCHANGED logVars
  /\ UNCHANGED runVars

-----------------------------------------------------------------------------
(* Recording *)

Ask(p) ==
  /\ verdict = "recording" /\ asked = Absent
  /\ heads[p] # <<>> /\ Len(records) < MaxRecords
  /\ asked' = [operator |-> Operator, currency |-> CurrencyOf[p], challenge |-> LatestRoot(p)]
  /\ UNCHANGED <<signed, records>>
  /\ UNCHANGED logVars
  /\ UNCHANGED runVars

\* Mutant: a reply only has to verify.
AttestVerified(request, s) == VerifyWalletStatement(s)

\* The reply must echo the request and verify.
AttestOk(request, s) ==
  /\ s.challenge = request.challenge
  /\ s.operator = request.operator
  /\ s.currency = request.currency
  /\ VerifyWalletStatement(s)

\* The attestation made of a reply: what was asked, with the wallet's figure and signature.
Attested(request, s) ==
  [s EXCEPT !.operator = request.operator, !.currency = request.currency,
            !.challenge = request.challenge]

\* The recording service refuses a challenge that is no longer the latest root.
Recordable(a) == a.challenge = LatestRoot(a.challenge.pool)

\* A reply to this or an earlier request arrives.
Reply(s) ==
  /\ verdict = "recording" /\ asked # Absent
  /\ records' = IF AttestOk(asked, s) /\ Recordable(asked)
                  THEN Append(records, Attested(asked, s)) ELSE records
  /\ asked' = Absent
  /\ UNCHANGED signed
  /\ UNCHANGED logVars
  /\ UNCHANGED runVars

CallFails ==
  /\ verdict = "recording" /\ asked # Absent
  /\ asked' = Absent
  /\ UNCHANGED <<signed, records>>
  /\ UNCHANGED logVars
  /\ UNCHANGED runVars

\* AuditorAttestor.Attest: the figure is the submitter's and the signature opaque; so is the
\* date, which nothing reads and which is the present one here.
RecordAudit(p, balance) ==
  /\ verdict = "recording" /\ heads[p] # <<>> /\ Len(records) < MaxRecords
  /\ balance >= 0
  /\ records' = Append(records, Bare("auditor", [operator |-> Operator,
                          currency |-> CurrencyOf[p], challenge |-> LatestRoot(p)], balance))
  /\ UNCHANGED <<signed, asked>>
  /\ UNCHANGED logVars
  /\ UNCHANGED runVars

-----------------------------------------------------------------------------
(* The document *)

Total(rs) == FoldLeft(LAMBDA sum, r : sum + r.balance, 0, rs)

\* The newest record of each kind.
Newest(p) ==
  LET places(kind) == {i \in DOMAIN records : /\ records[i].kind = kind
                                              /\ records[i].challenge.pool = p}
      newest(kind) == IF places(kind) = {} THEN <<>> ELSE <<records[Max(places(kind))]>>
  IN  newest("auditor") \o newest("wallet_attested")

\* The published form of a record: its balance at the canonical scale.
NewWireRecord(a) == [a EXCEPT !.balance = CanonicalAmount(@)]

WireRecords(rs) == [i \in DOMAIN rs |-> NewWireRecord(rs[i])]

Served(p) ==
  LET rs == WireRecords(Newest(p))
  IN  [pool |-> p, coverage |-> IF rs = <<>> THEN "none" ELSE "attested",
       total |-> IF rs = <<>> THEN Absent ELSE Total(rs),
       attestations |-> rs]

\* A wallet record that verifies under a key of the wallet's and that the wallet never signed.
Forged(r) ==
  /\ r.kind = "wallet_attested"
  /\ VerifyWalletStatement(r) /\ r.pub \in WalletPinsIn(WalletKeys)
  /\ \A s \in signed : s.sig # r.sig

\* What can be handed on in place of a document.
Makeable(d) == \A i \in DOMAIN d.attestations : HasFields(d.attestations[i])
                                               /\ ~Forged(d.attestations[i])

\* Recording ends; the document and the head file are fetched; -sth may be left out, or name
\* a file that holds some of the heads or none.
Fetch(p) ==
  /\ verdict = "recording"
  /\ doc' \in {Served(p)} \cup {d \in DocEdits(Served(p)) : Makeable(d)}
  /\ genuine' = (doc' = Served(p))
  /\ sths' \in {Absent, {}, Roots, {RootOf(q, n) : q \in Pools, n \in {1}} \cap Roots}
  /\ opts' \in OptionSets
  /\ verdict' = "reading"
  /\ asked' = Absent
  /\ UNCHANGED <<signed, records>>
  /\ UNCHANGED logVars

-----------------------------------------------------------------------------
(* VerifyAttestDoc *)

\* ParseDoc
DocParses(d) ==
  /\ d.coverage \in {"none", "attested"}
  /\ d.coverage = "none" <=> d.attestations = <<>>

\* A head file without heads parses to a nil slice, like no head file at all.
ChallengeChecked == sths \notin {Absent, {}}

\* Mutant: a head of any pool will do.
ChallengeOfAnyPool(d, r) == ChallengeChecked => r.challenge \in sths

ChallengeOk(d, r) == ChallengeChecked => r.challenge \in sths /\ r.challenge.pool = d.pool

WalletPinAvailable(o) == o.walletKey # Absent \/ WalletPinsIn(o.registry) # {}

\* Mutant: a registered key will do, whatever it is for.
PinRegistered(o, r) ==
  /\ o.walletKey # Absent => r.keyId = o.walletKey /\ r.pub = o.walletKey
  /\ WalletPinsIn(o.registry) # {} =>
       r.keyId \in DOMAIN o.registry /\ o.registry[r.keyId].pub = r.pub

\* Mutant: the key must be the wallet's key of today.
PinOfToday(o, r) ==
  /\ o.walletKey # Absent => r.keyId = o.walletKey /\ r.pub = o.walletKey
  /\ WalletPinsIn(o.registry) # {} =>
       r.keyId \in WalletPinsIn(o.registry) /\ Resolves(o.registry, r.keyId, clock)

\* checkWalletKeyPin: the embedded key is every pin's.
PinOk(o, r) ==
  /\ o.walletKey # Absent => r.keyId = o.walletKey /\ r.pub = o.walletKey
  /\ WalletPinsIn(o.registry) # {} =>
       /\ r.keyId \in DOMAIN o.registry
       /\ o.registry[r.keyId].purpose = "wallet-attest"
       /\ o.registry[r.keyId].pub = r.pub
       /\ Resolves(o.registry, r.keyId, r.asOf)

RecordOk(o, d, r) ==
  /\ r.balance >= 0
  /\ ChallengeOk(d, r)
  /\ \/ r.kind = "wallet_attested" /\ VerifyWalletStatement(r) /\ PinOk(o, r)
     \/ r.kind = "auditor"

DocOk(o, d) ==
  /\ DocParses(d)
  /\ \A i \in DOMAIN d.attestations : RecordOk(o, d, d.attestations[i])
  /\ d.coverage = "attested" => d.total = Total(d.attestations)

VerifyDoc ==
  /\ verdict = "reading"
  /\ verdict' = IF DocOk(opts, doc) THEN "ok" ELSE "failed"
  /\ UNCHANGED <<signed, asked, records, opts, sths, doc, genuine>>
  /\ UNCHANGED logVars

-----------------------------------------------------------------------------

Init ==
  /\ clock = 1
  /\ heads = [p \in Pools |-> <<>>]
  /\ signed = {}
  /\ asked = Absent
  /\ records = <<>>
  /\ opts = Absent
  /\ sths = Absent
  /\ doc = Absent
  /\ genuine = FALSE
  /\ verdict = "recording"

Next ==
  \/ Tick
  \/ \E p \in Pools : PublishHead(p) \/ Ask(p) \/ Fetch(p)
  \/ \E b \in Balances : WalletSigns(b)
  \/ \E s \in signed : Reply(s)
  \/ CallFails
  \/ \E p \in Pools, b \in Balances : RecordAudit(p, b)
  \/ VerifyDoc

Spec == Init /\ [][Next]_vars

-----------------------------------------------------------------------------
(* Properties *)

WalletRecords(rs) == {rs[i] : i \in {j \in DOMAIN rs : rs[j].kind = "wallet_attested"}}

\* When the head with that root came out.
PublishedAt(root) == heads[root.pool][root.size]

\* pkg/attest/attest.go:21-24 and wallet.go:219-223: a recorded wallet figure was signed by
\* the wallet, for that pool's currency, and not before the head it is bound to existed,
\* whichever request the reply belonged to.
RecordedFiguresAreFresh ==
  \A r \in WalletRecords(records) :
    /\ r \in signed
    /\ r.currency = CurrencyOf[r.challenge.pool]
    /\ r.asOf >= PublishedAt(r.challenge)

\* r is the statement s but for digits of the balance that rounding at the canonical scale drops.
RoundsTo(r, s) ==
  /\ r = [s EXCEPT !.balance = r.balance]
  /\ CanonicalAmount(r.balance) = CanonicalAmount(s.balance)

\* cmd/staking-verify/attest.go:11-20, as far as the code bears it out: with a pinned key, every
\* wallet record of a document that passes is a statement the wallet signed, whoever handed the
\* document on, but for what rounding at 18 digits drops of the balance.  The checker keeps every
\* digit of attestedBalance (wire.go:136) and the signature covers 18 (wallet.go:137), so a figure
\* can be altered below that, and the total with it.
PinnedFiguresAreTheWallets ==
  verdict = "ok" /\ WalletPinAvailable(opts) =>
    \A r \in WalletRecords(doc.attestations) : \E s \in signed : RoundsTo(r, s)

\* With heads to check against as well, the figure was signed after a head of the document's own
\* pool came out, in that pool's currency.
CheckedFiguresAreFresh ==
  verdict = "ok" /\ WalletPinAvailable(opts) /\ ChallengeChecked =>
    \A r \in WalletRecords(doc.attestations) :
      /\ r.challenge.pool = doc.pool
      /\ r.currency = CurrencyOf[doc.pool]
      /\ r.asOf >= PublishedAt(r.challenge)

\* The options of a reader who has the published registry, or pins the key that signed.
HonestReader ==
  /\ opts.registry \in {<<>>, WalletKeys}
  /\ opts.walletKey # Absent =>
       \A r \in WalletRecords(doc.attestations) : r.keyId = opts.walletKey
  /\ ChallengeChecked => sths = Roots

\* No false alarm: a document as served passes, across rotation of the wallet's key.
HonestDocVerifies == verdict = "failed" /\ genuine => ~HonestReader

\* cmd/staking-verify/attest.go:22-24: when -sth is given, every record's challenge equals a
\* published root of the same pool from that file.
GivenHeadsAreChecked ==
  verdict = "ok" /\ sths # Absent =>
    \A i \in DOMAIN doc.attestations :
      doc.attestations[i].challenge \in sths
      /\ doc.attestations[i].challenge.pool = doc.pool
=============================================================================
