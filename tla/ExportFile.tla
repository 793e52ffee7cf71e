----------------------------- MODULE ExportFile -----------------------------
(***************************************************************************)
(* The export verifier reading the file it exists for: the log an operator  *)
(* wrote and signed, as it comes back from a mirror that may lose, repeat,  *)
(* reorder or cut off lines, alter fields, and rebuild hashes over what it  *)
(* altered.  It cannot sign.                                                *)
(*                                                                         *)
(* The operator (the producer's translog-append routine) is not in this    *)
(* repository; it is modelled from what verify.go and the package comments *)
(* say of it: it appends only events its own books allow, chains each one  *)
(* to the last, and signs it when a published key is valid at its time.    *)
(***************************************************************************)
EXTENDS VerifyStream, Functions

CONSTANTS
  Published,      \* the key registry the operator publishes
  Owner,          \* the operator id of each pool
  ProducedTypes,  \* the event types the operator writes in this instance
  ShareValues,    \* the share counts it mints and burns
  Times,          \* the timestamps it uses
  MaxLog,         \* bound: entries in the pools' logs together
  MaxRead,        \* bound: records the verifier accepts
  FieldEdits(_)   \* the entries a mirror may put in an entry's place

ASSUME ProducerAssumption ==
  /\ IsRegistry(Published) /\ \A k \in DOMAIN Published : Published[k].pub = k
  /\ Owner \in [Pools -> STRING]
  /\ ProducedTypes \subseteq STRING
  /\ ShareValues \subseteq Nat
  /\ Times \subseteq Int
  /\ MaxLog \in Nat

VARIABLES
  log,      \* the stored export records of each pool
  books,    \* the operator's own share ledger
  writing,  \* the operator is still writing; the export is taken when it stops
  clean     \* history: every line read so far was the pool's next genuine line

fileVars == <<log, books, writing, clean>>
allVars == <<opts, pools, events, unsigned, accepted, verdict, log, books, writing, clean>>

-----------------------------------------------------------------------------
(* The operator *)

LastTime(p) == IF log[p] = <<>> THEN 0 ELSE log[p][Len(log[p])].entry.ts

HeadOf(p) == IF log[p] = <<>> THEN Genesis ELSE log[p][Len(log[p])].entryHash

BooksTotal(p) == SumAccounts(books[p])

\* Entries written so far, over all pools.
Logged == SumFunction([p \in Pools |-> Len(log[p])])

BlankEntry(p, type, ts) ==
  [schema |-> 1, operator |-> Owner[p], pool |-> p, account |-> Absent, type |-> type,
   amount |-> Absent, shares |-> Absent, ts |-> ts, payload |-> NoPayload]

Stored(p, e) ==
  LET hash == ChainEntry(HeadOf(p), e)
      key  == KeyAt(Published, e.ts)
  IN  [seq |-> Len(log[p]) + 1, entry |-> e, prevHash |-> HeadOf(p), entryHash |-> hash,
       signature |-> IF key = Absent THEN NoSignature ELSE SignEntryHash(key, hash),
       keyId |-> key]

Write(p, e, newBooks) ==
  /\ writing
  /\ Logged < MaxLog
  /\ e.ts >= LastTime(p)
  /\ e.type \in ProducedTypes
  /\ log' = [log EXCEPT ![p] = Append(@, MarshalLine(Stored(p, e)))]
  /\ books' = [books EXCEPT ![p] = newBooks]
  /\ UNCHANGED <<writing, clean>>
  /\ UNCHANGED vars

WriteMint(p) ==
  \E t \in MintTypes \cup {"STAKE"}, a \in Accounts, n \in ShareValues, ts \in Times :
    Write(p, [BlankEntry(p, t, ts) EXCEPT !.account = a, !.shares = n],
          [books[p] EXCEPT ![a] = @ + n])

WriteBurn(p) ==
  \E t \in BurnTypes, a \in Accounts, n \in ShareValues, ts \in Times :
    /\ n <= books[p][a]
    /\ Write(p, [BlankEntry(p, t, ts) EXCEPT !.account = a, !.shares = n],
             [books[p] EXCEPT ![a] = @ - n])

\* Events that move no shares; STAKE without shares is the escrow phase.
WriteQuiet(p) ==
  \E t \in QuietTypes \cup {"STAKE"}, ts \in Times :
    Write(p, BlankEntry(p, t, ts), books[p])

WriteEpoch(p) ==
  \E ts \in Times :
    Write(p, [BlankEntry(p, "EPOCH", ts) EXCEPT !.payload["shares_close"] = BooksTotal(p)],
          books[p])

TakeExport ==
  /\ writing
  /\ writing' = FALSE
  /\ UNCHANGED <<log, books, clean>>
  /\ UNCHANGED vars

-----------------------------------------------------------------------------
(* The mirror *)

Genuine == UNION {{log[p][i] : i \in 1 .. Len(log[p])} : p \in Pools}

Unsign(rec) == [rec EXCEPT !.signature = NoSignature, !.keyId = Absent]

Rehash(rec, prev, e) ==
  [rec EXCEPT !.entry = e, !.prevHash = prev, !.entryHash = ChainEntry(prev, e)]

\* One record as the mirror may hand it over.  (Lines that do not parse are ReadGarbage.)
Altered(rec) ==
  LET edits   == FieldEdits(rec.entry) \cap Entries
      prevs   == {rec.prevHash, pools[rec.entry.pool].head}
      rebuilt == {Rehash(rec, h, e) : h \in prevs, e \in edits \cup {rec.entry}}
  IN  {[rec EXCEPT !.entry = e] : e \in edits}
        \cup rebuilt \cup {Unsign(r) : r \in rebuilt}
        \cup {[rec EXCEPT !.seq = n] : n \in 0 .. MaxLog + 1}
        \cup {[rec EXCEPT !.keyId = k] : k \in KeyIds \cup {Absent}}

NextGenuine(rec) ==
  LET p == rec.entry.pool
      n == Len(accepted[p]) + 1
  IN  n <= Len(log[p]) /\ rec = log[p][n]

Read(rec) ==
  /\ ~writing
  /\ events < MaxRead
  /\ VerifyRecord(rec)
  /\ clean' = (clean /\ NextGenuine(rec))
  /\ UNCHANGED <<log, books, writing>>

ReadGenuine == \E rec \in Genuine : Read(rec)

ReadAltered == \E rec \in Genuine : \E alt \in Altered(rec) : Read(alt)

ReadGarbage ==
  /\ ~writing
  /\ RefuseLine
  /\ clean' = FALSE
  /\ UNCHANGED <<log, books, writing>>

ReadEnd ==
  /\ ~writing
  /\ EndOfExport
  /\ UNCHANGED fileVars

-----------------------------------------------------------------------------

FileInit ==
  /\ Init
  /\ log = [p \in Pools |-> <<>>]
  /\ books = [p \in Pools |-> [a \in Accounts |-> 0]]
  /\ writing = TRUE
  /\ clean = TRUE

OperatorNext ==
  \E p \in Pools : WriteMint(p) \/ WriteBurn(p) \/ WriteQuiet(p) \/ WriteEpoch(p)

FileNext ==
  \/ OperatorNext
  \/ TakeExport
  \/ ReadGenuine
  \/ ReadAltered
  \/ ReadGarbage
  \/ ReadEnd

FileSpec == FileInit /\ [][FileNext]_allVars

\* The verifier runs on one goroutine over a finite file: it keeps reading until it ends.
Reading == ReadGenuine \/ ReadAltered \/ ReadGarbage \/ ReadEnd

FairFileSpec == FileSpec /\ WF_allVars(TakeExport) /\ WF_allVars(Reading)
=============================================================================
