-------------------------- MODULE OTSAnchor_proofs --------------------------
(***************************************************************************)
(* For any heads, any calendars in any order and any number of lost         *)
(* leaders: what a stored receipt is bound to, what its confirmation rests  *)
(* on, and that it is never taken back.                                     *)
(***************************************************************************)
EXTENDS OTSAnchor, IntervalLemmas

Digests == {DigestSTH(h) : h \in Heads}

Submissions == [calendar : CalendarSet, pending : BOOLEAN]

Calls == [op : {"anchor", "upgrade"}, head : Heads, next : Nat, receipt : Receipts]

-----------------------------------------------------------------------------
(* Digests and the poll *)

\* The digest of a head is that of no other.
LEMMA DigestsDiffer ==
  ASSUME NEW g \in Heads, NEW h \in Heads
  PROVE  DigestSTH(g) = DigestSTH(h) <=> g = h
<1>1. g = [root |-> g.root, ts |-> g.ts] /\ h = [root |-> h.root, ts |-> h.ts]
  BY AnchorAssumption
<1>2. ASSUME DigestSTH(g) = DigestSTH(h) PROVE g = h
  <2>1. DigestSTH(g).root = DigestSTH(h).root /\ DigestSTH(g).ts = DigestSTH(h).ts
    BY <1>2
  <2>2. g.root = h.root /\ g.ts = h.ts
    BY <2>1 DEF DigestSTH
  <2> QED BY <1>1, <2>2
<1> QED BY <1>2

\* A pending submission is one of the receipt, with a calendar known to the code.
LEMMA SubmissionCalendars ==
  ASSUME NEW r \in Receipts, NEW i \in Pending(r)
  PROVE  i \in Nat /\ i <= Len(r.submissions) /\ r.submissions[i].calendar \in CalendarSet
<1> DEFINE s == r.submissions
<1>1. s \in Seq(Submissions) /\ i \in DOMAIN s
  BY DEF Receipts, Submissions, Pending
<1> HIDE DEF s
<1>2. s[i] \in Submissions /\ i \in Nat /\ i <= Len(s)
  BY <1>1
<1>3. s[i].calendar \in CalendarSet
  BY <1>2 DEF Submissions
<1> QED BY <1>2, <1>3 DEF s

\* The poll stops at pending submissions only, or past the last one.
LEMMA PollableIsPending ==
  ASSUME NEW r \in Receipts, NEW i \in Nat
  PROVE  /\ Pollable(r, i) \in Nat
         /\ Pollable(r, i) \in DOMAIN r.submissions => Pollable(r, i) \in Pending(r)
<1> DEFINE n == Len(r.submissions)
           S == {j \in Pending(r) : j >= i} \cup {n + 1}
<1>1. r.submissions \in Seq(Submissions)
  BY DEF Receipts, Submissions
<1>2. n \in Nat /\ DOMAIN r.submissions = 1 .. n
  BY <1>1
<1>3. Pending(r) \subseteq 1 .. n
  BY <1>2 DEF Pending
<1> HIDE DEF n
<1>4. S \subseteq Nat /\ S # {}
  BY <1>2, <1>3
<1>5. Pollable(r, i) = Min(S)
  BY DEF Pollable, n
<1>6. Min(S) \in S
  <2> HIDE DEF S
  <2>1. PICK m \in S : \A k \in S : m <= k
    BY <1>4, Least
  <2> QED BY <2>1 DEF Min
<1> QED BY <1>2, <1>3, <1>5, <1>6

-----------------------------------------------------------------------------
(* The invariant *)

TypeInv ==
  /\ clock \in Nat
  /\ accepted \in [CalendarSet -> SUBSET Digests]
  /\ attested \in [CalendarSet -> SUBSET Digests]
  /\ store \in [Heads -> Receipts \cup {Absent}]
  /\ call = Absent \/ call \in Calls

\* Bitcoin holds what a calendar took and keeps.
AttestedWasTaken == \A cal \in CalendarSet : attested[cal] \subseteq accepted[cal]

\* r was made for h, and if it is upgraded, a calendar that took the digest has it attested.
Grounded(h, r) ==
  /\ r.digest = DigestSTH(h)
  /\ r.upgraded # Absent =>
       \E i \in Pending(r) : r.digest \in attested[r.submissions[i].calendar]

StoreInv == \A h \in Heads : store[h] # Absent => Grounded(h, store[h])

\* A receipt without its confirmation.
Base(r) == [r EXCEPT !.upgraded = Absent]

\* A call works on a receipt of its own head: a new one, or the stored one not yet confirmed.
CallInv ==
  call # Absent =>
    /\ Grounded(call.head, call.receipt)
    /\ call.op = "anchor" => store[call.head] = Absent /\ call.receipt.upgraded = Absent
    /\ call.op = "upgrade" =>
         /\ store[call.head] # Absent /\ store[call.head].upgraded = Absent
         /\ Base(call.receipt) = store[call.head]
         /\ call.next \in DOMAIN call.receipt.submissions => call.next \in Pending(call.receipt)

IInv == TypeInv /\ AttestedWasTaken /\ StoreInv /\ CallInv

\* No head is anchored at first.
LEMMA InitIInv == Init => IInv
BY DEF Init, IInv, TypeInv, AttestedWasTaken, StoreInv, CallInv

\* Nothing attested is lost, so what is grounded stays so.
LEMMA StaysGrounded ==
  ASSUME TypeInv, NEW h \in Heads, NEW r \in Receipts, Grounded(h, r),
         \A cal \in CalendarSet : attested[cal] \subseteq attested'[cal]
  PROVE  Grounded(h, r)'
<1>1. \A i \in Pending(r) : r.submissions[i].calendar \in CalendarSet
  BY SubmissionCalendars
<1> QED BY <1>1 DEF Grounded, Pending

\* A step of the calendars alone.
LEMMA SurroundingsKeep ==
  ASSUME IInv, TypeInv', AttestedWasTaken', UNCHANGED <<store, call>>,
         \A cal \in CalendarSet : attested[cal] \subseteq attested'[cal]
  PROVE  IInv'
<1>1. StoreInv'
  BY StaysGrounded DEF IInv, TypeInv, StoreInv
<1>2. CallInv'
  <2> SUFFICES ASSUME call # Absent
               PROVE  /\ Grounded(call.head, call.receipt)'
                      /\ CallInv
    BY DEF CallInv, Base, Pending
  <2>1. call.head \in Heads /\ call.receipt \in Receipts
    BY DEF IInv, TypeInv, Calls
  <2> QED BY <2>1, StaysGrounded DEF IInv, CallInv, Grounded, Pending
<1> QED BY <1>1, <1>2 DEF IInv

-----------------------------------------------------------------------------
(* The steps *)

\* A new receipt has no submissions.
LEMMA AnchorKeeps ==
  ASSUME IInv, NEW h \in Heads, Anchor(h)
  PROVE  IInv'
<1> DEFINE r == NewReceipt(h)
<1>1. r \in Receipts /\ Grounded(h, r) /\ r.upgraded = Absent
  <2>1. <<>> \in Seq([calendar : CalendarSet, pending : BOOLEAN])
    OBVIOUS
  <2> QED BY <2>1 DEF NewReceipt, Receipts, Grounded
<1>2. /\ call' = [op |-> "anchor", head |-> h, next |-> 1, receipt |-> r]
      /\ store[h] = Absent /\ UNCHANGED <<clock, store, accepted, attested>>
  BY DEF Anchor, calendarVars
<1> HIDE DEF r
<1>3. /\ call' \in Calls /\ call'.op = "anchor" /\ call'.head = h /\ call'.receipt = r
  BY <1>1, <1>2 DEF Calls
<1>4. TypeInv' /\ AttestedWasTaken' /\ StoreInv'
  BY <1>2, <1>3 DEF IInv, TypeInv, AttestedWasTaken, StoreInv, Grounded
<1>5. CallInv'
  BY <1>1, <1>2, <1>3 DEF CallInv, Grounded
<1> QED BY <1>4, <1>5 DEF IInv

\* A submission is appended to the receipt of an anchor call, whatever came of it.
LEMMA SubmissionKeeps ==
  ASSUME IInv, NEW cal \in CalendarSet, Submitting(cal), NEW pending \in BOOLEAN,
         Submitted(pending), UNCHANGED <<clock, store, attested>>,
         \/ UNCHANGED accepted
         \/ accepted' = [accepted EXCEPT ![cal] = @ \cup {call.receipt.digest}]
  PROVE  IInv'
<1> DEFINE c == call
           r == call.receipt
           sub == [calendar |-> Calendars[call.next], pending |-> pending]
           r1 == [r EXCEPT !.submissions = Append(r.submissions, sub)]
<1>1. c \in Calls /\ c.op = "anchor" /\ Calendars[c.next] = cal
  BY DEF IInv, TypeInv, Submitting
<1>2. r \in Receipts /\ r.upgraded = Absent /\ c.head \in Heads /\ c.next \in Nat
      /\ store[c.head] = Absent /\ Grounded(c.head, r)
  BY <1>1 DEF Calls, IInv, CallInv, Submitting
<1>3. call' = [c EXCEPT !.next = c.next + 1, !.receipt = r1]
  BY <1>1, <1>2 DEF Submitted, Calls, Receipts
<1>4. sub \in [calendar : CalendarSet, pending : BOOLEAN]
  BY <1>1
<1>5. r1 \in Receipts /\ r1.digest = r.digest /\ r1.upgraded = Absent
  <2> DEFINE subs == Append(r.submissions, sub)
  <2> HIDE DEF sub, r
  <2>1. subs \in Seq([calendar : CalendarSet, pending : BOOLEAN])
    BY <1>2, <1>4 DEF Receipts
  <2> HIDE DEF subs
  <2>2. [r EXCEPT !.submissions = subs] \in Receipts
    BY <1>2, <2>1 DEF Receipts
  <2>3. r1 = [r EXCEPT !.submissions = subs]
    BY DEF subs
  <2> HIDE DEF r1
  <2> QED BY <1>2, <2>2, <2>3 DEF Receipts
<1> HIDE DEF r1, c
<1>6. call' \in Calls /\ call'.op = "anchor" /\ call'.head = c.head /\ call'.receipt = r1
  <2>1. c \in Calls /\ c.op = "anchor" /\ c.next + 1 \in Nat /\ r1 \in Receipts
    BY <1>1, <1>2, <1>5
  <2> HIDE DEF r
  <2> QED BY <1>3, <2>1 DEF Calls
<1>7. r.digest \in Digests
  BY <1>2 DEF Receipts, Digests
<1>8. TypeInv' /\ AttestedWasTaken'
  <2>1. /\ accepted' \in [CalendarSet -> SUBSET Digests]
        /\ \A k \in CalendarSet : accepted[k] \subseteq accepted'[k]
    BY <1>7 DEF IInv, TypeInv
  <2> QED BY <1>6, <2>1 DEF IInv, TypeInv, AttestedWasTaken
<1>9. StoreInv'
  BY DEF IInv, StoreInv, Grounded
<1>10. CallInv'
  BY <1>2, <1>5, <1>6 DEF CallInv, Grounded
<1> QED BY <1>8, <1>9, <1>10 DEF IInv

\* Anchor returns a receipt with its submissions, or an error.
LEMMA AnchorReturnsKeeps ==
  ASSUME IInv, AnchorReturns
  PROVE  IInv'
<1> DEFINE h == call.head
           r == [call.receipt EXCEPT !.anchoredAt = clock]
<1>1. /\ call \in Calls /\ h \in Heads /\ call.receipt \in Receipts
      /\ Grounded(h, call.receipt) /\ clock \in Nat
  BY DEF AnchorReturns, IInv, TypeInv, Calls, CallInv
<1>2. r \in Receipts /\ Grounded(h, r)
  BY <1>1 DEF Receipts, Grounded, Pending
<1>3. /\ store' = store \/ store' = [store EXCEPT ![h] = r]
      /\ call' = Absent /\ UNCHANGED <<clock, accepted, attested>>
  BY DEF AnchorReturns, calendarVars
<1> HIDE DEF r, h
<1>4. TypeInv' /\ AttestedWasTaken'
  BY <1>1, <1>2, <1>3 DEF IInv, TypeInv, AttestedWasTaken
<1>5. StoreInv'
  BY <1>1, <1>2, <1>3 DEF IInv, TypeInv, StoreInv, Grounded
<1>6. CallInv'
  BY <1>3 DEF CallInv
<1> QED BY <1>4, <1>5, <1>6 DEF IInv

\* Upgrade starts from the stored receipt.
LEMMA UpgradeKeeps ==
  ASSUME IInv, NEW h \in Heads, Upgrade(h)
  PROVE  IInv'
<1> DEFINE r == store[h]
           n == Pollable(store[h], 1)
<1>1. r \in Receipts /\ r # Absent /\ r.upgraded = Absent /\ Grounded(h, r)
  BY DEF Upgrade, IInv, TypeInv, StoreInv
<1>2. n \in Nat /\ (n \in DOMAIN r.submissions => n \in Pending(r))
  BY <1>1, PollableIsPending
<1>3. /\ call' = [op |-> "upgrade", head |-> h, next |-> n, receipt |-> r]
      /\ UNCHANGED <<clock, store, accepted, attested>>
  BY DEF Upgrade, calendarVars
<1>4. Base(r) = r
  BY <1>1 DEF Base, Receipts
<1> HIDE DEF n
<1>5. /\ call' \in Calls /\ call'.op = "upgrade" /\ call'.head = h /\ call'.next = n
      /\ call'.receipt = r
  BY <1>1, <1>2, <1>3 DEF Calls
<1>6. TypeInv' /\ AttestedWasTaken' /\ StoreInv'
  BY <1>3, <1>5 DEF IInv, TypeInv, AttestedWasTaken, StoreInv, Grounded
<1>7. CallInv'
  BY <1>1, <1>2, <1>3, <1>4, <1>5 DEF CallInv, Grounded, Base
<1> QED BY <1>6, <1>7 DEF IInv

\* A calendar that has nothing: the poll goes on.
LEMMA PollGoesOn ==
  ASSUME IInv, NEW cal \in CalendarSet, Polling(cal),
         call' = [call EXCEPT !.next = PolledNext(call.receipt, @)],
         UNCHANGED <<clock, store, accepted, attested>>
  PROVE  IInv'
<1> DEFINE r == call.receipt
           n == PolledNext(call.receipt, call.next)
<1>1. call \in Calls /\ call.op = "upgrade" /\ r \in Receipts /\ call.next \in Nat
  BY DEF IInv, TypeInv, Polling, Calls
<1>2. n \in Nat /\ (n \in DOMAIN r.submissions => n \in Pending(r))
  BY <1>1, PollableIsPending DEF PolledNext
<1>3. call' = [call EXCEPT !.next = n]
  BY <1>1 DEF Calls
<1> HIDE DEF n
<1>4. /\ call' \in Calls /\ call'.op = "upgrade" /\ call'.head = call.head
      /\ call'.next = n /\ call'.receipt = r
  BY <1>1, <1>2, <1>3 DEF Calls
<1>5. TypeInv' /\ AttestedWasTaken' /\ StoreInv'
  BY <1>4 DEF IInv, TypeInv, AttestedWasTaken, StoreInv, Grounded
<1>6. CallInv'
  BY <1>1, <1>2, <1>4 DEF IInv, CallInv, Grounded, Base, Polling
<1> QED BY <1>5, <1>6 DEF IInv

\* A calendar answers a poll: only an attestation changes the receipt.
LEMMA FetchAnsweredKeeps ==
  ASSUME IInv, NEW cal \in CalendarSet, FetchAnswered(cal)
  PROVE  IInv'
<1> DEFINE r == call.receipt
           r1 == [r EXCEPT !.upgraded = cal]
<1>1. /\ Polling(cal) /\ UNCHANGED <<clock, store, accepted, attested>>
  BY DEF FetchAnswered, calendarVars
<1>2. CASE r.digest \notin attested[cal]
  BY <1>1, <1>2, PollGoesOn DEF FetchAnswered
<1>3. CASE r.digest \in attested[cal]
  <2>1. /\ call # Absent /\ call \in Calls /\ call.op = "upgrade" /\ r \in Receipts
        /\ call.head \in Heads /\ call.next \in DOMAIN r.submissions
        /\ r.submissions[call.next].calendar = cal
    BY <1>1 DEF IInv, TypeInv, Polling, Calls
  <2>2. /\ call.next \in Pending(r) /\ Grounded(call.head, r)
        /\ store[call.head] # Absent /\ store[call.head].upgraded = Absent
        /\ Base(r) = store[call.head]
    BY <2>1 DEF IInv, CallInv
  <2>3. call' = [call EXCEPT !.receipt = r1]
    BY <1>3, <2>1 DEF FetchAnswered, Calls, Receipts
  <2>4. /\ r1 \in Receipts /\ r1.digest = r.digest /\ r1.submissions = r.submissions
        /\ Base(r1) = Base(r)
    BY <2>1 DEF Receipts, Base
  <2>5. Pending(r1) = Pending(r)
    BY <2>4 DEF Pending
  <2>6. Grounded(call.head, r1)
    BY <1>3, <2>1, <2>2, <2>4, <2>5 DEF Grounded
  <2> HIDE DEF r1, r
  <2>7. /\ call' \in Calls /\ call'.op = "upgrade" /\ call'.head = call.head
        /\ call'.next = call.next /\ call'.receipt = r1
    BY <2>1, <2>3, <2>4 DEF Calls
  <2>8. TypeInv' /\ AttestedWasTaken' /\ StoreInv'
    BY <1>1, <2>7 DEF IInv, TypeInv, AttestedWasTaken, StoreInv, Grounded
  <2>9. CallInv'
    BY <1>1, <2>2, <2>4, <2>5, <2>6, <2>7 DEF CallInv, Grounded, Base
  <2> QED BY <2>8, <2>9 DEF IInv
<1> QED BY <1>2, <1>3

\* Upgrade returns, and its receipt is stored if it was upgraded.
LEMMA UpgradeReturnsKeeps ==
  ASSUME IInv, UpgradeReturns
  PROVE  IInv'
<1> DEFINE h == call.head
           r == call.receipt
<1>1. call \in Calls /\ h \in Heads /\ r \in Receipts /\ Grounded(h, r)
  BY DEF UpgradeReturns, IInv, TypeInv, Calls, CallInv
<1>2. /\ store' = store \/ store' = [store EXCEPT ![h] = r]
      /\ call' = Absent /\ UNCHANGED <<clock, accepted, attested>>
  BY DEF UpgradeReturns, UpgradedReceipt, calendarVars
<1> HIDE DEF r, h
<1>3. TypeInv' /\ AttestedWasTaken'
  BY <1>1, <1>2 DEF IInv, TypeInv, AttestedWasTaken
<1>4. StoreInv'
  BY <1>1, <1>2 DEF IInv, TypeInv, StoreInv, Grounded
<1>5. CallInv'
  BY <1>2 DEF CallInv
<1> QED BY <1>3, <1>4, <1>5 DEF IInv

\* A calendar gets a digest attested, or forgets one that is not.
LEMMA CalendarKeeps ==
  ASSUME IInv, NEW cal \in CalendarSet, Attest(cal) \/ Forget(cal)
  PROVE  IInv'
<1>1. CASE Attest(cal)
  <2>1. PICK d \in accepted[cal] \ attested[cal] :
          /\ attested' = [attested EXCEPT ![cal] = attested[cal] \cup {d}]
          /\ UNCHANGED <<clock, accepted, store, call>>
    BY <1>1 DEF Attest
  <2>2. TypeInv' /\ AttestedWasTaken' /\ \A k \in CalendarSet : attested[k] \subseteq attested'[k]
    BY <2>1 DEF IInv, TypeInv, AttestedWasTaken
  <2> QED BY <2>1, <2>2, SurroundingsKeep
<1>2. CASE Forget(cal)
  <2>1. PICK d \in accepted[cal] \ attested[cal] :
          /\ accepted' = [accepted EXCEPT ![cal] = accepted[cal] \ {d}]
          /\ UNCHANGED <<clock, attested, store, call>>
    BY <1>2 DEF Forget
  <2>2. TypeInv' /\ AttestedWasTaken'
    BY <2>1 DEF IInv, TypeInv, AttestedWasTaken
  <2> QED BY <2>1, <2>2, SurroundingsKeep
<1> QED BY <1>1, <1>2

\* Every step keeps the invariant.
LEMMA NextIInv == IInv /\ [Next]_vars => IInv'
<1> SUFFICES ASSUME IInv, [Next]_vars PROVE IInv'
  OBVIOUS
<1>1. ASSUME NEW h \in Heads, Anchor(h) PROVE IInv'
  BY <1>1, AnchorKeeps
<1>2. ASSUME NEW h \in Heads, Upgrade(h) PROVE IInv'
  BY <1>2, UpgradeKeeps
<1>3. ASSUME NEW cal \in CalendarSet, SubmitAnswered(cal) PROVE IInv'
  BY <1>3, SubmissionKeeps DEF SubmitAnswered
<1>4. ASSUME NEW cal \in CalendarSet, SubmitFails(cal) PROVE IInv'
  BY <1>4, SubmissionKeeps DEF SubmitFails
<1>5. ASSUME NEW cal \in CalendarSet, FetchAnswered(cal) PROVE IInv'
  BY <1>5, FetchAnsweredKeeps
<1>6. ASSUME NEW cal \in CalendarSet, FetchFails(cal) PROVE IInv'
  BY <1>6, PollGoesOn DEF FetchFails, calendarVars
<1>7. CASE AnchorReturns
  BY <1>7, AnchorReturnsKeeps
<1>8. CASE UpgradeReturns
  BY <1>8, UpgradeReturnsKeeps
<1>9. CASE Tick
  <2>1. clock' = clock + 1 /\ UNCHANGED <<accepted, attested, store, call>>
    BY <1>9 DEF Tick, calendarVars
  <2>2. TypeInv' /\ AttestedWasTaken'
    BY <2>1 DEF IInv, TypeInv, AttestedWasTaken
  <2> QED BY <2>1, <2>2, SurroundingsKeep
<1>10. ASSUME NEW cal \in CalendarSet, Attest(cal) \/ Forget(cal) PROVE IInv'
  BY <1>10, CalendarKeeps
<1>11. CASE Crash
  <2>1. call' = Absent /\ UNCHANGED <<clock, accepted, attested, store>>
    BY <1>11 DEF Crash, calendarVars
  <2> QED BY <2>1 DEF IInv, TypeInv, AttestedWasTaken, StoreInv, CallInv, Grounded
<1>12. CASE UNCHANGED vars
  <2>1. UNCHANGED <<clock, accepted, attested, store, call>>
    BY <1>12 DEF vars
  <2>2. TypeInv' /\ AttestedWasTaken'
    BY <2>1 DEF IInv, TypeInv, AttestedWasTaken
  <2> QED BY <2>1, <2>2, SurroundingsKeep
<1> QED BY <1>1, <1>2, <1>3, <1>4, <1>5, <1>6, <1>7, <1>8, <1>9, <1>10, <1>11, <1>12
        DEF Next, Calling

-----------------------------------------------------------------------------
(* The theorems *)

\* The invariant holds throughout.
LEMMA Invariance == Spec => []IInv
BY InitIInv, NextIInv, PTL DEF Spec

\* Each stored receipt is bound to the head it was made for and to no other (ots.go:149-170).
THEOREM ReceiptsBind == Spec => []ReceiptBindsOneHead
<1>1. IInv => ReceiptBindsOneHead
  <2> SUFFICES ASSUME IInv, NEW g \in Heads, NEW h \in Heads, store[g] # Absent
               PROVE  Verify(h, store[g]) # "mismatch" <=> g = h
    BY DEF ReceiptBindsOneHead
  <2>1. store[g].digest = DigestSTH(g)
    BY DEF IInv, StoreInv, Grounded
  <2>2. Verify(h, store[g]) # "mismatch" <=> DigestSTH(g) = DigestSTH(h)
    BY <2>1 DEF Verify
  <2> QED BY <2>2, DigestsDiffer
<1> QED BY <1>1, Invariance, PTL

\* Confirmation rests on the word of a calendar that took this head's digest, whatever leaders
\* were lost, answers lost or repeated, and digests forgotten on the way (ots.go:360-397).
THEOREM ConfirmationIsTestified == Spec => []ConfirmedIsTestified
<1>1. IInv => ConfirmedIsTestified
  <2> SUFFICES ASSUME IInv, NEW h \in Heads, store[h] # Absent, Verify(h, store[h]) = "ok"
               PROVE  \E i \in Pending(store[h]) :
                        LET cal == store[h].submissions[i].calendar
                        IN  [root |-> h.root, ts |-> h.ts] \in accepted[cal] \cap attested[cal]
    BY DEF ConfirmedIsTestified
  <2> DEFINE r == store[h]
  <2>1. r \in Receipts /\ Grounded(h, r)
    BY DEF IInv, TypeInv, StoreInv
  <2>2. r.upgraded # Absent
    BY DEF Verify
  <2>3. PICK i \in Pending(r) : r.digest \in attested[r.submissions[i].calendar]
    BY <2>1, <2>2 DEF Grounded
  <2>4. r.submissions[i].calendar \in CalendarSet
    BY <2>1, SubmissionCalendars
  <2>5. r.digest \in accepted[r.submissions[i].calendar]
    BY <2>3, <2>4 DEF IInv, AttestedWasTaken
  <2>6. r.digest = [root |-> h.root, ts |-> h.ts]
    BY <2>1 DEF Grounded, DigestSTH
  <2> QED BY <2>3, <2>5, <2>6
<1> QED BY <1>1, Invariance, PTL

\* No step takes anything from a stored receipt.
LEMMA StepOnlyGrows ==
  ASSUME IInv, [Next]_vars, NEW h \in Heads, store[h] # Absent
  PROVE  /\ store'[h] # Absent
         /\ Base(store'[h]) = Base(store[h])
         /\ store[h].upgraded # Absent => store'[h] = store[h]
<1>1. CASE AnchorReturns
  <2>1. call.op = "anchor" /\ call # Absent /\ store[call.head] = Absent
    BY <1>1 DEF AnchorReturns, IInv, CallInv
  <2>2. store'[h] = store[h]
    BY <1>1, <2>1 DEF AnchorReturns, IInv, TypeInv
  <2> QED BY <2>2
<1>2. CASE UpgradeReturns
  <2>1. /\ call \in Calls /\ call.receipt \in Receipts /\ call.head \in Heads
        /\ store[call.head].upgraded = Absent /\ Base(call.receipt) = store[call.head]
    BY <1>2 DEF UpgradeReturns, IInv, TypeInv, CallInv, Calls
  <2>2. /\ store \in [Heads -> Receipts \cup {Absent}]
        /\ store' = store \/ store' = [store EXCEPT ![call.head] = call.receipt]
    BY <1>2 DEF UpgradeReturns, UpgradedReceipt, IInv, TypeInv
  <2>3. CASE store'[h] = store[h]
    BY <2>3
  <2>4. CASE store'[h] # store[h]
    <3>1. h = call.head /\ store'[h] = call.receipt
      BY <2>1, <2>2, <2>4
    <3>2. call.receipt # Absent
      BY <2>1, AnchorAssumption
    <3>3. Base(store[h]) = store[h]
      BY <2>1, <2>2, <3>1 DEF Base, Receipts
    <3> QED BY <2>1, <3>1, <3>2, <3>3
  <2> QED BY <2>3, <2>4
<1>3. CASE UNCHANGED store
  BY <1>3
<1>4. AnchorReturns \/ UpgradeReturns \/ UNCHANGED store
  BY DEF Next, vars, Anchor, Upgrade, Calling, SubmitAnswered, SubmitFails, FetchAnswered,
         FetchFails, Tick, Attest, Forget, Crash
<1> QED BY <1>1, <1>2, <1>3, <1>4

\* No call, crash or repeated poll takes a stored receipt back or changes a confirmed one
\* (ots.go:263-266, 324).
THEOREM ReceiptsGrow == Spec => ReceiptsOnlyGrow
<1>1. IInv /\ [Next]_vars =>
        [\A h \in Heads : store[h] # Absent =>
           /\ store'[h] # Absent
           /\ [store'[h] EXCEPT !.upgraded = Absent] = [store[h] EXCEPT !.upgraded = Absent]
           /\ store[h].upgraded # Absent => store'[h] = store[h]]_vars
  BY StepOnlyGrows DEF Base
<1> QED BY <1>1, Invariance, PTL DEF Spec, ReceiptsOnlyGrow
=============================================================================
