------------------------------ MODULE OTSAnchor -----------------------------
(***************************************************************************)
(* Anchoring tree heads at OpenTimestamps calendars (pkg/attest/ots.go).    *)
(*                                                                         *)
(* Anchor submits the digest of a head to every calendar in turn, Upgrade   *)
(* polls the calendars that accepted it until one has it attested by        *)
(* Bitcoin, Verify says what a receipt shows about a head.  The calendars   *)
(* and the producer that stores the receipts are not in this repository:    *)
(* the producer's sweep has one leader at a time, which may be lost between *)
(* any two steps, and a calendar may be down, lose an answer, or forget.    *)
(***************************************************************************)
EXTENDS Naturals, Sequences, FiniteSetsExt

CONSTANTS
  Heads,      \* the tree heads to anchor, records with a root and a timestamp
  Calendars,  \* the configured calendars, in order
  Steady,     \* calendars that answer in the end and get attested what they accept
  Absent,     \* no value
  MaxTime,    \* bound: instants
  MaxCrashes  \* bound: leaders lost

CalendarSet == {Calendars[i] : i \in DOMAIN Calendars}

VARIABLES
  clock,     \* the time of day
  accepted,  \* the digests each calendar took
  attested,  \* the digests each calendar has got into Bitcoin
  store,     \* the producer's receipt of each head, or Absent
  call,      \* the Anchor or Upgrade call in progress, or Absent
  crashes    \* bound counter

calendarVars == <<accepted, attested>>
vars == <<clock, accepted, attested, store, call, crashes>>

-----------------------------------------------------------------------------
(* Receipts *)

\* Mutant: the digest of the root alone.
DigestRoot(h) == [root |-> h.root, ts |-> Absent]

\* The digest is over the whole canonical head.
DigestSTH(h) == [root |-> h.root, ts |-> h.ts]

\* OTSReceiptPayload with AnchorReceipt.AnchoredAt
NewReceipt(h) ==
  [digest |-> DigestSTH(h), submissions |-> <<>>, upgraded |-> Absent, anchoredAt |-> Absent]

Receipts ==
  [digest : {DigestSTH(h) : h \in Heads},
   submissions : Seq([calendar : CalendarSet, pending : BOOLEAN]),
   upgraded : CalendarSet \cup {Absent}, anchoredAt : Nat \cup {Absent}]

ASSUME AnchorAssumption ==
  /\ \A h \in Heads : h = [root |-> h.root, ts |-> h.ts]
  /\ Calendars \in Seq(CalendarSet)
  /\ Absent \notin CalendarSet \cup Nat \cup Receipts

\* The calendars that gave a pending proof.
Pending(r) == {i \in DOMAIN r.submissions : r.submissions[i].pending}

\* Mutant: any receipt that binds counts as confirmed.
VerifyBinding(h, r) == IF r.digest = DigestSTH(h) THEN "ok" ELSE "mismatch"

Verify(h, r) ==
  IF r.digest # DigestSTH(h) THEN "mismatch"
  ELSE IF r.upgraded = Absent THEN "pending" ELSE "ok"

-----------------------------------------------------------------------------
(* Anchor *)

Anchor(h) ==
  /\ call = Absent /\ store[h] = Absent
  /\ call' = [op |-> "anchor", head |-> h, next |-> 1, receipt |-> NewReceipt(h)]
  /\ UNCHANGED <<clock, store, crashes>>
  /\ UNCHANGED calendarVars

Submitting(cal) ==
  /\ call # Absent /\ call.op = "anchor"
  /\ call.next \in DOMAIN Calendars /\ Calendars[call.next] = cal

Submitted(pending) ==
  call' = [call EXCEPT !.next = @ + 1,
             !.receipt.submissions =
               Append(@, [calendar |-> Calendars[call.next], pending |-> pending])]

\* submitOne: the calendar takes the digest and its answer arrives.
SubmitAnswered(cal) ==
  /\ Submitting(cal)
  /\ accepted' = [accepted EXCEPT ![cal] = @ \cup {call.receipt.digest}]
  /\ Submitted(TRUE)
  /\ UNCHANGED <<clock, attested, store, crashes>>

\* submitOne: the calendar is down, refuses, or its answer is lost; the loop goes on.
SubmitFails(cal) ==
  /\ Submitting(cal)
  /\ accepted' \in {accepted, [accepted EXCEPT ![cal] = @ \cup {call.receipt.digest}]}
  /\ Submitted(FALSE)
  /\ UNCHANGED <<clock, attested, store, crashes>>

\* One acceptance is enough; the producer stores the receipt.
AnchorReturns ==
  /\ call # Absent /\ call.op = "anchor" /\ call.next > Len(Calendars)
  /\ store' = IF Pending(call.receipt) = {} THEN store
              ELSE [store EXCEPT ![call.head] = [call.receipt EXCEPT !.anchoredAt = clock]]
  /\ call' = Absent
  /\ UNCHANGED <<clock, crashes>>
  /\ UNCHANGED calendarVars

-----------------------------------------------------------------------------
(* Upgrade *)

\* The first submission from i on that there is anything to poll for, or one past the last.
Pollable(r, i) == Min({j \in Pending(r) : j >= i} \cup {Len(r.submissions) + 1})

Upgrade(h) ==
  /\ call = Absent /\ store[h] # Absent /\ store[h].upgraded = Absent
  /\ call' = [op |-> "upgrade", head |-> h, next |-> Pollable(store[h], 1),
              receipt |-> store[h]]
  /\ UNCHANGED <<clock, store, crashes>>
  /\ UNCHANGED calendarVars

Polling(cal) ==
  /\ call # Absent /\ call.op = "upgrade"
  /\ call.receipt.upgraded = Absent
  /\ call.next \in DOMAIN call.receipt.submissions
  /\ call.receipt.submissions[call.next].calendar = cal

\* Mutant: a calendar that has nothing yet ends the poll.
PolledLast(r, i) == Len(r.submissions) + 1

\* Where the poll goes on after a calendar that is down or still pending.
PolledNext(r, i) == Pollable(r, i + 1)

\* fetchUpgrade: 200 ends the poll, 404 lets it go on.
FetchAnswered(cal) ==
  /\ Polling(cal)
  /\ call' = IF call.receipt.digest \in attested[cal]
             THEN [call EXCEPT !.receipt.upgraded = cal]
             ELSE [call EXCEPT !.next = PolledNext(call.receipt, @)]
  /\ UNCHANGED <<clock, store, crashes>>
  /\ UNCHANGED calendarVars

\* fetchUpgrade: the calendar is down, or answers anything else.
FetchFails(cal) ==
  /\ Polling(cal)
  /\ call' = [call EXCEPT !.next = PolledNext(call.receipt, @)]
  /\ UNCHANGED <<clock, store, crashes>>
  /\ UNCHANGED calendarVars

\* Mutant: the upgraded receipt is dated anew.
UpgradedNow(r) == [r EXCEPT !.anchoredAt = clock]

\* The upgraded receipt, as the time of the anchor is kept.
UpgradedReceipt(r) == r

\* An upgraded receipt is stored; otherwise the error leaves everything for the next sweep.
UpgradeReturns ==
  /\ call # Absent /\ call.op = "upgrade"
  /\ \/ call.receipt.upgraded # Absent
     \/ call.next > Len(call.receipt.submissions)
  /\ store' = IF call.receipt.upgraded = Absent THEN store
              ELSE [store EXCEPT ![call.head] = UpgradedReceipt(call.receipt)]
  /\ call' = Absent
  /\ UNCHANGED <<clock, crashes>>
  /\ UNCHANGED calendarVars

-----------------------------------------------------------------------------
(* The surroundings *)

Tick ==
  /\ clock < MaxTime
  /\ clock' = clock + 1
  /\ UNCHANGED <<store, call, crashes>>
  /\ UNCHANGED calendarVars

\* Bitcoin attests what a calendar aggregated.
Attest(cal) ==
  \E d \in accepted[cal] \ attested[cal] :
    /\ attested' = [attested EXCEPT ![cal] = @ \cup {d}]
    /\ UNCHANGED <<clock, accepted, store, call, crashes>>

\* A calendar that is not steady may lose what it has not got attested.
Forget(cal) ==
  \E d \in accepted[cal] \ attested[cal] :
    /\ cal \notin Steady
    /\ accepted' = [accepted EXCEPT ![cal] = @ \ {d}]
    /\ UNCHANGED <<clock, attested, store, call, crashes>>

\* The leader is lost with its call; another starts from what is stored.
Crash ==
  /\ call # Absent /\ crashes < MaxCrashes
  /\ crashes' = crashes + 1
  /\ call' = Absent
  /\ UNCHANGED <<clock, store>>
  /\ UNCHANGED calendarVars

-----------------------------------------------------------------------------

Init ==
  /\ clock = 1
  /\ accepted = [cal \in CalendarSet |-> {}]
  /\ attested = [cal \in CalendarSet |-> {}]
  /\ store = [h \in Heads |-> Absent]
  /\ call = Absent
  /\ crashes = 0

Calling == \E cal \in CalendarSet :
  SubmitAnswered(cal) \/ SubmitFails(cal) \/ FetchAnswered(cal) \/ FetchFails(cal)

Next ==
  \/ \E h \in Heads : Anchor(h) \/ Upgrade(h)
  \/ Calling
  \/ AnchorReturns
  \/ UpgradeReturns
  \/ Tick
  \/ \E cal \in CalendarSet : Attest(cal) \/ Forget(cal)
  \/ Crash

Spec == Init /\ [][Next]_vars

\* The sweep comes back to every head that awaits confirmation, its calls return since each
\* has a timeout, and a steady calendar answers some polls and gets its digests attested.
Fairness ==
  /\ \A h \in Heads : SF_vars(Upgrade(h))
  /\ WF_vars(Calling)
  /\ WF_vars(AnchorReturns)
  /\ WF_vars(UpgradeReturns)
  /\ \A cal \in Steady : SF_vars(FetchAnswered(cal)) /\ WF_vars(Attest(cal))

FairSpec == Spec /\ Fairness

-----------------------------------------------------------------------------
(* Properties *)

\* ots.go:149-156: a receipt binds to the one head it was made for, also among heads over the
\* same tree that differ in their time only.
ReceiptBindsOneHead ==
  \A g, h \in Heads : store[g] # Absent => (Verify(h, store[g]) # "mismatch" <=> g = h)

\* ots.go:362-365: nothing verifies unless a calendar that took this head's submission has it
\* attested, whatever calls were lost or repeated on the way.
ConfirmedIsTestified ==
  \A h \in Heads : store[h] # Absent /\ Verify(h, store[h]) = "ok" =>
    \E i \in Pending(store[h]) :
      LET cal == store[h].submissions[i].calendar
      IN  [root |-> h.root, ts |-> h.ts] \in accepted[cal] \cap attested[cal]

\* ots.go:263-266, 324: a stored receipt keeps its digest, its date and its proofs, and once
\* confirmed it stays as it is.
ReceiptsOnlyGrow ==
  [][\A h \in Heads : store[h] # Absent =>
       /\ store'[h] # Absent
       /\ [store'[h] EXCEPT !.upgraded = Absent] = [store[h] EXCEPT !.upgraded = Absent]
       /\ store[h].upgraded # Absent => store'[h] = store[h]]_vars

\* ots.go:95-97 and 276-314: one steady calendar among those that gave a proof is enough for
\* the receipt to be confirmed in the end, whatever becomes of the others.
OneCalendarIsEnough ==
  \A h \in Heads :
    (store[h] # Absent /\ \E i \in Pending(store[h]) : store[h].submissions[i].calendar \in Steady)
      ~> (store[h] # Absent /\ Verify(h, store[h]) = "ok")
=============================================================================
