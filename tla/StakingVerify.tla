---------------------------- MODULE StakingVerify ---------------------------
(***************************************************************************)
(* The command staking-verify (main.go): the order in which it consults the *)
(* inputs on its command line, what each stage hands to the next, what it   *)
(* prints and how it exits.  What a verifier decides about its input is     *)
(* modelled elsewhere (VerifyStream, TreeHeads, Attestation, SumTree); here *)
(* its verdict is a choice, bound only by what passes between the stages:   *)
(* the heads, as pairs of a pool and a root.                                *)
(***************************************************************************)
EXTENDS Integers, FiniteSets

CONSTANTS
  Pools,
  Roots,       \* Merkle roots that heads and challenges name
  LogHeads,    \* the pairs of a pool and the root of a prefix of its exported log
  CommandLines \* [given, args]: options given, and how many arguments follow them

ASSUME LogHeadsAssumption == LogHeads \subseteq Pools \X Roots

Inputs == {"registry", "walletKey", "export", "sth", "anchors", "pol", "attest"}

\* The export is an argument; every other input has its option.
ASSUME CommandLinesAssumption == \A c \in CommandLines : c.given \subseteq Inputs \ {"export"}

VARIABLES
  given,    \* the options given
  args,     \* the number of arguments: one of them is the export
  stage,    \* the input consulted next, "flags" or "mode" between, or "exited"
  outcome,  \* what became of each input, "unread" at first
  heads,    \* the heads handed on to the attestation check, {} as well for none (nil)
  anchored, \* the heads that the anchor records name
  fresh,    \* the pairs of pool and challenge that the attestation records name
  reports,  \* the reports printed
  exit      \* the exit code, or -1

vars == <<given, args, stage, outcome, heads, anchored, fresh, reports, exit>>

contents == <<heads, anchored, fresh>>

NotExited == -1

-----------------------------------------------------------------------------
(* What the stages share *)

Go(next) == stage' = next /\ UNCHANGED exit

Exit(code) == stage' = "exited" /\ exit' = code

Becomes(f, o) == outcome' = [outcome EXCEPT ![f] = o]

Printed(report) == reports' = reports \cup {report}

Silent == UNCHANGED reports

\* An input that was not asked for.
Skip(f, next) ==
  /\ stage = f
  /\ f \notin given
  /\ Go(next)
  /\ UNCHANGED <<given, args, outcome, reports>>
  /\ UNCHANGED contents

\* An input that ends the run: os.Exit in the middle of main.
Stop(f, o, code) ==
  /\ stage = f
  /\ Becomes(f, o)
  /\ Exit(code)
  /\ Silent
  /\ UNCHANGED <<given, args>>
  /\ UNCHANGED contents

-----------------------------------------------------------------------------
(* Before any input is verified *)

\* -anchors requires -sth.
CheckFlags ==
  /\ stage = "flags"
  /\ IF "anchors" \in given /\ "sth" \notin given THEN Exit(2) ELSE Go("registry")
  /\ Silent
  /\ UNCHANGED <<given, args, outcome>>
  /\ UNCHANGED contents

Load(f, next) ==
  /\ stage = f
  /\ f \in given
  /\ Becomes(f, "loaded")
  /\ Go(next)
  /\ Silent
  /\ UNCHANGED <<given, args>>
  /\ UNCHANGED contents

ReadRegistry ==
  \/ Skip("registry", "walletKey")
  \/ Load("registry", "walletKey")
  \/ "registry" \in given /\ \E o \in {"missing", "malformed"} : Stop("registry", o, 2)

ReadWalletKey ==
  \/ Skip("walletKey", "mode")
  \/ Load("walletKey", "mode")
  \/ "walletKey" \in given /\ Stop("walletKey", "malformed", 2)

\* Mutant: -pol and -attest are always standalone.
StandaloneIfAsked == given \cap {"pol", "attest"} # {}

\* Mutant: only -pol and -attest together are.
StandaloneIfBoth == args = 0 /\ {"pol", "attest"} \subseteq given

\* No export is needed to verify a liability proof or an attestation.
Standalone == args = 0 /\ given \cap {"pol", "attest"} # {}

ChooseMode ==
  /\ stage = "mode"
  /\ \/ Standalone /\ Go("pol")
     \/ ~Standalone /\ IF args = 1 THEN Go("export") ELSE Exit(2)
  /\ Silent
  /\ UNCHANGED <<given, args, outcome>>
  /\ UNCHANGED contents

-----------------------------------------------------------------------------
(* The stages.  A malformed export, proof or attestation document is an error *)
(* of its verifier, with exit code 1; other malformed files end with 2.       *)

\* A verified input: its report is printed.
Verified(f, next) ==
  /\ stage = f
  /\ Becomes(f, "verified")
  /\ Printed(f)
  /\ Go(next)
  /\ UNCHANGED <<given, args>>

VerifyExport ==
  \/ Verified("export", "sth") /\ UNCHANGED contents
  \/ Stop("export", "missing", 2)
  \/ \E o \in {"malformed", "failed"} : Stop("export", o, 1)

\* VerifySTHs on the heads of a file: each root must be the one of a prefix of the log.
HeadsVerify(hs) == hs \subseteq LogHeads

\* Where the head file is consulted: after the export, or standalone before -attest.
ReadHeads ==
  /\ "sth" \in given
  /\ \/ \E o \in {"missing", "malformed"} : Stop("sth", o, 2)
     \/ ~Standalone /\ Stop("sth", "failed", 1)
     \/ \E hs \in SUBSET (Pools \X Roots) :
          /\ IF Standalone
             THEN /\ stage = "sth"
                  /\ Becomes("sth", "parsed")
                  /\ Go("attest")
                  /\ Silent
                  /\ UNCHANGED <<given, args>>
             ELSE HeadsVerify(hs) /\ Verified("sth", "anchors")
          /\ heads' = hs
          /\ UNCHANGED <<anchored, fresh>>

SkipHeads == Skip("sth", IF Standalone THEN "attest" ELSE "pol")

\* Mutant: an anchor is reported whether or not its head was published.
AnchorsVerifyAlone(as) == TRUE

\* VerifyAnchors: each record names a head of the file, and its digest is that head's.
AnchorsVerify(as) == as \subseteq heads

VerifyAnchors ==
  \/ Skip("anchors", "pol")
  \/ /\ "anchors" \in given
     /\ \/ \E o \in {"missing", "malformed"} : Stop("anchors", o, 2)
        \/ Stop("anchors", "failed", 1)
        \/ \E as \in SUBSET (Pools \X Roots) :
             /\ AnchorsVerify(as)
             /\ Verified("anchors", "pol")
             /\ anchored' = as
             /\ UNCHANGED <<heads, fresh>>

\* verifyPoLFile.  What follows it: standalone, the heads and the attestation, if there is one.
AfterPoL ==
  IF ~Standalone THEN "attest" ELSE IF "attest" \in given THEN "sth" ELSE "done"

VerifyPoLFile ==
  \/ Skip("pol", AfterPoL)
  \/ /\ "pol" \in given
     /\ \/ Stop("pol", "missing", 2)
        \/ \E o \in {"malformed", "failed"} : Stop("pol", o, 1)
        \/ Verified("pol", AfterPoL) /\ UNCHANGED contents

\* VerifyAttestDoc: challenges are compared when there are heads to compare them with.
ChallengesVerify(cs) == heads # {} => cs \subseteq heads

\* verifyAttestFile: the challenges of one document are all of its pool.
VerifyAttestFile ==
  \/ Skip("attest", "done")
  \/ /\ "attest" \in given
     /\ \/ Stop("attest", "missing", 2)
        \/ \E o \in {"malformed", "failed"} : Stop("attest", o, 1)
        \/ \E p \in Pools, rs \in SUBSET Roots :
             /\ ChallengesVerify({p} \X rs)
             /\ Verified("attest", "done")
             /\ fresh' = {p} \X rs
             /\ UNCHANGED <<heads, anchored>>

\* main returns.
Return ==
  /\ stage = "done"
  /\ Exit(0)
  /\ Silent
  /\ UNCHANGED <<given, args, outcome>>
  /\ UNCHANGED contents

-----------------------------------------------------------------------------

Init ==
  /\ \E c \in CommandLines : given = c.given /\ args = c.args
  /\ stage = "flags"
  /\ outcome = [f \in Inputs |-> "unread"]
  /\ heads = {}
  /\ anchored = {}
  /\ fresh = {}
  /\ reports = {}
  /\ exit = NotExited

Next ==
  \/ CheckFlags
  \/ ReadRegistry
  \/ ReadWalletKey
  \/ ChooseMode
  \/ VerifyExport
  \/ ReadHeads
  \/ SkipHeads
  \/ VerifyAnchors
  \/ VerifyPoLFile
  \/ VerifyAttestFile
  \/ Return

\* One goroutine, over files that end.
Spec == Init /\ [][Next]_vars /\ WF_vars(Next)

-----------------------------------------------------------------------------
(* Properties *)

\* What is printed stands, whatever the run comes to after it (main.go:135-263, attest.go:22-24).
\* Heads and anchors are only reported of an export that verified, and anchors name roots of that
\* export.  A report of an attestation comes after a head file that is given was read, and its
\* challenges are among the heads of that file if it has any: with an export, heads that verified
\* as roots of it; without one, heads that are no more than parsed.
ReportsStand ==
  /\ \A f \in reports : outcome[f] = "verified"
  /\ reports \cap {"sth", "anchors"} # {} => "export" \in reports
  /\ "anchors" \in reports => anchored \subseteq LogHeads
  /\ "attest" \in reports =>
       /\ "sth" \in given =>
            outcome["sth"] = IF "export" \in reports THEN "verified" ELSE "parsed"
       /\ heads # {} => fresh \subseteq heads
       /\ "export" \in reports => heads \subseteq LogHeads

\* The inputs that a run which succeeds has consulted.  Without an export the head file is read
\* for -attest alone, and the anchor file never.
Consulted ==
  IF args = 1 THEN given \cup {"export"}
  ELSE {f \in given : f # "anchors" /\ (f = "sth" => "attest" \in given)}

\* What becomes of an input that passes what its stage asks of it.
Passing(f) ==
  CASE f \in {"registry", "walletKey"} -> "loaded"
    [] f = "sth" /\ args # 1 -> "parsed"
    [] OTHER -> "verified"

\* Exit code 0 (main.go:28): an export, a liability proof or an attestation was verified; every
\* input consulted is in order; and no other was opened.  README.md:232 says that everything
\* requested verified.  With an export that is so: every option's input is consulted.  Without
\* one it is not: -sth with -pol alone, and -anchors, exit with 0 unopened (main.go:135-158).
ZeroMeansVerified ==
  exit = 0 =>
    /\ Consulted \cap {"export", "pol", "attest"} # {}
    /\ \A f \in Consulted : outcome[f] = Passing(f)
    /\ \A f \in Inputs \ Consulted : outcome[f] = "unread"

\* A command line that the usage allows.
UsageOk ==
  /\ "anchors" \in given => "sth" \in given
  /\ args = 1 \/ (args = 0 /\ given \cap {"pol", "attest"} # {})

\* When no input is missing, malformed or failing, a right command line exits with 0, in
\* either mode and with every combination of options.
GoodInputsExitZero ==
  UsageOk /\ [](\A f \in Inputs : outcome[f] \notin {"missing", "malformed", "failed"})
    => <>(exit = 0)
=============================================================================
