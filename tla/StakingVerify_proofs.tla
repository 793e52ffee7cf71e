------------------------ MODULE StakingVerify_proofs ------------------------
(***************************************************************************)
(* For any command line and any contents of the inputs: what is printed     *)
(* stands, and exit code 0 means that every input consulted is in order.    *)
(* Which inputs those are depends on the mode, as Consulted says.           *)
(***************************************************************************)
EXTENDS StakingVerify, TLAPS

-----------------------------------------------------------------------------
(* The invariant *)

\* The inputs that may still be consulted.
Ahead ==
  CASE stage \in {"flags", "registry"} -> Inputs
    [] stage = "walletKey" -> Inputs \ {"registry"}
    [] stage \in {"mode", "export"} -> Inputs \ {"registry", "walletKey"}
    [] stage = "sth" ->
         IF Standalone THEN {"sth", "attest"} ELSE {"sth", "anchors", "pol", "attest"}
    [] stage = "anchors" -> {"anchors", "pol", "attest"}
    [] stage = "pol" -> IF Standalone THEN {"pol", "sth", "attest"} ELSE {"pol", "attest"}
    [] stage = "attest" -> {"attest"}
    [] OTHER -> {}

\* What can become of an input.
Outcomes == {"unread", "loaded", "parsed", "verified", "missing", "malformed", "failed"}

\* The types the argument needs.
Typed ==
  /\ given \subseteq Inputs \ {"export"}
  /\ outcome \in [Inputs -> Outcomes]
  /\ reports \subseteq Inputs

\* The stages each mode comes to, and what the flags allow there.
Staged ==
  /\ stage = "export" => args = 1
  /\ stage = "anchors" => args = 1
  /\ stage \in {"sth", "pol", "attest", "done"} => args = 1 \/ Standalone
  /\ args = 1 /\ stage \in {"sth", "anchors", "pol", "attest", "done"} => "export" \in reports
  /\ "export" \in reports => args = 1
  /\ stage \notin {"flags", "exited"} => ("anchors" \in given => "sth" \in given)
  /\ stage = "sth" /\ Standalone => "attest" \in given
  /\ "attest" \in reports => stage \in {"done", "exited"}

\* What is printed is behind the run, and stands.
Standing ==
  /\ \A f \in reports : f \notin Ahead /\ outcome[f] = "verified"
  /\ reports \cap {"sth", "anchors"} # {} => "export" \in reports
  /\ args = 1 => heads \subseteq LogHeads
  /\ anchored \subseteq LogHeads
  /\ heads # {} => fresh \subseteq heads
  /\ "attest" \in Ahead => fresh = {}
  /\ "attest" \in reports /\ "sth" \in given =>
       outcome["sth"] = IF "export" \in reports THEN "verified" ELSE "parsed"

\* As long as nothing stopped the run, what is behind it is in order and the rest is unread.
Sound ==
  /\ stage = "exited" \/ exit = NotExited
  /\ stage # "exited" \/ exit = 0 =>
       /\ \A f \in Consulted \ Ahead : outcome[f] = Passing(f)
       /\ \A f \in Inputs \ Consulted : outcome[f] = "unread"
  /\ exit = 0 => Consulted \cap {"export", "pol", "attest"} # {} /\ Ahead = {}

StageInv == Typed /\ Staged /\ Standing /\ Sound

\* With an export the run is not standalone.
LEMMA OneMode == args = 1 => ~Standalone
BY DEF Standalone

\* Nothing is printed and nothing behind the run at first.
LEMMA InitStages == Init => StageInv
<1> SUFFICES ASSUME Init PROVE StageInv
  OBVIOUS
<1>1. PICK c \in CommandLines : given = c.given /\ args = c.args
  BY DEF Init
<1>2. given \subseteq Inputs \ {"export"}
  BY <1>1, CommandLinesAssumption
<1>3. /\ stage = "flags" /\ outcome = [f \in Inputs |-> "unread"] /\ heads = {}
      /\ anchored = {} /\ fresh = {} /\ reports = {} /\ exit = -1
  BY DEF Init, NotExited
<1>4. Typed
  <2>1. outcome \in [Inputs -> Outcomes]
    BY <1>3 DEF Outcomes
  <2> QED BY <1>2, <1>3, <2>1 DEF Typed
<1>5. Staged
  BY <1>3 DEF Staged
<1>6. Ahead = Inputs
  BY <1>3 DEF Ahead
<1>7. Standing
  BY <1>3 DEF Standing
<1>8. Sound
  <2>1. Consulted \subseteq Inputs
    BY <1>2 DEF Consulted, Inputs
  <2> QED BY <1>3, <1>6, <2>1 DEF Sound, NotExited
<1> QED BY <1>4, <1>5, <1>7, <1>8 DEF StageInv

\* A step that leaves what was read as it is, and moves the run on or ends it without success.
LEMMA MoveOn ==
  ASSUME StageInv, UNCHANGED <<given, args, outcome, reports>>, UNCHANGED contents,
         Staged',
         Ahead' \subseteq Ahead,
         stage # "exited",
         \/ stage' # "exited" /\ UNCHANGED exit /\ Consulted \cap Ahead \subseteq Ahead'
         \/ stage' = "exited" /\ exit' = 2
  PROVE  StageInv'
<1>1. Typed'
  BY DEF StageInv, Typed
<1>2. Standing'
  BY DEF StageInv, Standing, contents
<1>3. Sound'
  BY DEF StageInv, Sound, Consulted, Passing, NotExited
<1> QED BY <1>1, <1>2, <1>3 DEF StageInv

\* An input that ends the run ends it without success.
LEMMA StopKeeps ==
  ASSUME StageInv, NEW f \in Inputs, f \in Ahead,
         NEW o \in {"missing", "malformed", "failed"}, NEW code \in {1, 2},
         Stop(f, o, code)
  PROVE  StageInv'
<1>1. /\ stage' = "exited" /\ exit' = code /\ outcome' = [outcome EXCEPT ![f] = o]
      /\ UNCHANGED <<given, args, reports, heads, anchored, fresh>>
  BY DEF Stop, Exit, Becomes, Silent, contents
<1>2. Ahead' = {}
  BY <1>1 DEF Ahead
<1>3. Typed'
  BY <1>1 DEF StageInv, Typed, Outcomes
<1>4. Staged'
  BY <1>1 DEF StageInv, Staged
<1>5. "attest" \notin reports
  BY DEF StageInv, Staged, Ahead
<1>6. Standing'
  BY <1>1, <1>2, <1>5 DEF StageInv, Standing, Typed
<1>7. Sound'
  BY <1>1 DEF Sound, NotExited
<1> QED BY <1>3, <1>4, <1>6, <1>7 DEF StageInv

\* An input that is in order leaves the rest of the run ahead.
LEMMA ReadKeeps ==
  ASSUME StageInv, Staged', UNCHANGED <<given, args, exit>>, stage # "exited", stage' # "exited",
         NEW f \in Inputs, f \in Ahead, f \notin Ahead', Ahead' \subseteq Ahead,
         Consulted \cap Ahead \subseteq Ahead' \cup {f},
         NEW o \in {"loaded", "parsed", "verified"}, outcome' = [outcome EXCEPT ![f] = o],
         f \in Consulted, o = Passing(f), f = "attest" => stage = "attest",
         reports' = reports \/ (reports' = reports \cup {f} /\ o = "verified"),
         reports' \cap {"sth", "anchors"} # {} => "export" \in reports',
         args = 1 => heads' \subseteq LogHeads,
         anchored' \subseteq LogHeads,
         heads' # {} => fresh' \subseteq heads',
         "attest" \in Ahead' => fresh' = {}
  PROVE  StageInv'
<1>1. outcome \in [Inputs -> Outcomes]
  BY DEF StageInv, Typed
<1>2. outcome'[f] = o /\ \A g \in Inputs \ {f} : outcome'[g] = outcome[g]
  BY <1>1
<1>3. Typed'
  <2>1. o \in Outcomes
    BY DEF Outcomes
  <2> QED BY <1>1, <2>1 DEF StageInv, Typed
<1>4. Standing'
  <2>1. ASSUME NEW g \in reports' PROVE g \notin Ahead' /\ outcome'[g] = "verified"
    <3>1. g \in reports => g \in Inputs /\ g \notin Ahead /\ outcome[g] = "verified"
      BY DEF StageInv, Typed, Standing
    <3>2. CASE g = f
      BY <1>2, <3>1, <3>2
    <3>3. CASE g # f
      BY <1>2, <3>1, <3>3
    <3> QED BY <3>2, <3>3
  <2>2. ASSUME "attest" \in reports', "sth" \in given
        PROVE  outcome'["sth"] = IF "export" \in reports' THEN "verified" ELSE "parsed"
    <3>1. stage # "done"
      BY DEF Ahead
    <3>2. f = "attest" /\ stage = "attest" /\ "attest" \in given
      BY <2>2, <3>1 DEF StageInv, Staged, Consulted
    <3>3. "sth" \in Consulted /\ "sth" \notin Ahead /\ "sth" \in Inputs /\ "sth" # f
      BY <2>2, <3>2 DEF Consulted, Ahead, Inputs
    <3>4. outcome'["sth"] = Passing("sth")
      BY <1>2, <3>3 DEF StageInv, Sound
    <3>5. Passing("sth") = IF args = 1 THEN "verified" ELSE "parsed"
      BY DEF Passing
    <3>6. args = 1 <=> "export" \in reports'
      BY <3>2 DEF StageInv, Staged
    <3> QED BY <3>4, <3>5, <3>6
  <2> QED BY <2>1, <2>2 DEF Standing
<1>5. Sound'
  <2>1. exit' = NotExited /\ NotExited # 0
    BY DEF StageInv, Sound, NotExited
  <2>2. ASSUME NEW g \in Consulted, g \notin Ahead' PROVE outcome'[g] = Passing(g)
    <3>1. g \in Inputs
      BY DEF StageInv, Typed, Consulted, Inputs
    <3>2. CASE g = f
      BY <1>2, <3>2
    <3>3. CASE g # f
      <4>1. outcome[g] = Passing(g)
        BY <2>2, <3>3 DEF StageInv, Sound
      <4> QED BY <1>2, <3>1, <3>3, <4>1
    <3> QED BY <3>2, <3>3
  <2>3. ASSUME NEW g \in Inputs \ Consulted PROVE outcome'[g] = "unread"
    BY <1>2 DEF StageInv, Sound
  <2>4. Consulted' = Consulted /\ \A g : Passing(g)' = Passing(g)
    BY DEF Consulted, Passing
  <2> QED BY <2>1, <2>2, <2>3, <2>4 DEF Sound
<1> QED BY <1>3, <1>4, <1>5 DEF StageInv

-----------------------------------------------------------------------------
(* One step per stage *)

\* The flags are right, or end the run before anything is read.
LEMMA CheckFlagsKeeps ==
  ASSUME StageInv, CheckFlags
  PROVE  StageInv'
<1>1. /\ stage = "flags" /\ UNCHANGED <<given, args, outcome, reports>> /\ UNCHANGED contents
      /\ \/ stage' = "exited" /\ exit' = 2
         \/ /\ stage' = "registry" /\ UNCHANGED exit
            /\ "anchors" \in given => "sth" \in given
  BY DEF CheckFlags, Go, Exit, Silent
<1>2. Staged'
  BY <1>1 DEF StageInv, Staged
<1>3. Ahead = Inputs /\ Ahead' \in {Inputs, {}}
  BY <1>1 DEF Ahead
<1>4. stage' = "registry" => Ahead' = Inputs
  BY DEF Ahead
<1> QED BY <1>1, <1>2, <1>3, <1>4, MoveOn

\* Without -registry nothing is behind the run; with it the file loaded, or ended the run.
LEMMA ReadRegistryKeeps ==
  ASSUME StageInv, ReadRegistry
  PROVE  StageInv'
<1>1. stage = "registry" /\ Ahead = Inputs /\ "registry" \in Inputs
  BY DEF ReadRegistry, Skip, Load, Stop, Ahead, Inputs
<1>2. stage' = "walletKey" => Ahead' = Inputs \ {"registry"}
  BY DEF Ahead
<1>3. stage' = "walletKey" /\ UNCHANGED <<given, args, reports>> => Staged'
  BY <1>1 DEF StageInv, Staged
<1>4. CASE Skip("registry", "walletKey")
  <2>1. /\ "registry" \notin given /\ stage' = "walletKey" /\ UNCHANGED exit
        /\ UNCHANGED <<given, args, outcome, reports>> /\ UNCHANGED contents
    BY <1>4 DEF Skip, Go
  <2>2. "registry" \notin Consulted
    BY <2>1 DEF Consulted
  <2> QED BY <1>1, <1>2, <1>3, <2>1, <2>2, MoveOn
<1>5. CASE Load("registry", "walletKey")
  <2>1. /\ stage' = "walletKey" /\ UNCHANGED exit
        /\ outcome' = [outcome EXCEPT !["registry"] = "loaded"]
        /\ UNCHANGED <<given, args, reports>> /\ UNCHANGED <<heads, anchored, fresh>>
    BY <1>5 DEF Load, Go, Becomes, Silent, contents
  <2>2. "registry" \in Consulted /\ Passing("registry") = "loaded"
    BY <1>5 DEF Load, Consulted, Passing
  <2> QED BY <1>1, <1>2, <1>3, <2>1, <2>2, ReadKeeps DEF StageInv, Standing
<1>6. ASSUME NEW o \in {"missing", "malformed"}, Stop("registry", o, 2) PROVE StageInv'
  BY <1>1, <1>6, StopKeeps
<1> QED BY <1>4, <1>5, <1>6 DEF ReadRegistry

\* So with the pinned wallet keys.
LEMMA ReadWalletKeyKeeps ==
  ASSUME StageInv, ReadWalletKey
  PROVE  StageInv'
<1>1. /\ stage = "walletKey" /\ Ahead = Inputs \ {"registry"}
      /\ "walletKey" \in Ahead /\ "walletKey" \in Inputs
  BY DEF ReadWalletKey, Skip, Load, Stop, Ahead, Inputs
<1>2. stage' = "mode" => Ahead' = Inputs \ {"registry", "walletKey"}
  BY DEF Ahead
<1>3. stage' = "mode" /\ UNCHANGED <<given, args, reports>> => Staged'
  BY <1>1 DEF StageInv, Staged
<1>4. CASE Skip("walletKey", "mode")
  <2>1. /\ "walletKey" \notin given /\ stage' = "mode" /\ UNCHANGED exit
        /\ UNCHANGED <<given, args, outcome, reports>> /\ UNCHANGED contents
    BY <1>4 DEF Skip, Go
  <2>2. "walletKey" \notin Consulted
    BY <2>1 DEF Consulted
  <2> QED BY <1>1, <1>2, <1>3, <2>1, <2>2, MoveOn
<1>5. CASE Load("walletKey", "mode")
  <2>1. /\ stage' = "mode" /\ UNCHANGED exit
        /\ outcome' = [outcome EXCEPT !["walletKey"] = "loaded"]
        /\ UNCHANGED <<given, args, reports>> /\ UNCHANGED <<heads, anchored, fresh>>
    BY <1>5 DEF Load, Go, Becomes, Silent, contents
  <2>2. "walletKey" \in Consulted /\ Passing("walletKey") = "loaded"
    BY <1>5 DEF Load, Consulted, Passing
  <2> QED BY <1>1, <1>2, <1>3, <2>1, <2>2, ReadKeeps DEF StageInv, Standing
<1>6. ASSUME Stop("walletKey", "malformed", 2) PROVE StageInv'
  BY <1>1, <1>6, StopKeeps
<1> QED BY <1>4, <1>5, <1>6 DEF ReadWalletKey

\* In standalone mode the documents are those of -pol and -attest alone, all ahead.
LEMMA ChooseModeKeeps ==
  ASSUME StageInv, ChooseMode
  PROVE  StageInv'
<1>1. /\ stage = "mode" /\ UNCHANGED <<given, args, outcome, reports>> /\ UNCHANGED contents
      /\ \/ Standalone /\ stage' = "pol" /\ UNCHANGED exit
         \/ ~Standalone /\ args = 1 /\ stage' = "export" /\ UNCHANGED exit
         \/ stage' = "exited" /\ exit' = 2
  BY DEF ChooseMode, Go, Exit, Silent
<1>2. Ahead = Inputs \ {"registry", "walletKey"} /\ Ahead' \subseteq Ahead
  BY <1>1 DEF Ahead, Inputs
<1>3. Staged'
  BY <1>1, OneMode DEF StageInv, Staged, Standalone
<1>4. stage' = "export" => Ahead' = Ahead
  BY <1>1 DEF Ahead
<1>5. Standalone /\ stage' = "pol" => Consulted \cap Ahead \subseteq Ahead'
  <2> SUFFICES ASSUME Standalone, stage' = "pol" PROVE Consulted \cap Ahead \subseteq Ahead'
    OBVIOUS
  <2>1. Consulted \subseteq {"registry", "walletKey", "pol", "sth", "attest"}
    <3> SUFFICES ASSUME NEW f \in Consulted
                 PROVE  f \in {"registry", "walletKey", "pol", "sth", "attest"}
      OBVIOUS
    <3>1. f \in given /\ f # "anchors"
      BY OneMode DEF Consulted
    <3> QED BY <3>1 DEF StageInv, Typed, Inputs
  <2>2. Standalone'
    BY <1>1 DEF Standalone
  <2>3. Ahead' = {"pol", "sth", "attest"}
    BY <2>2 DEF Ahead
  <2> QED BY <1>2, <2>1, <2>3
<1> QED BY <1>1, <1>2, <1>3, <1>4, <1>5, MoveOn

\* The export verified, so that later reports may build on it.
LEMMA VerifyExportKeeps ==
  ASSUME StageInv, VerifyExport
  PROVE  StageInv'
<1>1. stage = "export" /\ "export" \in Inputs
  BY DEF VerifyExport, Verified, Stop, Inputs
<1>2. Ahead = Inputs \ {"registry", "walletKey"} /\ args = 1 /\ ~Standalone
  BY <1>1, OneMode DEF Ahead, StageInv, Staged
<1>3. CASE Verified("export", "sth") /\ UNCHANGED contents
  <2>1. /\ stage' = "sth" /\ UNCHANGED exit /\ outcome' = [outcome EXCEPT !["export"] = "verified"]
        /\ UNCHANGED <<given, args>> /\ reports' = reports \cup {"export"}
        /\ UNCHANGED <<heads, anchored, fresh>>
    BY <1>3 DEF Verified, Go, Becomes, Printed, contents
  <2>2. ~Standalone'
    BY <1>2, <2>1 DEF Standalone
  <2>3. Ahead' = {"sth", "anchors", "pol", "attest"}
    BY <2>1, <2>2 DEF Ahead
  <2>4. Ahead' \subseteq Ahead /\ Ahead \subseteq Ahead' \cup {"export"}
        /\ "export" \in Ahead /\ "export" \notin Ahead' /\ "attest" \in Ahead
    BY <1>2, <2>3 DEF Inputs
  <2>5. Staged'
    BY <1>1, <1>2, <2>1, <2>2 DEF StageInv, Staged
  <2>6. "export" \in Consulted /\ Passing("export") = "verified"
    BY <1>2 DEF Consulted, Passing
  <2> QED BY <1>1, <2>1, <2>4, <2>5, <2>6, ReadKeeps DEF StageInv, Standing
<1>4. CASE Stop("export", "missing", 2)
  BY <1>1, <1>2, <1>4, StopKeeps
<1>5. ASSUME NEW o \in {"malformed", "failed"}, Stop("export", o, 1) PROVE StageInv'
  BY <1>1, <1>2, <1>5, StopKeeps
<1> QED BY <1>3, <1>4, <1>5 DEF VerifyExport

\* What is ahead of the head file.
LEMMA AheadOfHeads ==
  ASSUME StageInv, stage = "sth"
  PROVE  /\ Ahead = IF Standalone THEN {"sth", "attest"} ELSE {"sth", "anchors", "pol", "attest"}
         /\ "sth" \in Inputs /\ (~Standalone <=> args = 1)
BY OneMode DEF Ahead, Inputs, StageInv, Staged

\* With an export the heads verify against it; standalone they are parsed, and no document.
LEMMA ReadHeadsKeeps ==
  ASSUME StageInv, ReadHeads
  PROVE  StageInv'
<1>1. stage = "sth"
  BY DEF ReadHeads, Stop, Verified
<1>2. "sth" \in Ahead /\ "attest" \in Ahead /\ "sth" \in Inputs /\ "attest" # "sth"
  BY <1>1, AheadOfHeads
<1>3. fresh = {}
  BY <1>2 DEF StageInv, Standing
<1>4. ASSUME NEW o \in {"missing", "malformed"}, Stop("sth", o, 2) PROVE StageInv'
  BY <1>2, <1>4, StopKeeps
<1>5. CASE Stop("sth", "failed", 1)
  BY <1>2, <1>5, StopKeeps
<1>6. ASSUME Standalone, Becomes("sth", "parsed"), Go("attest"), Silent,
             UNCHANGED <<given, args>>, UNCHANGED <<anchored, fresh>>
      PROVE  StageInv'
  <2>1. /\ stage' = "attest" /\ UNCHANGED exit /\ outcome' = [outcome EXCEPT !["sth"] = "parsed"]
        /\ UNCHANGED <<given, args, reports, anchored, fresh>>
    BY <1>6 DEF Becomes, Go, Silent
  <2>2. Ahead = {"sth", "attest"} /\ Ahead' = {"attest"} /\ args # 1
    BY <1>1, <1>6, <2>1, AheadOfHeads DEF Ahead
  <2>3. "sth" \in Consulted /\ Passing("sth") = "parsed"
    BY <1>1, <1>6, <2>2 DEF Consulted, Passing, ReadHeads, StageInv, Staged
  <2>4. Staged'
    BY <1>1, <1>6, <2>1, <2>2 DEF StageInv, Staged, Standalone
  <2> QED BY <1>1, <1>2, <1>3, <2>1, <2>2, <2>3, <2>4, ReadKeeps DEF StageInv, Standing
<1>7. ASSUME ~Standalone, HeadsVerify(heads'), Verified("sth", "anchors"),
             UNCHANGED <<anchored, fresh>>
      PROVE  StageInv'
  <2>1. /\ stage' = "anchors" /\ UNCHANGED exit /\ outcome' = [outcome EXCEPT !["sth"] = "verified"]
        /\ UNCHANGED <<given, args, anchored, fresh>> /\ reports' = reports \cup {"sth"}
        /\ heads' \subseteq LogHeads
    BY <1>7 DEF Verified, Becomes, Go, Printed, HeadsVerify
  <2>2. /\ Ahead = {"sth", "anchors", "pol", "attest"} /\ Ahead' = {"anchors", "pol", "attest"}
        /\ args = 1
    BY <1>1, <1>7, <2>1, AheadOfHeads DEF Ahead
  <2>3. "export" \in reports
    BY <1>1, <2>2 DEF StageInv, Staged
  <2>4. Staged'
    BY <1>1, <2>1, <2>2, <2>3 DEF StageInv, Staged
  <2>5. "sth" \in Consulted /\ Passing("sth") = "verified"
    BY <2>2 DEF Consulted, Passing, ReadHeads
  <2> QED BY <1>1, <1>2, <1>3, <2>1, <2>2, <2>3, <2>4, <2>5, ReadKeeps DEF StageInv, Standing
<1> QED BY <1>4, <1>5, <1>6, <1>7 DEF ReadHeads

\* No heads, and so no anchors either: CheckFlags saw to it.
LEMMA SkipHeadsKeeps ==
  ASSUME StageInv, SkipHeads
  PROVE  StageInv'
<1>1. /\ stage = "sth" /\ "sth" \notin given /\ stage' = IF Standalone THEN "attest" ELSE "pol"
      /\ UNCHANGED <<given, args, outcome, reports, exit>> /\ UNCHANGED contents
  BY DEF SkipHeads, Skip, Go
<1>2. "anchors" \notin given
  BY <1>1 DEF StageInv, Staged
<1>3. Consulted \cap {"sth", "anchors"} = {}
  BY <1>1, <1>2 DEF Consulted
<1>4. Standalone' = Standalone
  BY <1>1 DEF Standalone
<1>5. Staged'
  BY <1>1, AheadOfHeads DEF StageInv, Staged, Standalone
<1>6. Ahead' = IF Standalone THEN {"attest"} ELSE {"pol", "attest"}
  BY <1>1, <1>4 DEF Ahead
<1>7. Ahead' \subseteq Ahead /\ Consulted \cap Ahead \subseteq Ahead'
  BY <1>1, <1>3, <1>6, AheadOfHeads
<1> QED BY <1>1, <1>5, <1>7, MoveOn

\* Anchors are compared with heads of the log.
LEMMA VerifyAnchorsKeeps ==
  ASSUME StageInv, VerifyAnchors
  PROVE  StageInv'
<1>1. stage = "anchors" /\ "anchors" \in Inputs /\ Ahead = {"anchors", "pol", "attest"}
  BY DEF VerifyAnchors, Skip, Stop, Verified, Inputs, Ahead
<1>2. args = 1 /\ "export" \in reports /\ heads \subseteq LogHeads
  BY <1>1 DEF StageInv, Staged, Standing
<1>3. stage' = "pol" /\ UNCHANGED <<given, args>> => Ahead' = {"pol", "attest"}
  BY <1>2, OneMode DEF Ahead, Standalone
<1>4. stage' = "pol" /\ UNCHANGED <<given, args>> /\ reports \subseteq reports'
        /\ reports' \cap {"export", "attest"} \subseteq reports => Staged'
  BY <1>1, <1>2 DEF StageInv, Staged
<1>5. CASE Skip("anchors", "pol")
  <2>1. /\ "anchors" \notin given /\ stage' = "pol"
        /\ UNCHANGED <<given, args, outcome, reports, exit>> /\ UNCHANGED contents
    BY <1>5 DEF Skip, Go
  <2>2. "anchors" \notin Consulted
    BY <2>1 DEF Consulted
  <2> QED BY <1>1, <1>3, <1>4, <2>1, <2>2, MoveOn
<1>6. ASSUME NEW o \in {"missing", "malformed"}, Stop("anchors", o, 2) PROVE StageInv'
  BY <1>1, <1>6, StopKeeps
<1>7. CASE Stop("anchors", "failed", 1)
  BY <1>1, <1>7, StopKeeps
<1>8. ASSUME "anchors" \in given, AnchorsVerify(anchored'), Verified("anchors", "pol"),
             UNCHANGED <<heads, fresh>>
      PROVE  StageInv'
  <2>1. /\ stage' = "pol" /\ outcome' = [outcome EXCEPT !["anchors"] = "verified"]
        /\ UNCHANGED <<given, args, exit, heads, fresh>> /\ reports' = reports \cup {"anchors"}
        /\ anchored' \subseteq LogHeads
    BY <1>2, <1>8 DEF Verified, Becomes, Go, Printed, AnchorsVerify
  <2>2. Staged' /\ Ahead' = {"pol", "attest"}
    BY <1>3, <1>4, <2>1
  <2>3. "anchors" \in Consulted /\ Passing("anchors") = "verified"
    BY <1>2, <1>8 DEF Consulted, Passing
  <2> QED BY <1>1, <1>2, <2>1, <2>2, <2>3, ReadKeeps DEF StageInv, Standing
<1> QED BY <1>5, <1>6, <1>7, <1>8 DEF VerifyAnchors

\* The -pol stage; standalone, what comes next depends on -attest.
LEMMA VerifyPoLKeeps ==
  ASSUME StageInv, VerifyPoLFile
  PROVE  StageInv'
<1>1. stage = "pol" /\ "pol" \in Inputs /\ "pol" \in Ahead /\ "attest" \in Ahead
      /\ Ahead = IF Standalone THEN {"pol", "sth", "attest"} ELSE {"pol", "attest"}
  BY DEF VerifyPoLFile, Skip, Stop, Verified, Inputs, Ahead
<1>2. (args = 1 \/ Standalone) /\ (args = 1 => "export" \in reports)
  BY <1>1 DEF StageInv, Staged
<1>3. stage' = AfterPoL /\ UNCHANGED <<given, args>>
        => /\ Ahead' \subseteq Ahead /\ "pol" \notin Ahead'
           /\ Consulted \cap Ahead \subseteq Ahead' \cup {"pol"}
           /\ stage' \in {"attest", "sth", "done"}
  <2> SUFFICES ASSUME stage' = AfterPoL, UNCHANGED <<given, args>>
               PROVE  /\ Ahead' \subseteq Ahead /\ "pol" \notin Ahead'
                      /\ Consulted \cap Ahead \subseteq Ahead' \cup {"pol"}
                      /\ stage' \in {"attest", "sth", "done"}
    OBVIOUS
  <2>1. Standalone' = Standalone
    BY DEF Standalone
  <2>2. CASE ~Standalone
    <3>1. stage' = "attest" /\ Ahead' = {"attest"}
      BY <2>2 DEF AfterPoL, Ahead
    <3> QED BY <1>1, <2>2, <3>1
  <2>3. CASE Standalone
    <3>1. "sth" \in Consulted \/ "attest" \in Consulted => "attest" \in given
      BY <2>3, OneMode DEF Consulted
    <3>2. CASE "attest" \in given
      <4>1. stage' = "sth" /\ Ahead' = {"sth", "attest"}
        BY <2>1, <2>3, <3>2 DEF AfterPoL, Ahead
      <4> QED BY <1>1, <2>3, <3>1, <4>1
    <3>3. CASE "attest" \notin given
      <4>1. stage' = "done" /\ Ahead' = {}
        BY <2>3, <3>3 DEF AfterPoL, Ahead
      <4> QED BY <1>1, <2>3, <3>1, <3>3, <4>1
    <3> QED BY <3>2, <3>3
  <2> QED BY <2>2, <2>3
<1>4. stage' = AfterPoL /\ UNCHANGED <<given, args>>
        /\ reports \subseteq reports'
        /\ reports' \cap {"export", "attest"} \subseteq reports => Staged'
  BY <1>1, <1>2 DEF StageInv, Staged, Standalone, AfterPoL
<1>5. CASE Skip("pol", AfterPoL)
  <2>1. /\ "pol" \notin given /\ stage' = AfterPoL
        /\ UNCHANGED <<given, args, outcome, reports, exit>> /\ UNCHANGED contents
    BY <1>5 DEF Skip, Go
  <2>2. "pol" \notin Consulted
    BY <2>1 DEF Consulted
  <2>3. Staged'
    BY <1>3, <1>4, <2>1
  <2>4. Ahead' \subseteq Ahead /\ Consulted \cap Ahead \subseteq Ahead' /\ stage' # "exited"
    BY <1>3, <2>1, <2>2
  <2> QED BY <1>1, <2>1, <2>3, <2>4, MoveOn
<1>6. CASE Stop("pol", "missing", 2)
  BY <1>1, <1>6, StopKeeps
<1>7. ASSUME NEW o \in {"malformed", "failed"}, Stop("pol", o, 1) PROVE StageInv'
  BY <1>1, <1>7, StopKeeps
<1>8. ASSUME "pol" \in given, Verified("pol", AfterPoL), UNCHANGED contents
      PROVE  StageInv'
  <2>1. /\ stage' = AfterPoL /\ outcome' = [outcome EXCEPT !["pol"] = "verified"]
        /\ UNCHANGED <<given, args, exit, heads, anchored, fresh>>
        /\ reports' = reports \cup {"pol"}
    BY <1>8 DEF Verified, Becomes, Go, Printed, contents
  <2>2. Staged'
    BY <1>3, <1>4, <2>1
  <2>3. /\ Ahead' \subseteq Ahead /\ "pol" \notin Ahead' /\ stage' # "exited"
        /\ Consulted \cap Ahead \subseteq Ahead' \cup {"pol"}
    BY <1>3, <2>1
  <2>4. "pol" \in Consulted /\ Passing("pol") = "verified"
    BY <1>8 DEF Consulted, Passing
  <2> QED BY <1>1, <2>1, <2>2, <2>3, <2>4, ReadKeeps DEF StageInv, Standing
<1> QED BY <1>5, <1>6, <1>7, <1>8 DEF VerifyPoLFile

\* Challenges are compared with heads, which are those of the log if there is an export.
LEMMA VerifyAttestKeeps ==
  ASSUME StageInv, VerifyAttestFile
  PROVE  StageInv'
<1>1. stage = "attest" /\ "attest" \in Inputs /\ Ahead = {"attest"}
  BY DEF VerifyAttestFile, Skip, Stop, Verified, Inputs, Ahead
<1>2. (args = 1 \/ Standalone) /\ (args = 1 => "export" \in reports /\ heads \subseteq LogHeads)
  BY <1>1 DEF StageInv, Staged, Standing
<1>3. stage' = "done" => Ahead' = {}
  BY DEF Ahead
<1>4. stage' = "done" /\ UNCHANGED <<given, args>> /\ reports \subseteq reports'
        /\ reports' \cap {"export"} \subseteq reports => Staged'
  BY <1>1, <1>2 DEF StageInv, Staged, Standalone
<1>5. CASE Skip("attest", "done")
  <2>1. /\ "attest" \notin given /\ stage' = "done"
        /\ UNCHANGED <<given, args, outcome, reports, exit>> /\ UNCHANGED contents
    BY <1>5 DEF Skip, Go
  <2>2. "attest" \notin Consulted
    BY <2>1 DEF Consulted
  <2> QED BY <1>1, <1>3, <1>4, <2>1, <2>2, MoveOn
<1>6. CASE Stop("attest", "missing", 2)
  BY <1>1, <1>6, StopKeeps
<1>7. ASSUME NEW o \in {"malformed", "failed"}, Stop("attest", o, 1) PROVE StageInv'
  BY <1>1, <1>7, StopKeeps
<1>8. ASSUME "attest" \in given, ChallengesVerify(fresh'), Verified("attest", "done"),
             UNCHANGED <<heads, anchored>>
      PROVE  StageInv'
  <2>1. /\ stage' = "done" /\ outcome' = [outcome EXCEPT !["attest"] = "verified"]
        /\ UNCHANGED <<given, args, exit, heads, anchored>> /\ reports' = reports \cup {"attest"}
        /\ heads # {} => fresh' \subseteq heads
    BY <1>8 DEF Verified, Becomes, Go, Printed, ChallengesVerify
  <2>2. Staged' /\ Ahead' = {}
    BY <1>3, <1>4, <2>1
  <2>3. "attest" \in Consulted /\ Passing("attest") = "verified"
    BY <1>8 DEF Consulted, Passing
  <2> QED BY <1>1, <1>2, <2>1, <2>2, <2>3, ReadKeeps DEF StageInv, Standing
<1> QED BY <1>5, <1>6, <1>7, <1>8 DEF VerifyAttestFile

\* main returns with everything behind it.
LEMMA ReturnKeeps ==
  ASSUME StageInv, Return
  PROVE  StageInv'
<1>1. /\ stage = "done" /\ stage' = "exited" /\ exit' = 0
      /\ UNCHANGED <<given, args, outcome, reports, heads, anchored, fresh>>
  BY DEF Return, Exit, Silent, contents
<1>2. Ahead = {} /\ Ahead' = {}
  BY <1>1 DEF Ahead
<1>3. Typed'
  BY <1>1 DEF StageInv, Typed
<1>4. Staged'
  BY <1>1 DEF StageInv, Staged
<1>5. Standing'
  BY <1>1, <1>2 DEF StageInv, Standing
<1>6. Consulted \cap {"export", "pol", "attest"} # {} /\ Consulted' = Consulted
  BY <1>1 DEF StageInv, Staged, Consulted, Standalone
<1>7. Sound'
  BY <1>1, <1>2, <1>6 DEF StageInv, Sound, Passing
<1> QED BY <1>3, <1>4, <1>5, <1>7 DEF StageInv

\* Nothing happens.
LEMMA StutterKeepsStages ==
  ASSUME StageInv, UNCHANGED vars
  PROVE  StageInv'
BY DEF StageInv, Typed, Staged, Standing, Sound, Ahead, Consulted, Passing, Standalone, vars

\* The invariant holds throughout.
LEMMA StagesInvariant == Spec => []StageInv
<1>1. StageInv /\ [Next]_vars => StageInv'
  BY CheckFlagsKeeps, ReadRegistryKeeps, ReadWalletKeyKeeps, ChooseModeKeeps, VerifyExportKeeps,
     ReadHeadsKeeps, SkipHeadsKeeps, VerifyAnchorsKeeps, VerifyPoLKeeps, VerifyAttestKeeps,
     ReturnKeeps, StutterKeepsStages DEF Next
<1> QED BY <1>1, InitStages, PTL DEF Spec

-----------------------------------------------------------------------------
(* The theorems *)

\* What is printed stands, whatever the run comes to after it (main.go:135-263).  Heads and
\* anchors are only reported of an export that verified, and anchors name roots of it.  Challenges
\* of an attestation are among the heads of the file given, if it has any: roots of the verified
\* export with one, and heads merely parsed without one.  A standalone report of -pol or -attest
\* rests on no export.
THEOREM PrintedStands == Spec => []ReportsStand
<1>1. StageInv => ReportsStand
  BY DEF StageInv, Staged, Standing, ReportsStand
<1> QED BY <1>1, StagesInvariant, PTL

\* Exit code 0 means that an export, a liability proof or an attestation was verified and that
\* every input consulted is in order (main.go:28): with an export those of all options, without
\* one not -anchors, nor -sth unless -attest is given, which exit with 0 unopened
\* (main.go:135-158).
THEOREM ZeroIsEarned == Spec => []ZeroMeansVerified
<1>1. StageInv => ZeroMeansVerified
  BY DEF StageInv, Sound, ZeroMeansVerified
<1> QED BY <1>1, StagesInvariant, PTL
=============================================================================
