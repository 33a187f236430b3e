---------------------------- MODULE ScriptProofs ----------------------------
(***************************************************************************)
(* Theorems about the scripts of an operator: CheckoutSetup, for any       *)
(* commits and any owned files, and ValidationRun, for any number of runs, *)
(* tasks and signals.  The two share no state.                             *)
(***************************************************************************)
EXTENDS CheckoutSetup, ValidationRun, FiniteSetTheorems, TLAPS

-----------------------------------------------------------------------------
(* CheckoutSetup.                                                          *)

AfterModules == {"verify", "patch", "patching", "copy", "sync", "inspect"}
AfterCheckout == AfterModules \cup {"submodules"}

\* What a run knows of the checkout at each of its steps.
ProgressInv ==
  /\ stage # "idle" => pin \in Commits
  /\ todo # {} => stage \in {"restoring", "patching"}
  /\ stage = "clone" => tree = "none"
  /\ stage \notin {"idle", "clone"} => tree # "none"
  /\ stage \notin {"idle", "restore"} => ~foreign
  /\ tree = "clean" \/ stage = "restoring" => head \in Commits
  /\ stage \in AfterCheckout => head = pin /\ tree = "clean"
  /\ stage \in AfterModules => modules = pin
  /\ stage \in {"patching", "copy", "sync", "inspect"} => pin \in Supported
  /\ stage \in {"sync", "inspect"} => copies = Copied
  /\ stage = "inspect" => venv = pin

\* What it knows of the owned files.  Those of a checkout that was never
\* cloned are not there.
OwnedInv ==
  /\ tree = "none" => ~foreign /\ \A f \in OwnedFiles : owned[f].is = "absent"
  /\ stage = "restoring" =>
       \A f \in OwnedFiles \ todo : owned[f] = Version(head, "pristine")
  /\ stage \in {"fetch", "checkout"} =>
       \A f \in OwnedFiles : owned[f].is \in {"absent", "pristine"}
  /\ stage \in {"submodules", "verify", "patch"} =>
       \A f \in OwnedFiles : owned[f] = OwnedOf(pin, f)
  /\ stage = "patching" =>
       \A f \in OwnedFiles \ todo : owned[f] = Version(pin, "patched")
  /\ stage \in {"copy", "sync", "inspect"} =>
       \A f \in OwnedFiles : owned[f] = Version(pin, "patched")

\* A commit that cannot be restored was never patched.
PatchedInv == (\E f \in OwnedFiles : owned[f].is = "patched") => head \in Supported

\* What the end of a run says is still so.
OutcomeInv ==
  /\ result # "none" => stage = "idle"
  /\ DoneMeansPrepared /\ RefusedForACause

SetupInv ==
  /\ SetupTypeOK /\ ProgressInv /\ OwnedInv /\ PatchedInv /\ OutcomeInv
  /\ OnlyACutLeavesHalfAPatch

-----------------------------------------------------------------------------
LEMMA Versions ==
  /\ \A c \in Commits \cup {NoCommit}, is \in {"absent", "pristine", "patched", "edited"} :
       /\ Version(c, is) \in [of : Commits \cup {NoCommit},
                             is : {"absent", "pristine", "patched", "edited"}]
       /\ Version(c, is).is = is
  /\ \A v : AllOwned(v) = [f \in OwnedFiles |-> v]
BY DEF Version, AllOwned

LEMMA SetupInitially == SetupInit => SetupInv
<1> SUFFICES ASSUME SetupInit PROVE SetupInv
  OBVIOUS
<1>1. /\ owned \in [OwnedFiles -> [of : Commits \cup {NoCommit},
                                  is : {"absent", "pristine", "patched", "edited"}]]
      /\ \A f \in OwnedFiles : owned[f].is = "absent"
  BY Versions DEF SetupInit
<1>2. SetupTypeOK
  BY <1>1 DEF SetupInit, SetupTypeOK
<1>3. ProgressInv /\ OwnedInv
  BY <1>1 DEF SetupInit, ProgressInv, OwnedInv, AfterCheckout, AfterModules
<1>4. OutcomeInv /\ OnlyACutLeavesHalfAPatch
  BY <1>1 DEF SetupInit, OutcomeInv, DoneMeansPrepared, RefusedForACause,
     OnlyACutLeavesHalfAPatch, HalfPatched
<1>5. PatchedInv
  BY <1>1 DEF PatchedInv
<1> QED
  BY <1>2, <1>3, <1>4, <1>5 DEF SetupInv

LEMMA RunSetupKeeps ==
  ASSUME SetupInv, NEW c \in Commits, RunSetup(c)
  PROVE  SetupInv'
<1> USE DEF SetupInv
<1>1. SetupTypeOK'
  BY DEF RunSetup, SetupTypeOK
<1>2. ProgressInv'
  BY DEF RunSetup, ProgressInv, OwnedInv, AfterCheckout, AfterModules
<1>3. OwnedInv'
  BY DEF RunSetup, OwnedInv
<1>4. OutcomeInv'
  BY DEF RunSetup, OutcomeInv, DoneMeansPrepared, RefusedForACause
<1>5. OnlyACutLeavesHalfAPatch'
  BY DEF RunSetup, OnlyACutLeavesHalfAPatch, HalfPatched
<1>6. PatchedInv'
  BY DEF RunSetup, PatchedInv
<1> QED
  BY <1>1, <1>2, <1>3, <1>4, <1>5, <1>6

LEMMA CloneKeeps ==
  ASSUME SetupInv, Clone
  PROVE  SetupInv'
<1> USE DEF SetupInv
<1>1. SetupTypeOK'
  BY DEF Clone, GoOn, Stop, SetupTypeOK
<1>2. ProgressInv'
  BY DEF Clone, GoOn, Stop, ProgressInv, AfterCheckout, AfterModules
<1>3. OwnedInv'
  BY DEF Clone, GoOn, Stop, OwnedInv, ProgressInv
<1>4. OutcomeInv'
  BY DEF Clone, GoOn, Stop, OutcomeInv, DoneMeansPrepared, RefusedForACause
<1>5. OnlyACutLeavesHalfAPatch'
  BY DEF Clone, OnlyACutLeavesHalfAPatch, HalfPatched
<1>6. PatchedInv'
  BY DEF Clone, PatchedInv
<1> QED
  BY <1>1, <1>2, <1>3, <1>4, <1>5, <1>6

LEMMA RestoreBeginsKeeps ==
  ASSUME SetupInv, RestoreBegins
  PROVE  SetupInv'
<1> USE DEF SetupInv
<1>1. SetupTypeOK'
  BY DEF RestoreBegins, Stop, SetupTypeOK
<1>2. ProgressInv'
  BY DEF RestoreBegins, Stop, UnexpectedChanges, ProgressInv, SetupTypeOK, OwnedInv,
     AfterCheckout, AfterModules
<1>3. OwnedInv'
  BY DEF RestoreBegins, Stop, OwnedInv
<1>4. OutcomeInv'
  BY DEF RestoreBegins, Stop, UnexpectedChanges, OutcomeInv, DoneMeansPrepared, RefusedForACause
<1>5. OnlyACutLeavesHalfAPatch'
  BY DEF RestoreBegins, OnlyACutLeavesHalfAPatch, HalfPatched
<1>6. PatchedInv'
  BY DEF RestoreBegins, PatchedInv
<1> QED
  BY <1>1, <1>2, <1>3, <1>4, <1>5, <1>6

LEMMA RestoreFileKeeps ==
  ASSUME SetupInv, NEW f \in OwnedFiles, RestoreFile(f)
  PROVE  SetupInv'
<1> USE DEF SetupInv
<1>0. head \in Commits /\ stage = "restoring"
  BY DEF RestoreFile, ProgressInv
<1>1. CASE f \in TrackedIn[head]
  <2>1. SetupTypeOK'
    BY <1>1, Versions DEF RestoreFile, SetupTypeOK
  <2>2. ProgressInv'
    BY <1>1 DEF RestoreFile, ProgressInv
  <2>3. OwnedInv'
    BY <1>1 DEF RestoreFile, OwnedInv, SetupTypeOK, ProgressInv
  <2>4. OutcomeInv'
    BY <1>1 DEF RestoreFile, OutcomeInv, DoneMeansPrepared, RefusedForACause
  <2>5. OnlyACutLeavesHalfAPatch'
    BY <1>1 DEF RestoreFile, OnlyACutLeavesHalfAPatch
  <2>6. PatchedInv'
    BY <1>1, Versions DEF RestoreFile, PatchedInv, SetupTypeOK
  <2> QED
    BY <2>1, <2>2, <2>3, <2>4, <2>5, <2>6
<1>2. CASE f \notin TrackedIn[head]
  <2>1. Unrestorable(head) /\ \A g \in OwnedFiles : owned[g].is # "patched"
    BY <1>0, <1>2, CheckoutAssumption DEF Unrestorable, PatchedInv
  <2>2. SetupTypeOK' /\ ProgressInv' /\ OwnedInv'
    BY <1>0, <1>2 DEF RestoreFile, Stop, SetupTypeOK, ProgressInv, OwnedInv, AfterCheckout,
       AfterModules
  <2>3. OutcomeInv'
    BY <1>2, <2>1 DEF RestoreFile, Stop, OutcomeInv, DoneMeansPrepared, RefusedForACause,
       Unrestorable
  <2>4. OnlyACutLeavesHalfAPatch' /\ PatchedInv'
    BY <1>2, <2>1 DEF RestoreFile, OnlyACutLeavesHalfAPatch, HalfPatched, PatchedInv
  <2> QED
    BY <2>2, <2>3, <2>4
<1> QED
  BY <1>1, <1>2

LEMMA RemoveCopiesKeeps ==
  ASSUME SetupInv, RemoveCopies
  PROVE  SetupInv'
<1> USE DEF SetupInv
<1>0. stage = "restoring" /\ todo = {} /\ tree # "none" /\ ~foreign
  BY DEF RemoveCopies, ProgressInv
<1>1. SetupTypeOK'
  BY DEF RemoveCopies, GoOn, Stop, SetupTypeOK
<1>2. ProgressInv'
  BY <1>0 DEF RemoveCopies, GoOn, Stop, ProgressInv, AfterCheckout, AfterModules
<1>3. OwnedInv'
  BY <1>0, Versions DEF RemoveCopies, GoOn, Stop, OwnedInv, SetupTypeOK, ProgressInv
<1>4. OutcomeInv'
  <2>1. head \in Commits
    BY <1>0 DEF ProgressInv
  <2> QED
    BY <1>0, <2>1 DEF RemoveCopies, GoOn, Stop, OutcomeInv, DoneMeansPrepared, RefusedForACause,
       Unrestorable
<1>5. OnlyACutLeavesHalfAPatch'
  BY <1>0, Versions DEF RemoveCopies, OnlyACutLeavesHalfAPatch, HalfPatched, OwnedInv, SetupTypeOK
<1>6. PatchedInv'
  BY DEF RemoveCopies, PatchedInv
<1> QED
  BY <1>1, <1>2, <1>3, <1>4, <1>5, <1>6

LEMMA FetchKeeps ==
  ASSUME SetupInv, Fetch
  PROVE  SetupInv'
<1> USE DEF SetupInv
<1>1. SetupTypeOK'
  BY DEF Fetch, GoOn, Stop, SetupTypeOK
<1>2. ProgressInv'
  BY DEF Fetch, GoOn, Stop, ProgressInv, AfterCheckout, AfterModules
<1>3. OwnedInv'
  BY DEF Fetch, GoOn, Stop, OwnedInv
<1>4. OutcomeInv'
  BY DEF Fetch, GoOn, Stop, OutcomeInv, DoneMeansPrepared, RefusedForACause
<1>5. OnlyACutLeavesHalfAPatch'
  BY DEF Fetch, OnlyACutLeavesHalfAPatch, HalfPatched
<1>6. PatchedInv'
  BY DEF Fetch, PatchedInv
<1> QED
  BY <1>1, <1>2, <1>3, <1>4, <1>5, <1>6

LEMMA CheckoutKeeps ==
  ASSUME SetupInv, Checkout
  PROVE  SetupInv'
<1> USE DEF SetupInv
<1>1. SetupTypeOK'
  <2>1. \A f \in OwnedFiles : OwnedOf(pin, f) \in [of : Commits \cup {NoCommit},
                                             is : {"absent", "pristine", "patched", "edited"}]
    BY Versions DEF OwnedOf, SetupTypeOK
  <2> QED
    BY <2>1 DEF Checkout, GoOn, Stop, SetupTypeOK
<1>2. ProgressInv'
  BY DEF Checkout, GoOn, Stop, ProgressInv, AfterCheckout, AfterModules
<1>3. OwnedInv'
  BY DEF Checkout, GoOn, Stop, OwnedInv
<1>4. OutcomeInv'
  BY DEF Checkout, GoOn, Stop, OutcomeInv, DoneMeansPrepared, RefusedForACause
<1>5. OnlyACutLeavesHalfAPatch' /\ PatchedInv'
  <2>1. \A f \in OwnedFiles : owned[f].is \in {"absent", "pristine"}
    BY DEF Checkout, OwnedInv
  <2>2. \A f \in OwnedFiles : OwnedOf(pin, f).is # "patched"
    BY DEF OwnedOf, Version
  <2>3. \A f \in OwnedFiles : owned'[f].is # "patched"
    BY <2>1, <2>2 DEF Checkout
  <2> QED
    BY <2>3 DEF OnlyACutLeavesHalfAPatch, HalfPatched, PatchedInv
<1> QED
  BY <1>1, <1>2, <1>3, <1>4, <1>5

LEMMA UpdateSubmodulesKeeps ==
  ASSUME SetupInv, UpdateSubmodules
  PROVE  SetupInv'
<1> USE DEF SetupInv
<1>1. SetupTypeOK'
  BY DEF UpdateSubmodules, GoOn, Stop, SetupTypeOK
<1>2. ProgressInv'
  BY DEF UpdateSubmodules, GoOn, Stop, ProgressInv, AfterCheckout, AfterModules
<1>3. OwnedInv'
  BY DEF UpdateSubmodules, GoOn, Stop, OwnedInv
<1>4. OutcomeInv'
  BY DEF UpdateSubmodules, GoOn, Stop, OutcomeInv, DoneMeansPrepared, RefusedForACause
<1>5. OnlyACutLeavesHalfAPatch'
  BY DEF UpdateSubmodules, OnlyACutLeavesHalfAPatch, HalfPatched
<1>6. PatchedInv'
  BY DEF UpdateSubmodules, PatchedInv
<1> QED
  BY <1>1, <1>2, <1>3, <1>4, <1>5, <1>6

LEMMA VerifyProfileKeeps ==
  ASSUME SetupInv, VerifyProfile
  PROVE  SetupInv'
<1> USE DEF SetupInv
<1>1. SetupTypeOK'
  BY DEF VerifyProfile, GoOn, Stop, SetupTypeOK
<1>2. ProgressInv'
  BY DEF VerifyProfile, GoOn, Stop, ProgressInv, AfterCheckout, AfterModules
<1>3. OwnedInv'
  BY DEF VerifyProfile, GoOn, Stop, OwnedInv
<1>4. OutcomeInv'
  BY DEF VerifyProfile, GoOn, Stop, OutcomeInv, DoneMeansPrepared, RefusedForACause, ProgressInv,
     AfterCheckout, AfterModules
<1>5. OnlyACutLeavesHalfAPatch'
  BY DEF VerifyProfile, OnlyACutLeavesHalfAPatch, HalfPatched
<1>6. PatchedInv'
  BY DEF VerifyProfile, PatchedInv
<1> QED
  BY <1>1, <1>2, <1>3, <1>4, <1>5, <1>6

LEMMA PatchBeginsKeeps ==
  ASSUME SetupInv, PatchBegins
  PROVE  SetupInv'
<1> USE DEF SetupInv
<1>1. SetupTypeOK'
  BY DEF PatchBegins, Stop, SetupTypeOK
<1>2. ProgressInv'
  BY DEF PatchBegins, Stop, AnchorsFound, ProgressInv, AfterCheckout, AfterModules
<1>3. OwnedInv'
  BY DEF PatchBegins, Stop, OwnedInv
<1>4. OutcomeInv'
  <2>1. /\ head = pin /\ tree = "clean" /\ ~foreign /\ modules = pin
        /\ \A f \in OwnedFiles : owned[f] = OwnedOf(pin, f)
    BY DEF PatchBegins, ProgressInv, OwnedInv, AfterCheckout, AfterModules
  <2>2. pin \in Supported => \A f \in OwnedFiles : owned[f] = Version(head, "pristine")
    BY <2>1, CheckoutAssumption DEF OwnedOf
  <2>3. pin \notin Supported \/ stage' = "patching"
    BY <2>1, <2>2 DEF PatchBegins, UnexpectedChanges, AnchorsFound
  <2> QED
    BY <2>3 DEF PatchBegins, Stop, OutcomeInv, DoneMeansPrepared, RefusedForACause
<1>5. OnlyACutLeavesHalfAPatch'
  BY DEF PatchBegins, AnchorsFound, OnlyACutLeavesHalfAPatch, HalfPatched
<1>6. PatchedInv'
  BY DEF PatchBegins, PatchedInv
<1> QED
  BY <1>1, <1>2, <1>3, <1>4, <1>5, <1>6

LEMMA PatchFileKeeps ==
  ASSUME SetupInv, NEW f \in OwnedFiles, PatchFile(f)
  PROVE  SetupInv'
<1> USE DEF SetupInv
<1>1. SetupTypeOK'
  BY Versions DEF PatchFile, SetupTypeOK
<1>2. ProgressInv'
  BY DEF PatchFile, ProgressInv
<1>3. OwnedInv'
  BY DEF PatchFile, OwnedInv, SetupTypeOK, ProgressInv, AfterCheckout, AfterModules
<1>4. OutcomeInv'
  BY DEF PatchFile, OutcomeInv, DoneMeansPrepared, RefusedForACause
<1>5. OnlyACutLeavesHalfAPatch'
  BY DEF PatchFile, OnlyACutLeavesHalfAPatch
<1>6. PatchedInv'
  BY DEF PatchFile, PatchedInv, ProgressInv, AfterCheckout, AfterModules
<1> QED
  BY <1>1, <1>2, <1>3, <1>4, <1>5, <1>6

LEMMA PatchEndsKeeps ==
  ASSUME SetupInv, PatchEnds
  PROVE  SetupInv'
<1> USE DEF SetupInv
<1>1. SetupTypeOK'
  BY DEF PatchEnds, GoOn, SetupTypeOK
<1>2. ProgressInv'
  BY DEF PatchEnds, GoOn, ProgressInv, AfterCheckout, AfterModules
<1>3. OwnedInv'
  BY DEF PatchEnds, GoOn, OwnedInv
<1>4. OutcomeInv'
  BY DEF PatchEnds, GoOn, OutcomeInv, DoneMeansPrepared, RefusedForACause
<1>5. OnlyACutLeavesHalfAPatch'
  BY DEF PatchEnds, OnlyACutLeavesHalfAPatch, HalfPatched, OwnedInv
<1>6. PatchedInv'
  BY DEF PatchEnds, PatchedInv
<1> QED
  BY <1>1, <1>2, <1>3, <1>4, <1>5, <1>6

LEMMA CopyKeeps ==
  ASSUME SetupInv, Copy
  PROVE  SetupInv'
<1> USE DEF SetupInv
<1>1. SetupTypeOK'
  BY DEF Copy, GoOn, Copied, SetupTypeOK
<1>2. ProgressInv'
  BY DEF Copy, GoOn, ProgressInv, AfterCheckout, AfterModules
<1>3. OwnedInv'
  BY DEF Copy, GoOn, OwnedInv
<1>4. OutcomeInv'
  BY DEF Copy, GoOn, OutcomeInv, DoneMeansPrepared, RefusedForACause
<1>5. OnlyACutLeavesHalfAPatch'
  BY DEF Copy, OnlyACutLeavesHalfAPatch, HalfPatched
<1>6. PatchedInv'
  BY DEF Copy, PatchedInv
<1> QED
  BY <1>1, <1>2, <1>3, <1>4, <1>5, <1>6

LEMMA SyncKeeps ==
  ASSUME SetupInv, Sync
  PROVE  SetupInv'
<1> USE DEF SetupInv
<1>1. SetupTypeOK'
  BY DEF Sync, GoOn, Stop, SetupTypeOK
<1>2. ProgressInv'
  BY DEF Sync, GoOn, Stop, ProgressInv, AfterCheckout, AfterModules
<1>3. OwnedInv'
  BY DEF Sync, GoOn, Stop, OwnedInv
<1>4. OutcomeInv'
  BY DEF Sync, GoOn, Stop, OutcomeInv, DoneMeansPrepared, RefusedForACause
<1>5. OnlyACutLeavesHalfAPatch'
  BY DEF Sync, OnlyACutLeavesHalfAPatch, HalfPatched
<1>6. PatchedInv'
  BY DEF Sync, PatchedInv
<1> QED
  BY <1>1, <1>2, <1>3, <1>4, <1>5, <1>6

LEMMA InspectKeeps ==
  ASSUME SetupInv, Inspect
  PROVE  SetupInv'
<1> USE DEF SetupInv
<1>1. SetupTypeOK'
  BY DEF Inspect, Stop, SetupTypeOK
<1>2. ProgressInv'
  BY DEF Inspect, Stop, Accepted, ProgressInv, AfterCheckout, AfterModules
<1>3. OwnedInv'
  BY DEF Inspect, Stop, OwnedInv, AfterCheckout, AfterModules
<1>4. OutcomeInv'
  <2>1. /\ pin \in Commits /\ head = pin /\ tree = "clean" /\ ~foreign /\ modules = pin
        /\ copies = Copied /\ venv = pin /\ owned = AllOwned(Version(pin, "patched"))
    BY DEF Inspect, ProgressInv, OwnedInv, AfterCheckout, AfterModules, SetupTypeOK, AllOwned
  <2>2. Accepted(pin)
    BY <2>1, CheckoutAssumption DEF Accepted, UnexpectedChanges
  <2> QED
    BY <2>1, <2>2 DEF Inspect, Stop, OutcomeInv, DoneMeansPrepared, RefusedForACause
<1>5. OnlyACutLeavesHalfAPatch'
  BY DEF Inspect, OnlyACutLeavesHalfAPatch, HalfPatched, OwnedInv
<1>6. PatchedInv'
  BY DEF Inspect, PatchedInv
<1> QED
  BY <1>1, <1>2, <1>3, <1>4, <1>5, <1>6

LEMMA CutShortKeeps ==
  ASSUME SetupInv, CutShort
  PROVE  SetupInv'
<1> USE DEF SetupInv
<1>1. SetupTypeOK'
  BY DEF CutShort, Stop, SetupTypeOK
<1>2. ProgressInv'
  BY DEF CutShort, Stop, ProgressInv, AfterCheckout, AfterModules
<1>3. OwnedInv'
  BY DEF CutShort, Stop, OwnedInv, ProgressInv
<1>4. OutcomeInv'
  BY DEF CutShort, Stop, OutcomeInv, DoneMeansPrepared, RefusedForACause
<1>5. OnlyACutLeavesHalfAPatch'
  BY DEF CutShort, OnlyACutLeavesHalfAPatch
<1>6. PatchedInv'
  BY DEF CutShort, PatchedInv, SetupTypeOK
<1> QED
  BY <1>1, <1>2, <1>3, <1>4, <1>5, <1>6

LEMMA UserEditsKeeps ==
  ASSUME SetupInv, UserEdits
  PROVE  SetupInv'
<1> USE DEF SetupInv
<1>1. SetupTypeOK'
  BY DEF UserEdits, SetupTypeOK
<1>2. ProgressInv'
  BY DEF UserEdits, ProgressInv
<1>3. OwnedInv'
  BY DEF UserEdits, OwnedInv
<1>4. OutcomeInv'
  BY DEF UserEdits, OutcomeInv, DoneMeansPrepared, RefusedForACause
<1>5. OnlyACutLeavesHalfAPatch'
  BY DEF UserEdits, OnlyACutLeavesHalfAPatch, HalfPatched, SetupTypeOK
<1>6. PatchedInv'
  BY DEF UserEdits, PatchedInv, SetupTypeOK
<1> QED
  BY <1>1, <1>2, <1>3, <1>4, <1>5, <1>6

LEMMA CampaignRunsKeeps ==
  ASSUME SetupInv, CampaignRuns
  PROVE  SetupInv'
BY DEF CampaignRuns, SetupInv, SetupTypeOK, ProgressInv, OwnedInv, PatchedInv, OutcomeInv,
   DoneMeansPrepared, RefusedForACause, OnlyACutLeavesHalfAPatch, HalfPatched

-----------------------------------------------------------------------------
LEMMA SetupStepKeeps ==
  ASSUME SetupInv, [SetupNext]_setupVars
  PROVE  SetupInv'
<1>1. CASE \E c \in Commits : RunSetup(c)
  BY <1>1, RunSetupKeeps
<1>2. CASE SetupStep
  <2>1. CASE \E f \in OwnedFiles : RestoreFile(f) \/ PatchFile(f)
    BY <2>1, RestoreFileKeeps, PatchFileKeeps
  <2> QED
    BY <1>2, <2>1, CloneKeeps, RestoreBeginsKeeps, RemoveCopiesKeeps, FetchKeeps, CheckoutKeeps,
       UpdateSubmodulesKeeps, VerifyProfileKeeps, PatchBeginsKeeps, PatchEndsKeeps, CopyKeeps,
       SyncKeeps, InspectKeeps DEF SetupStep
<1>3. CASE CutShort
  BY <1>3, CutShortKeeps
<1>4. CASE UserEdits
  BY <1>4, UserEditsKeeps
<1>5. CASE CampaignRuns
  BY <1>5, CampaignRunsKeeps
<1>6. CASE UNCHANGED setupVars
  BY <1>6 DEF setupVars, SetupInv, SetupTypeOK, ProgressInv, OwnedInv, PatchedInv, OutcomeInv,
     DoneMeansPrepared, RefusedForACause, OnlyACutLeavesHalfAPatch, HalfPatched
<1> QED
  BY <1>1, <1>2, <1>3, <1>4, <1>5, <1>6 DEF SetupNext

\* Of a checkout that setup.sh was run on any number of times, and of the run
\* in progress, SetupInv tells all that the properties need.
THEOREM SetupInvariance == SetupSpec => []SetupInv
<1>1. SetupInit => SetupInv
  BY SetupInitially
<1>2. SetupInv /\ [SetupNext]_setupVars => SetupInv'
  BY SetupStepKeeps
<1> QED
  BY <1>1, <1>2, PTL DEF SetupSpec

\* Every variable of the checkout keeps its type.
THEOREM SetupTypeCorrectness == SetupSpec => []SetupTypeOK
<1>1. SetupInv => SetupTypeOK
  BY DEF SetupInv
<1> QED
  BY <1>1, SetupInvariance, PTL

\* A run of setup.sh that says "Done." leaves a checkout that is wholly
\* prepared for its profile, whatever earlier runs left half done.
THEOREM DoneIsPrepared == SetupSpec => []DoneMeansPrepared
<1>1. SetupInv => DoneMeansPrepared
  BY DEF SetupInv, OutcomeInv
<1> QED
  BY <1>1, SetupInvariance, PTL

\* The owned files are patched all or none, unless a run was cut short since
\* the last one that was completed, or one is at them now.
THEOREM PatchIsWhole == SetupSpec => []OnlyACutLeavesHalfAPatch
<1>1. SetupInv => OnlyACutLeavesHalfAPatch
  BY DEF SetupInv
<1> QED
  BY <1>1, SetupInvariance, PTL

\* What setup.sh refuses a checkout for: what the user or git did to it, the
\* bytecode of campaigns, or the commit that an earlier refused run left it
\* at; never for the owned files or the copies that earlier runs left behind.
THEOREM RefusalHasACause == SetupSpec => []RefusedForACause
<1>1. SetupInv => RefusedForACause
  BY DEF SetupInv, OutcomeInv
<1> QED
  BY <1>1, SetupInvariance, PTL

-----------------------------------------------------------------------------
(* ValidationRun.                                                          *)

\* Where the script is, the cleanup of a trap or of a run's end aside.
Place == IF at \in {"curl", "wait"} THEN back ELSE at

\* A relay that runs is the current run's, and the script waits for its end
\* before it goes on, unless it is about to learn its process.
RelaysInv ==
  /\ relay_pid \in {0, run} /\ (at = "next" => relay_pid = 0)
  /\ \A r \in Runs : r > run => relay[r] = "none"
  /\ Place = "launch" => relay[run] = "none"
  /\ \A r \in Runs : Running(r) => r = run /\ (relay_pid = run \/ Place = "assign")
  /\ at = "next" \/ Place = "over" => \A r \in Runs : ~Running(r)
  /\ Place = "over" => run = RUNS

AllPassed(r) ==
  /\ Len(records[r]) = ManifestTasks
  /\ \A i \in DOMAIN records[r] : records[r][i] = "PATH_PASS"

\* The harness runs once in a run, while the script waits for it; it ends
\* without an exception only after the manifest's last task.
HarnessInv ==
  /\ Place # "harness" \/ at \in {"curl", "wait"} => harness \in {"none", "exited"}
  /\ Place = "harness" => harness # "none"
  /\ Place \in {"launch", "assign", "poll"} => records[run] = <<>>
  /\ \A r \in Runs : r > run => records[r] = <<>>
  /\ Len(records[run]) <= ManifestTasks
  /\ harness \in InTask \cup {"append"} => Len(records[run]) < ManifestTasks
  /\ Place = "harness" /\ harness \in {"close", "exited"} /\ ~failing =>
       Len(records[run]) = ManifestTasks

\* As long as the script would exit with 0, the runs it has left behind passed.
OverallInv ==
  overall = 0 =>
    /\ \A r \in Runs : r < run => AllPassed(r)
    /\ Place \in {"next", "over"} => AllPassed(run)

ValidationInv == ValidationTypeOK /\ RelaysInv /\ HarnessInv /\ OverallInv

-----------------------------------------------------------------------------
LEMMA ValidationInitially == ValidationInit => ValidationInv
<1> SUFFICES ASSUME ValidationInit PROVE ValidationInv
  OBVIOUS
<1> USE ValidationAssumption DEF ValidationInit, Runs, Relays, Leftover
<1>1. ValidationTypeOK
  <2>1. /\ run \in Runs /\ relay_pid \in 0..RUNS /\ overall \in 0..1
        /\ signals \in 0..MaxSignals
        /\ relay \in [Relays -> {"none", "booting", "listening", "stopping", "dead"}]
    OBVIOUS
  <2>2. record \in RecordType
    BY DEF NoRecord, RecordType
  <2>3. records \in [Runs -> Seq(RecordType)]
    OBVIOUS
  <2> QED
    BY <2>1, <2>2, <2>3 DEF ValidationTypeOK
<1>2. RelaysInv /\ HarnessInv /\ OverallInv
  BY DEF RelaysInv, HarnessInv, OverallInv, Place, Running, InTask
<1> QED
  BY <1>1, <1>2 DEF ValidationInv

LEMMA LaunchRelayKeeps ==
  ASSUME ValidationInv, LaunchRelay
  PROVE  ValidationInv'
<1> USE ValidationAssumption DEF ValidationInv, Runs, Relays, Leftover
<1>1. ValidationTypeOK'
  BY DEF LaunchRelay, harnessVars, ValidationTypeOK
<1>2. RelaysInv'
  BY DEF LaunchRelay, RelaysInv, Place, Running
<1>3. HarnessInv'
  BY DEF LaunchRelay, harnessVars, HarnessInv, Place
<1>4. OverallInv'
  BY DEF LaunchRelay, harnessVars, OverallInv, AllPassed, Place
<1> QED
  BY <1>1, <1>2, <1>3, <1>4

LEMMA AssignPidKeeps ==
  ASSUME ValidationInv, AssignPid
  PROVE  ValidationInv'
<1> USE ValidationAssumption DEF ValidationInv, Runs, Relays, Leftover
<1>1. ValidationTypeOK'
  BY DEF AssignPid, harnessVars, ValidationTypeOK
<1>2. RelaysInv'
  BY DEF AssignPid, RelaysInv, Place, Running
<1>3. HarnessInv'
  BY DEF AssignPid, harnessVars, HarnessInv, Place
<1>4. OverallInv'
  BY DEF AssignPid, harnessVars, OverallInv, AllPassed, Place
<1> QED
  BY <1>1, <1>2, <1>3, <1>4

LEMMA HealthAnswersKeeps ==
  ASSUME ValidationInv, HealthAnswers
  PROVE  ValidationInv'
<1> USE ValidationAssumption DEF ValidationInv, Runs, Relays, Leftover
<1>1. ValidationTypeOK'
  BY DEF HealthAnswers, NoRecord, ValidationTypeOK, RecordType
<1>2. RelaysInv'
  BY DEF HealthAnswers, RelaysInv, Place, Running
<1>3. HarnessInv'
  BY DEF HealthAnswers, HarnessInv, Place, InTask
<1>4. OverallInv'
  BY DEF HealthAnswers, OverallInv, AllPassed, Place
<1> QED
  BY <1>1, <1>2, <1>3, <1>4

LEMMA GiveUpPollingKeeps ==
  ASSUME ValidationInv, GiveUpPolling
  PROVE  ValidationInv'
<1> USE ValidationAssumption DEF ValidationInv, Runs, Relays, Leftover
<1>1. ValidationTypeOK'
  BY DEF GiveUpPolling, CleanUp, harnessVars, ValidationTypeOK
<1>2. RelaysInv'
  BY DEF GiveUpPolling, CleanUp, RelaysInv, Place, Running
<1>3. HarnessInv'
  BY DEF GiveUpPolling, CleanUp, harnessVars, HarnessInv, Place
<1>4. OverallInv'
  BY DEF GiveUpPolling, harnessVars, OverallInv, HarnessInv, AllPassed, ValidationTypeOK, Place,
     InTask
<1> QED
  BY <1>1, <1>2, <1>3, <1>4

LEMMA HarnessEndsKeeps ==
  ASSUME ValidationInv, NEW status \in 0..1, HarnessEnds(status)
  PROVE  ValidationInv'
<1> USE ValidationAssumption DEF ValidationInv, Runs, Relays, Leftover
<1>1. ValidationTypeOK'
  BY DEF HarnessEnds, CleanUp, harnessVars, ValidationTypeOK
<1>2. RelaysInv'
  BY DEF HarnessEnds, CleanUp, RelaysInv, Place, Running
<1>3. HarnessInv'
  BY DEF HarnessEnds, CleanUp, harnessVars, HarnessInv, Place
<1>4. OverallInv'
  BY DEF HarnessEnds, harnessVars, OverallInv, HarnessInv, AllPassed, Place
<1> QED
  BY <1>1, <1>2, <1>3, <1>4

LEMMA CurlStopKeeps ==
  ASSUME ValidationInv, CurlStop
  PROVE  ValidationInv'
<1> USE ValidationAssumption DEF ValidationInv, Runs, Relays, Leftover
<1>1. ValidationTypeOK'
  BY DEF CurlStop, harnessVars, ValidationTypeOK
<1>2. RelaysInv'
  BY DEF CurlStop, RelaysInv, ValidationTypeOK, Place, Running
<1>3. HarnessInv'
  BY DEF CurlStop, harnessVars, HarnessInv, Place
<1>4. OverallInv'
  BY DEF CurlStop, harnessVars, OverallInv, AllPassed, Place
<1> QED
  BY <1>1, <1>2, <1>3, <1>4

LEMMA WaitForRelayKeeps ==
  ASSUME ValidationInv, WaitForRelay
  PROVE  ValidationInv'
<1> USE ValidationAssumption DEF ValidationInv, Runs, Relays, Leftover
<1>1. ValidationTypeOK'
  BY DEF WaitForRelay, harnessVars, ValidationTypeOK
<1>2. RelaysInv'
  BY DEF WaitForRelay, Running, RelaysInv, Place
<1>3. HarnessInv'
  BY DEF WaitForRelay, harnessVars, HarnessInv, Place
<1>4. OverallInv'
  BY DEF WaitForRelay, harnessVars, OverallInv, AllPassed, Place
<1> QED
  BY <1>1, <1>2, <1>3, <1>4

LEMMA NextRunKeeps ==
  ASSUME ValidationInv, NextRun
  PROVE  ValidationInv'
<1> USE ValidationAssumption DEF ValidationInv, Runs, Relays, Leftover
<1>1. ValidationTypeOK'
  BY DEF NextRun, CleanUp, harnessVars, ValidationTypeOK
<1>2. RelaysInv'
  BY DEF NextRun, CleanUp, RelaysInv, ValidationTypeOK, Place, Running
<1>3. HarnessInv'
  <2>1. CASE run < RUNS
    <3>1. run' \in Runs /\ run' = run + 1 /\ records[run'] = <<>>
      BY <2>1 DEF NextRun, HarnessInv, ValidationTypeOK
    <3> QED
      BY <3>1 DEF NextRun, harnessVars, HarnessInv, ValidationTypeOK, Place
  <2>2. CASE ~(run < RUNS)
    BY <2>2 DEF NextRun, CleanUp, harnessVars, HarnessInv, Place
  <2> QED
    BY <2>1, <2>2
<1>4. OverallInv'
  <2>1. /\ overall' = overall /\ records' = records /\ Place = "next"
        /\ \A r \in Runs : r < run' => r < run \/ r = run
        /\ Place' \in {"next", "over"} => run' = run
    BY DEF NextRun, harnessVars, Place, ValidationTypeOK
  <2> QED
    BY <2>1 DEF OverallInv, AllPassed
<1> QED
  BY <1>1, <1>2, <1>3, <1>4

LEMMA TrapKeeps ==
  ASSUME ValidationInv, Trap
  PROVE  ValidationInv'
<1> USE ValidationAssumption DEF ValidationInv, Runs, Relays, Leftover
<1>1. ValidationTypeOK'
  BY DEF Trap, CleanUp, harnessVars, ValidationTypeOK
<1>2. RelaysInv'
  BY DEF Trap, CleanUp, RelaysInv, Place, Running
<1>3. HarnessInv'
  BY DEF Trap, CleanUp, harnessVars, HarnessInv, Place
<1>4. OverallInv'
  BY DEF Trap, CleanUp, harnessVars, OverallInv, AllPassed, Place
<1> QED
  BY <1>1, <1>2, <1>3, <1>4

LEMMA LoadTasksKeeps ==
  ASSUME ValidationInv, LoadTasks
  PROVE  ValidationInv'
<1> USE ValidationAssumption DEF ValidationInv, Runs, Relays, Leftover
<1>1. ValidationTypeOK'
  BY DEF LoadTasks, scriptVars, ValidationTypeOK
<1>2. RelaysInv'
  BY DEF LoadTasks, scriptVars, RelaysInv, Place, Running
<1>3. HarnessInv'
  BY DEF LoadTasks, scriptVars, HarnessInv, Place, InTask
<1>4. OverallInv'
  BY DEF LoadTasks, scriptVars, OverallInv, AllPassed, Place
<1> QED
  BY <1>1, <1>2, <1>3, <1>4

LEMMA OpenEnvironmentKeeps ==
  ASSUME ValidationInv, OpenEnvironment
  PROVE  ValidationInv'
<1> USE ValidationAssumption DEF ValidationInv, Runs, Relays, Leftover
<1>1. ValidationTypeOK'
  BY DEF OpenEnvironment, scriptVars, ValidationTypeOK
<1>2. RelaysInv'
  BY DEF OpenEnvironment, scriptVars, RelaysInv, Place, Running
<1>3. HarnessInv'
  BY DEF OpenEnvironment, scriptVars, HarnessInv, Place, InTask
<1>4. OverallInv'
  BY DEF OpenEnvironment, scriptVars, OverallInv, AllPassed, Place
<1> QED
  BY <1>1, <1>2, <1>3, <1>4

LEMMA NextTaskKeeps ==
  ASSUME ValidationInv, NextTask
  PROVE  ValidationInv'
<1> USE ValidationAssumption DEF ValidationInv, Runs, Relays, Leftover
<1>1. ValidationTypeOK'
  <2>1. record' \in RecordType
    <3>1. NoRecord \in RecordType
      BY DEF NoRecord, RecordType
    <3> QED
      BY <3>1 DEF NextTask, ValidationTypeOK
  <2> QED
    BY <2>1 DEF NextTask, scriptVars, ValidationTypeOK, InTask
<1>2. RelaysInv'
  BY DEF NextTask, scriptVars, RelaysInv, Place, Running
<1>3. HarnessInv'
  BY DEF NextTask, scriptVars, HarnessInv, ValidationTypeOK, Place, InTask
<1>4. OverallInv'
  BY DEF NextTask, scriptVars, OverallInv, AllPassed, Place
<1> QED
  BY <1>1, <1>2, <1>3, <1>4

LEMMA ResetKeeps ==
  ASSUME ValidationInv, Reset
  PROVE  ValidationInv'
<1> USE ValidationAssumption DEF ValidationInv, Runs, Relays, Leftover
<1>1. ValidationTypeOK'
  BY DEF Reset, scriptVars, ValidationTypeOK, RecordType, InTask
<1>2. RelaysInv'
  BY DEF Reset, scriptVars, RelaysInv, Place, Running
<1>3. HarnessInv'
  BY DEF Reset, scriptVars, HarnessInv, Place, InTask
<1>4. OverallInv'
  BY DEF Reset, scriptVars, OverallInv, AllPassed, Place
<1> QED
  BY <1>1, <1>2, <1>3, <1>4

LEMMA RecordSandboxKeeps ==
  ASSUME ValidationInv, RecordSandbox
  PROVE  ValidationInv'
<1> USE ValidationAssumption DEF ValidationInv, Runs, Relays, Leftover
<1>1. ValidationTypeOK'
  BY DEF RecordSandbox, scriptVars, ValidationTypeOK, RecordType, InTask
<1>2. RelaysInv'
  BY DEF RecordSandbox, scriptVars, RelaysInv, Place, Running
<1>3. HarnessInv'
  BY DEF RecordSandbox, scriptVars, HarnessInv, Place, InTask
<1>4. OverallInv'
  BY DEF RecordSandbox, scriptVars, OverallInv, AllPassed, Place
<1> QED
  BY <1>1, <1>2, <1>3, <1>4

LEMMA ObserveKeeps ==
  ASSUME ValidationInv, Observe
  PROVE  ValidationInv'
<1> USE ValidationAssumption DEF ValidationInv, Runs, Relays, Leftover
<1>1. ValidationTypeOK'
  BY DEF Observe, scriptVars, ValidationTypeOK, InTask
<1>2. RelaysInv'
  BY DEF Observe, scriptVars, RelaysInv, Place, Running
<1>3. HarnessInv'
  BY DEF Observe, scriptVars, HarnessInv, Place, InTask
<1>4. OverallInv'
  BY DEF Observe, scriptVars, OverallInv, AllPassed, Place
<1> QED
  BY <1>1, <1>2, <1>3, <1>4

LEMMA EvaluateKeeps ==
  ASSUME ValidationInv, Evaluate
  PROVE  ValidationInv'
<1> USE ValidationAssumption DEF ValidationInv, Runs, Relays, Leftover
<1>1. ValidationTypeOK'
  BY DEF Evaluate, scriptVars, ValidationTypeOK, RecordType
<1>2. RelaysInv'
  BY DEF Evaluate, scriptVars, RelaysInv, Place, Running
<1>3. HarnessInv'
  BY DEF Evaluate, scriptVars, HarnessInv, Place, InTask
<1>4. OverallInv'
  BY DEF Evaluate, scriptVars, OverallInv, AllPassed, Place
<1> QED
  BY <1>1, <1>2, <1>3, <1>4

LEMMA TaskFailsKeeps ==
  ASSUME ValidationInv, TaskFails
  PROVE  ValidationInv'
<1> USE ValidationAssumption DEF ValidationInv, Runs, Relays, Leftover
<1>1. ValidationTypeOK'
  BY DEF TaskFails, scriptVars, ValidationTypeOK, RecordType
<1>2. RelaysInv'
  BY DEF TaskFails, InTask, scriptVars, RelaysInv, Place, Running
<1>3. HarnessInv'
  BY DEF TaskFails, InTask, scriptVars, HarnessInv, ValidationTypeOK, Place
<1>4. OverallInv'
  BY DEF TaskFails, scriptVars, OverallInv, AllPassed, Place
<1> QED
  BY <1>1, <1>2, <1>3, <1>4

LEMMA AppendRecordKeeps ==
  ASSUME ValidationInv, AppendRecord
  PROVE  ValidationInv'
<1> USE ValidationAssumption DEF ValidationInv, Runs, Relays, Leftover
<1>1. ValidationTypeOK'
  BY DEF AppendRecord, scriptVars, ValidationTypeOK
<1>2. RelaysInv'
  BY DEF AppendRecord, scriptVars, RelaysInv, Place, Running
<1>3. HarnessInv'
  <2>1. /\ run \in Runs /\ Place' = Place /\ Place = "harness"
        /\ Len(records[run]) \in Nat /\ Len(records[run]) < ManifestTasks
        /\ Len(records'[run]) = Len(records[run]) + 1
        /\ \A r \in Runs : r # run => records'[r] = records[r]
    BY DEF AppendRecord, scriptVars, HarnessInv, ValidationTypeOK, Place
  <2>2. at' = at /\ run' = run /\ harness' = "tasks"
    BY DEF AppendRecord, scriptVars
  <2>3. at \notin {"curl", "wait"}
    BY DEF AppendRecord, HarnessInv
  <2> QED
    BY <2>1, <2>2, <2>3 DEF HarnessInv, InTask
<1>4. OverallInv'
  BY DEF AppendRecord, scriptVars, OverallInv, HarnessInv, AllPassed, Place
<1> QED
  BY <1>1, <1>2, <1>3, <1>4

LEMMA AbortsKeeps ==
  ASSUME ValidationInv, Aborts
  PROVE  ValidationInv'
<1> USE ValidationAssumption DEF ValidationInv, Runs, Relays, Leftover
<1>1. ValidationTypeOK'
  BY DEF Aborts, scriptVars, ValidationTypeOK
<1>2. RelaysInv'
  BY DEF Aborts, scriptVars, RelaysInv, Place, Running
<1>3. HarnessInv'
  BY DEF Aborts, scriptVars, HarnessInv, Place, InTask
<1>4. OverallInv'
  BY DEF Aborts, scriptVars, OverallInv, AllPassed, Place
<1> QED
  BY <1>1, <1>2, <1>3, <1>4

LEMMA CloseEnvironmentKeeps ==
  ASSUME ValidationInv, CloseEnvironment
  PROVE  ValidationInv'
<1> USE ValidationAssumption DEF ValidationInv, Runs, Relays, Leftover
<1>1. ValidationTypeOK'
  BY DEF CloseEnvironment, scriptVars, ValidationTypeOK
<1>2. RelaysInv'
  BY DEF CloseEnvironment, scriptVars, RelaysInv, Place, Running
<1>3. HarnessInv'
  BY DEF CloseEnvironment, scriptVars, HarnessInv, Place, InTask
<1>4. OverallInv'
  BY DEF CloseEnvironment, scriptVars, OverallInv, AllPassed, Place
<1> QED
  BY <1>1, <1>2, <1>3, <1>4

LEMMA HarnessIsKilledKeeps ==
  ASSUME ValidationInv, HarnessIsKilled
  PROVE  ValidationInv'
<1> USE ValidationAssumption DEF ValidationInv, Runs, Relays, Leftover
<1>1. ValidationTypeOK'
  BY DEF HarnessIsKilled, scriptVars, ValidationTypeOK
<1>2. RelaysInv'
  BY DEF HarnessIsKilled, scriptVars, RelaysInv, Place, Running
<1>3. HarnessInv'
  BY DEF HarnessIsKilled, scriptVars, HarnessInv, Place, InTask
<1>4. OverallInv'
  BY DEF HarnessIsKilled, scriptVars, OverallInv, AllPassed, Place
<1> QED
  BY <1>1, <1>2, <1>3, <1>4

LEMMA RelayBindsKeeps ==
  ASSUME ValidationInv, NEW r \in Relays, RelayBinds(r)
  PROVE  ValidationInv'
<1> USE ValidationAssumption DEF ValidationInv, Runs, Relays, Leftover
<1>1. ValidationTypeOK'
  BY DEF RelayBinds, scriptVars, harnessVars, ValidationTypeOK
<1>2. RelaysInv'
  BY DEF RelayBinds, scriptVars, RelaysInv, Place, Running
<1>3. HarnessInv'
  BY DEF RelayBinds, scriptVars, harnessVars, HarnessInv, Place
<1>4. OverallInv'
  BY DEF RelayBinds, scriptVars, harnessVars, OverallInv, AllPassed, Place
<1> QED
  BY <1>1, <1>2, <1>3, <1>4

LEMMA RelayEndsKeeps ==
  ASSUME ValidationInv, NEW r \in Relays, RelayEnds(r)
  PROVE  ValidationInv'
<1> USE ValidationAssumption DEF ValidationInv, Runs, Relays, Leftover
<1>1. ValidationTypeOK'
  BY DEF RelayEnds, scriptVars, harnessVars, ValidationTypeOK
<1>2. RelaysInv'
  BY DEF RelayEnds, Running, scriptVars, RelaysInv, Place
<1>3. HarnessInv'
  BY DEF RelayEnds, scriptVars, harnessVars, HarnessInv, Place
<1>4. OverallInv'
  BY DEF RelayEnds, scriptVars, harnessVars, OverallInv, AllPassed, Place
<1> QED
  BY <1>1, <1>2, <1>3, <1>4

-----------------------------------------------------------------------------
LEMMA ValidationStepKeeps ==
  ASSUME ValidationInv, [ValidationNext]_validationVars
  PROVE  ValidationInv'
<1>1. CASE Script
  BY <1>1, LaunchRelayKeeps, AssignPidKeeps, HealthAnswersKeeps, GiveUpPollingKeeps,
     HarnessEndsKeeps, CurlStopKeeps, WaitForRelayKeeps, NextRunKeeps, TrapKeeps DEF Script
<1>2. CASE Harness
  BY <1>2, LoadTasksKeeps, OpenEnvironmentKeeps, NextTaskKeeps, ResetKeeps, RecordSandboxKeeps,
     ObserveKeeps, EvaluateKeeps, TaskFailsKeeps, AppendRecordKeeps, AbortsKeeps,
     CloseEnvironmentKeeps, HarnessIsKilledKeeps DEF Harness
<1>3. CASE \E r \in Relays : RelayBinds(r) \/ RelayEnds(r)
  BY <1>3, RelayBindsKeeps, RelayEndsKeeps
<1>4. CASE UNCHANGED validationVars
  BY <1>4 DEF validationVars, scriptVars, harnessVars, ValidationInv, ValidationTypeOK, RelaysInv,
     HarnessInv, OverallInv, AllPassed, Place, Running
<1> QED
  BY <1>1, <1>2, <1>3, <1>4 DEF ValidationNext

\* ValidationInv holds of a validation at every step, whenever signals come
\* and whatever becomes of its relays and its harness.
THEOREM ValidationInvariance == ValidationSpec => []ValidationInv
<1>1. ValidationInit => ValidationInv
  BY ValidationInitially
<1>2. ValidationInv /\ [ValidationNext]_validationVars => ValidationInv'
  BY ValidationStepKeeps
<1> QED
  BY <1>1, <1>2, PTL DEF ValidationSpec

\* Every variable of the validation keeps its type.
THEOREM ValidationTypeCorrectness == ValidationSpec => []ValidationTypeOK
<1>1. ValidationInv => ValidationTypeOK
  BY DEF ValidationInv
<1> QED
  BY <1>1, ValidationInvariance, PTL

\* validate.sh exits with 0 only when every task of every run passed.
THEOREM ZeroIsEarned == ValidationSpec => []ZeroMeansAllPassed
<1>1. ValidationInv => ZeroMeansAllPassed
  <2> SUFFICES ASSUME ValidationInv, at = "over", overall = 0, NEW r \in Runs
               PROVE  AllPassed(r)
    BY DEF ZeroMeansAllPassed, AllPassed
  <2>1. r < run \/ r = run
    BY ValidationAssumption DEF ValidationInv, RelaysInv, Place, Runs
  <2> QED
    BY <2>1 DEF ValidationInv, OverallInv, Place
<1> QED
  BY <1>1, ValidationInvariance, PTL

\* The relays that validate.sh starts on the fixed ports never overlap, and
\* none outlives it.
THEOREM RelaysNeverOverlap == ValidationSpec => []OneRelayAtATime
<1>1. ValidationInv => OneRelayAtATime
  <2> DEFINE alive == {r \in Runs : Running(r)}
  <2> SUFFICES ASSUME ValidationInv
               PROVE  Cardinality(alive) <= 1 /\ (at = "over" => alive = {})
    BY DEF OneRelayAtATime
  <2>1. alive = {} \/ alive = {run}
    BY DEF ValidationInv, RelaysInv
  <2>2. Cardinality(alive) <= 1
    <3>1. Cardinality({}) = 0 /\ Cardinality({run}) = 1
      BY FS_EmptySet, FS_Singleton
    <3> HIDE DEF alive
    <3> QED
      BY <2>1, <3>1
  <2>3. at = "over" => alive = {}
    BY DEF ValidationInv, RelaysInv, Place
  <2> QED
    BY <2>2, <2>3
<1> QED
  BY <1>1, ValidationInvariance, PTL
=============================================================================
