--------------------------- MODULE CheckoutSetup ---------------------------
(***************************************************************************)
(* The OSWorld checkout that setup.sh prepares: it clones the repository,  *)
(* moves it to the profile's commit, patches the files the adapter owns    *)
(* (patch_upstream.py), copies the provider and the relay next to them,    *)
(* and has runtime.py inspect the outcome.  The same checkout is set up    *)
(* again and again, for one profile or another, after runs that were       *)
(* refused, that failed (network) or that were cut short at any step (the  *)
(* process is killed, the disk is full), after the user has edited it, and *)
(* after campaigns have run in it.                                         *)
(***************************************************************************)
EXTENDS FiniteSets

CONSTANTS
  Commits,      \* the commits of the profiles
  Supported,    \* those whose inventory and patch anchors still fit
  OwnedFiles,   \* OWNED_TRACKED_PATHS, the files of TRANSFORMS
  TrackedIn,    \* those of them that a commit has
  Carrying,     \* the commits that have a desktop_env/providers/e2b of their own
  NoCommit      \* no commit, or one that no profile names

ASSUME CheckoutAssumption ==
  /\ Supported \subseteq Commits
  /\ NoCommit \notin Commits
  /\ OwnedFiles # {}
  /\ TrackedIn \in [Commits -> SUBSET OwnedFiles]
  /\ Carrying \subseteq Commits
  /\ \A c \in Supported : TrackedIn[c] = OwnedFiles /\ c \notin Carrying

VARIABLES
  stage,     \* the step of the run in progress, or "idle"
  pin,       \* its profile's commit
  tree,      \* the work tree as git left it
  head,      \* the commit that is checked out
  owned,     \* the owned files: whose version, and which
  foreign,   \* whether the user changed files the adapter does not own
  modules,   \* the commit the submodules were updated for
  copies,    \* what is copied into the checkout
  venv,      \* the commit whose lock the runtime was installed from
  todo,      \* the owned files a loop has yet to write
  result,    \* how the last run ended, if the user changed nothing since
  wounded,   \* a run was cut short since the last one that was completed
  cached     \* campaigns left bytecode under desktop_env/evaluators, which
             \* git ignores

setupVars == <<stage, pin, tree, head, owned, foreign, modules, copies, venv,
               todo, result, wounded, cached>>

Copied == {"package", "files"}  \* desktop_env/providers/e2b/, and e2b_*.py
Version(c, is) == [of |-> c, is |-> is]
AllOwned(version) == [f \in OwnedFiles |-> version]

SetupInit ==
  /\ stage = "idle" /\ pin = NoCommit
  /\ tree = "none" /\ head = NoCommit
  /\ owned = AllOwned(Version(NoCommit, "absent"))
  /\ foreign = FALSE
  /\ modules = NoCommit /\ copies = {} /\ venv = NoCommit
  /\ todo = {} /\ result = "none" /\ wounded = FALSE /\ cached = FALSE

-----------------------------------------------------------------------------
\* set -e: the run ends at the step that fails, and leaves what it did.
Stop(outcome) ==
  /\ stage' = "idle" /\ result' = outcome /\ todo' = {}

GoOn(step) == stage' = step /\ UNCHANGED <<result, todo>>

\* _reject_unexpected_changes: git diff HEAD and untracked files, the owned
\* ones aside.  Of a tree that was never checked out, git reports every file
\* as deleted; of submodules that were not updated since, their directories.
UnexpectedChanges ==
  \/ foreign
  \/ tree \in {"empty", "mixed"}
  \/ modules \notin {NoCommit, head}

\* A variant has a checkout restored only before its profile changes.
RunUnrestored(c) ==
  /\ stage = "idle"
  /\ pin' = c
  /\ stage' = IF tree = "none" THEN "clone" ELSE IF head = c THEN "fetch" ELSE "restore"
  /\ result' = "none"
  /\ UNCHANGED <<tree, head, owned, foreign, modules, copies, venv, todo, wounded, cached>>

RunSetup(c) ==
  /\ stage = "idle"
  /\ pin' = c
  /\ stage' = IF tree = "none" THEN "clone" ELSE "restore"
  /\ result' = "none"
  /\ UNCHANGED <<tree, head, owned, foreign, modules, copies, venv, todo, wounded, cached>>

\* git clone --no-checkout
Clone ==
  /\ stage = "clone"
  /\ \/ GoOn("fetch") /\ tree' = "empty"
     \/ Stop("failed") /\ UNCHANGED tree
  /\ UNCHANGED <<pin, head, owned, foreign, modules, copies, venv, wounded, cached>>

\* patch_upstream.py --restore-owned, for a checkout that was there before.
RestoreBegins ==
  /\ stage = "restore"
  /\ IF UnexpectedChanges
     THEN Stop("refused")
     ELSE stage' = "restoring" /\ todo' = OwnedFiles /\ UNCHANGED result
  /\ UNCHANGED <<pin, tree, head, owned, foreign, modules, copies, venv, wounded, cached>>

\* git show raises for a file that the commit does not have.
RestoreFile(f) ==
  /\ stage = "restoring" /\ f \in todo
  /\ IF f \in TrackedIn[head]
     THEN /\ owned' = [owned EXCEPT ![f] = Version(head, "pristine")]
          /\ todo' = todo \ {f} /\ UNCHANGED <<stage, result>>
     ELSE Stop("refused") /\ UNCHANGED owned
  /\ UNCHANGED <<pin, tree, head, foreign, modules, copies, venv, wounded, cached>>

\* The files first, then the package's directory, unless it is the commit's.
RemoveCopies ==
  /\ stage = "restoring" /\ todo = {}
  /\ IF "files" \in copies
     THEN copies' = copies \ {"files"} /\ UNCHANGED <<stage, result, todo>>
     ELSE IF head \in Carrying
     THEN Stop("refused") /\ UNCHANGED copies
     ELSE copies' = {} /\ GoOn("fetch")
  /\ UNCHANGED <<pin, tree, head, owned, foreign, modules, venv, wounded, cached>>

Fetch ==
  /\ stage = "fetch"
  /\ GoOn("checkout") \/ Stop("failed")
  /\ UNCHANGED <<pin, tree, head, owned, foreign, modules, copies, venv, wounded, cached>>

OwnedOf(c, f) ==
  IF f \in TrackedIn[c] THEN Version(c, "pristine") ELSE Version(NoCommit, "absent")

Checkout ==
  /\ stage = "checkout"
  /\ \/ /\ GoOn("submodules")
        /\ head' = pin /\ tree' = "clean"
        /\ owned' = [f \in OwnedFiles |->
             IF owned[f].is = "edited" THEN owned[f] ELSE OwnedOf(pin, f)]
     \/ Stop("failed") /\ UNCHANGED <<head, tree, owned>>
  /\ UNCHANGED <<pin, foreign, modules, copies, venv, wounded, cached>>

UpdateSubmodules ==
  /\ stage = "submodules"
  /\ \/ GoOn("verify") /\ modules' = pin
     \/ Stop("failed") /\ UNCHANGED modules
  /\ UNCHANGED <<pin, tree, head, owned, foreign, copies, venv, wounded, cached>>

\* profile.py verify: the commit, and every suite's inventory, which holds a
\* digest of all the files under desktop_env/evaluators, ignored ones too.
VerifyProfile ==
  /\ stage = "verify"
  /\ \/ head = pin /\ ~cached /\ GoOn("patch")
     \/ (head # pin \/ pin \notin Supported \/ cached) /\ Stop("refused")
  /\ UNCHANGED <<pin, tree, head, owned, foreign, modules, copies, venv, wounded, cached>>

\* Every transform finds its anchors in the commit's files.
AnchorsFound(c) == c \in Supported

\* A variant writes each file as soon as it has computed it.
PatchAsComputed ==
  /\ stage = "patch"
  /\ \/ stage' = "patching" /\ todo' = OwnedFiles /\ UNCHANGED <<result, owned>>
     \/ /\ ~AnchorsFound(pin) /\ Stop("refused")
        /\ \E f \in OwnedFiles : owned' = [owned EXCEPT ![f] = Version(head, "patched")]
  /\ UNCHANGED <<pin, tree, head, foreign, modules, copies, venv, wounded, cached>>

\* patch_checkout computes every output before it writes the first one.
PatchBegins ==
  /\ stage = "patch"
  /\ IF /\ head = pin /\ ~UnexpectedChanges /\ AnchorsFound(pin)
        /\ \A f \in OwnedFiles :
             owned[f] \in {Version(head, "pristine"), Version(head, "patched")}
     THEN stage' = "patching" /\ todo' = OwnedFiles /\ UNCHANGED result
     ELSE Stop("refused")
  /\ UNCHANGED <<pin, tree, head, owned, foreign, modules, copies, venv, wounded, cached>>

PatchFile(f) ==
  /\ stage = "patching" /\ f \in todo
  /\ owned' = [owned EXCEPT ![f] = Version(head, "patched")]
  /\ todo' = todo \ {f}
  /\ UNCHANGED <<stage, pin, tree, head, foreign, modules, copies, venv, result, wounded, cached>>

PatchEnds ==
  /\ stage = "patching" /\ todo = {}
  /\ GoOn("copy")
  /\ UNCHANGED <<pin, tree, head, owned, foreign, modules, copies, venv, wounded, cached>>

\* A variant forgets what goes next to the package.
CopyPackage ==
  /\ stage = "copy"
  /\ copies' = {"package"} /\ GoOn("sync")
  /\ UNCHANGED <<pin, tree, head, owned, foreign, modules, venv, wounded, cached>>

\* The provider's package, then the relay, the harness and the policy.
Copy ==
  /\ stage = "copy"
  /\ IF "package" \in copies
     THEN copies' = Copied /\ GoOn("sync")
     ELSE copies' = {"package"} /\ UNCHANGED <<stage, result, todo>>
  /\ UNCHANGED <<pin, tree, head, owned, foreign, modules, venv, wounded, cached>>

\* uv sync --frozen and uv pip install
Sync ==
  /\ stage = "sync"
  /\ \/ GoOn("inspect") /\ venv' = pin
     \/ Stop("failed") /\ UNCHANGED venv
  /\ UNCHANGED <<pin, tree, head, owned, foreign, modules, copies, wounded, cached>>

\* runtime.py inspect, with verify_patched_checkout
Accepted(c) ==
  /\ venv # NoCommit /\ head = c /\ ~UnexpectedChanges
  /\ owned = AllOwned(Version(c, "patched"))

Inspect ==
  /\ stage = "inspect"
  /\ IF Accepted(pin)
     THEN Stop("done") /\ wounded' = FALSE
     ELSE Stop("refused") /\ UNCHANGED wounded
  /\ UNCHANGED <<pin, tree, head, owned, foreign, modules, copies, venv, cached>>

-----------------------------------------------------------------------------
\* The run is cut short between two steps or within one, by a kill or by the
\* disk: a clone may be left without a work tree, a checkout half way, a file
\* half written.
CutShort ==
  /\ stage # "idle"
  /\ Stop("cut") /\ wounded' = TRUE
  /\ \/ UNCHANGED <<tree, owned>>
     \/ stage = "clone" /\ tree' = "empty" /\ UNCHANGED owned
     \/ stage = "checkout" /\ tree' = "mixed" /\ UNCHANGED owned
     \/ \E f \in todo : /\ f \in TrackedIn[head]
                        /\ owned' = [owned EXCEPT ![f].is = "edited"]
                        /\ UNCHANGED tree
  /\ UNCHANGED <<pin, head, foreign, modules, copies, venv, cached>>

\* Between two runs the user edits an owned file, or any other, or takes the
\* latter back, or removes the bytecode.
UserEdits ==
  /\ stage = "idle" /\ tree = "clean"
  /\ \/ \E f \in TrackedIn[head] : /\ owned' = [owned EXCEPT ![f].is = "edited"]
                                   /\ UNCHANGED <<foreign, cached>>
     \/ foreign' = ~foreign /\ UNCHANGED <<owned, cached>>
     \/ cached' = FALSE /\ UNCHANGED <<owned, foreign>>
  /\ result' = "none"
  /\ UNCHANGED <<stage, pin, tree, head, modules, copies, venv, todo, wounded>>

\* A campaign in a checkout that it accepts: the runner it starts imports
\* desktop_env, and Python keeps the bytecode next to the sources.
CampaignRuns ==
  /\ stage = "idle" /\ Accepted(head) /\ copies = Copied
  /\ cached' = TRUE /\ result' = "none"
  /\ UNCHANGED <<stage, pin, tree, head, owned, foreign, modules, copies, venv, todo, wounded>>

SetupStep ==
  \/ Clone \/ RestoreBegins \/ RemoveCopies \/ Fetch \/ Checkout
  \/ UpdateSubmodules \/ VerifyProfile \/ PatchBegins \/ PatchEnds
  \/ Copy \/ Sync \/ Inspect
  \/ \E f \in OwnedFiles : RestoreFile(f) \/ PatchFile(f)

SetupNext ==
  \/ \E c \in Commits : RunSetup(c)
  \/ SetupStep \/ CutShort \/ UserEdits \/ CampaignRuns

SetupSpec == SetupInit /\ [][SetupNext]_setupVars

-----------------------------------------------------------------------------
SetupTypeOK ==
  /\ stage \in {"idle", "clone", "restore", "restoring", "fetch", "checkout",
                "submodules", "verify", "patch", "patching", "copy", "sync", "inspect"}
  /\ pin \in Commits \cup {NoCommit} /\ head \in Commits \cup {NoCommit}
  /\ tree \in {"none", "empty", "mixed", "clean"}
  /\ owned \in [OwnedFiles -> [of : Commits \cup {NoCommit},
                               is : {"absent", "pristine", "patched", "edited"}]]
  /\ modules \in Commits \cup {NoCommit} /\ venv \in Commits \cup {NoCommit}
  /\ copies \subseteq Copied /\ todo \subseteq OwnedFiles
  /\ result \in {"none", "done", "refused", "failed", "cut"}
  /\ foreign \in BOOLEAN /\ wounded \in BOOLEAN /\ cached \in BOOLEAN

\* A run that says "Done." leaves the checkout wholly prepared for its
\* profile, whatever runs were cut short or refused before it and whichever
\* profile they were for: every owned file is the patched one of this
\* commit, the copies are all there (nobody checks those), submodules and
\* runtime are this commit's.
DoneMeansPrepared ==
  result = "done" =>
    /\ head = pin /\ modules = pin /\ venv = pin /\ tree = "clean" /\ ~foreign
    /\ owned = AllOwned(Version(pin, "patched"))
    /\ copies = Copied

HalfPatched ==
  \E f, g \in OwnedFiles : owned[f].is = "patched" /\ owned[g].is = "pristine"

\* Only a run that is cut short leaves a checkout half patched: one that is
\* refused or fails leaves the owned files all patched or all pristine, the user's edits aside.
OnlyACutLeavesHalfAPatch ==
  HalfPatched => wounded \/ stage \in {"restoring", "patching"}

\* --restore-owned fails at such a commit: it cannot be left for another.
Unrestorable(c) == c \in Commits /\ (TrackedIn[c] # OwnedFiles \/ c \in Carrying)

\* A run is refused for one of these reasons: its commit is not supported, a
\* refused run left the checkout at a commit that cannot be restored, a
\* foreign change, a clone or checkout that never came to its end, submodules
\* of another commit, or bytecode where the inventory looks.  What earlier
\* runs did to the owned files and the copies, those cut short included, and
\* what the user did to them, never is one.
RefusedForACause ==
  result = "refused" =>
    \/ pin \notin Supported
    \/ Unrestorable(head)
    \/ foreign \/ tree \in {"empty", "mixed"} \/ modules \notin {NoCommit, head}
    \/ cached

\* "Re-running setup is idempotent" (runner/README.md:19), "Idempotent:
\* re-running is safe" (setup.sh:4): a checkout that is at the commit of a
\* supported profile, with the submodules and the runtime of that commit,
\* in which no run was cut short and the user changed nothing but, perhaps,
\* owned files, is not refused to that profile.
ReRunningIsSafe ==
  result = "refused" =>
    \/ pin \notin Supported
    \/ head # pin \/ modules # pin \/ venv # pin
    \/ foreign \/ wounded
=============================================================================
