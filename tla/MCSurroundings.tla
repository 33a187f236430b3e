--------------------------- MODULE MCSurroundings ---------------------------
(***************************************************************************)
(* The programs around relay, provider and campaign, side by side for TLC: *)
(* the validation, the checkout's setup, a guest's recorder, its files and *)
(* programs, and a browser session.  They share no state.  A behaviour is  *)
(* one of one of them, the others keep their initial state; what it visits *)
(* is the sum of their state spaces, and each property is one of a single  *)
(* part.                                                                   *)
(***************************************************************************)
EXTENDS GuestRecorder, GuestJobs, CdpSession, CheckoutSetup, ValidationRun

VARIABLE part   \* the part whose behaviour this is

allVars == <<part, recorderVars, jobVars, sessionVars, setupVars, validationVars>>

\* An unsupported commit that has its own desktop_env/providers/e2b or, if it
\* has none, lacks one of the owned files.
AnOwnedFile == CHOOSE f \in OwnedFiles : TRUE
MCTrackedIn ==
  [c \in Commits |->
     IF c \in Supported \cup Carrying THEN OwnedFiles ELSE OwnedFiles \ {AnOwnedFile}]

Only(p, vars) == part = p /\ UNCHANGED <<part, vars>>

Init ==
  /\ part \in {"recorder", "jobs", "session", "setup", "validation"}
  /\ RecorderInit /\ JobsInit /\ SessionInit /\ SetupInit /\ ValidationInit
  /\ part # "validation" => relay[Leftover] = "dead"

Next ==
  \/ Only("recorder", <<jobVars, sessionVars, setupVars, validationVars>>) /\ RecorderNext
  \/ Only("jobs", <<recorderVars, sessionVars, setupVars, validationVars>>) /\ JobsNext
  \/ Only("session", <<recorderVars, jobVars, setupVars, validationVars>>) /\ SessionNext
  \/ Only("setup", <<recorderVars, jobVars, sessionVars, validationVars>>) /\ SetupNext
  \/ Only("validation", <<recorderVars, jobVars, sessionVars, setupVars>>) /\ ValidationNext

Spec == Init /\ [][Next]_allVars /\ RecorderFairness /\ SessionFairness

=============================================================================
