--------------------------- MODULE ValidationRun ---------------------------
(***************************************************************************)
(* A validation: validate.sh starts a relay on the fixed ports, waits for  *)
(* its health, runs the harness (harness.py) over the manifest's tasks,    *)
(* stops the relay and waits for its end; RUNS times over.  The harness    *)
(* drives DesktopEnv, whose provider has a relay of its own on ports of    *)
(* its own, and asks the relay on the fixed port which sandbox it was.     *)
(*                                                                         *)
(* A signal runs the trap, after the harness if that is what the script    *)
(* waits for, and the script then goes on where it was.                    *)
(*                                                                         *)
(* Relay n is the one of run n, the Leftover one that a validation killed  *)
(* with SIGKILL may have left on the ports.                                *)
(***************************************************************************)
EXTENDS Naturals, Sequences, FiniteSets

CONSTANTS
  RUNS,             \* VALIDATION_RUNS
  ManifestTasks,    \* the number of tasks of the manifest
  MaxSignals        \* bound: the signals sent to the script

ASSUME ValidationAssumption ==
  RUNS \in Nat \ {0} /\ ManifestTasks \in Nat /\ MaxSignals \in Nat

Runs == 1..RUNS
Leftover == RUNS + 1
Relays == 1..Leftover

VARIABLES
  at,         \* the step of validate.sh
  back,       \* where cleanup_current returns to
  run,        \* run_number
  relay_pid,  \* the relay it waits for, 0 for ""
  overall,    \* what it will exit with
  signals,    \* the signals it has been sent
  relay,      \* the relays on the fixed ports
  harness,    \* the step of the harness
  failing,    \* an exception is on its way out of the harness's main()
  record,     \* the status of the task in progress
  records     \* the statuses recorded in each run

harnessVars == <<harness, failing, record, records>>
scriptVars == <<at, back, run, relay_pid, overall, signals>>
validationVars == <<scriptVars, relay, harnessVars>>

NoRecord == "none"

ValidationInit ==
  /\ at = "launch" /\ back = "launch" /\ run = 1
  /\ relay_pid = 0 /\ overall = 0 /\ signals = 0
  /\ relay \in {[r \in Relays |-> IF r = Leftover THEN s ELSE "none"] :
                  s \in {"dead", "listening"}}
  /\ harness = "none" /\ failing = FALSE
  /\ record = NoRecord /\ records = [r \in Runs |-> <<>>]

Running(r) == relay[r] \in {"booting", "listening", "stopping"}

\* A relay that stops has its sockets still, and answers /health with 503.
Answering == {r \in Relays : relay[r] = "listening"}
PortsTaken == \E r \in Relays : relay[r] \in {"listening", "stopping"}

-----------------------------------------------------------------------------
(* The relays on the fixed ports: a sandbox first, then the ports.         *)

RelayBinds(r) ==
  /\ relay[r] = "booting"
  /\ relay' = [relay EXCEPT ![r] = IF PortsTaken THEN "dead" ELSE "listening"]
  /\ UNCHANGED <<scriptVars, harnessVars>>

\* Its cleanup is over, or it was killed, or could not come up.
RelayEnds(r) ==
  /\ Running(r)
  /\ relay' = [relay EXCEPT ![r] = "dead"]
  /\ UNCHANGED <<scriptVars, harnessVars>>

-----------------------------------------------------------------------------
(* validate.sh                                                             *)

CleanUp(then) == at' = "curl" /\ back' = then

LaunchRelay ==
  /\ at = "launch"
  /\ at' = "assign"
  /\ relay' = [relay EXCEPT ![run] = "booting"]
  /\ UNCHANGED <<back, run, relay_pid, overall, signals, harnessVars>>

\* relay_pid=$! is a command of its own.
AssignPid ==
  /\ at = "assign"
  /\ at' = "poll" /\ relay_pid' = run
  /\ UNCHANGED <<back, run, overall, signals, relay, harnessVars>>

\* Whoever answers on the port will do.
HealthAnswers ==
  /\ at = "poll" /\ Answering # {}
  /\ at' = "harness"
  /\ harness' = "load" /\ failing' = FALSE /\ record' = NoRecord
  /\ UNCHANGED <<back, run, relay_pid, overall, signals, relay, records>>

\* A variant goes on to the next run without a word.
SkipRun ==
  /\ at = "poll"
  /\ CleanUp("next")
  /\ UNCHANGED <<run, relay_pid, overall, signals, relay, harnessVars>>

\* The relay is gone (kill -0 "" fails, too), or 120 tries are over, after the
\* last of which a relay may still have come up.
GiveUpPolling ==
  /\ at = "poll"
  /\ CleanUp("next") /\ overall' = 1
  /\ UNCHANGED <<run, relay_pid, signals, relay, harnessVars>>

\* A run passes with exit status 0, and only with that.
HarnessEnds(status) ==
  /\ at = "harness" /\ harness = "exited"
  /\ status = IF /\ ~failing
                 /\ \A i \in DOMAIN records[run] : records[run][i] = "PATH_PASS"
              THEN 0 ELSE 1
  /\ CleanUp("next")
  /\ overall' = IF status = 0 THEN overall ELSE 1
  /\ UNCHANGED <<run, relay_pid, signals, relay, harnessVars>>

\* cleanup_current: /stop to whoever listens; no answer is needed.
CurlStop ==
  /\ at = "curl"
  /\ at' = "wait"
  /\ relay' = [r \in Relays |-> IF relay[r] = "listening" THEN "stopping" ELSE relay[r]]
  /\ UNCHANGED <<back, run, relay_pid, overall, signals, harnessVars>>

\* A variant does not wait for the relay it has stopped.
WaitForNobody ==
  /\ at = "wait"
  /\ at' = back /\ relay_pid' = 0
  /\ UNCHANGED <<back, run, overall, signals, relay, harnessVars>>

WaitForRelay ==
  /\ at = "wait"
  /\ relay_pid # 0 => ~Running(relay_pid)
  /\ at' = back /\ relay_pid' = 0
  /\ UNCHANGED <<back, run, overall, signals, relay, harnessVars>>

\* The EXIT trap cleans up once more.
NextRun ==
  /\ at = "next"
  /\ IF run < RUNS
     THEN at' = "launch" /\ run' = run + 1 /\ UNCHANGED back
     ELSE CleanUp("over") /\ UNCHANGED run
  /\ UNCHANGED <<relay_pid, overall, signals, relay, harnessVars>>

\* INT or TERM: the trap cleans up and does not exit.  A wait it interrupts
\* is over for the cleanup that had begun it.
Trap ==
  /\ signals < MaxSignals /\ signals' = signals + 1
  /\ at # "over"
  /\ at = "harness" => harness = "exited"
  /\ CleanUp(IF at \in {"curl", "wait"} THEN back ELSE at)
  /\ UNCHANGED <<run, relay_pid, overall, relay, harnessVars>>

-----------------------------------------------------------------------------
(* harness.py                                                              *)

InTask == {"reset", "state", "observe", "evaluate"}

\* load_tasks, the commit, and relay_state() for the report.
LoadTasks ==
  /\ harness = "load"
  /\ IF Answering # {} THEN harness' = "environment" /\ UNCHANGED failing
                       ELSE harness' = "exited" /\ failing' = TRUE
  /\ UNCHANGED <<scriptVars, relay, record, records>>

\* DesktopEnv(...): its provider starts the environment's own relay.
OpenEnvironment ==
  /\ harness = "environment"
  /\ harness' = "tasks"
  /\ UNCHANGED <<scriptVars, relay, failing, record, records>>

NextTask ==
  /\ harness = "tasks"
  /\ IF Len(records[run]) < ManifestTasks
     THEN harness' = "reset" /\ record' = NoRecord
     ELSE harness' = "close" /\ UNCHANGED record
  /\ UNCHANGED <<scriptVars, relay, failing, records>>

\* env.reset(): the environment's own relay is asked for a fresh sandbox.
Reset ==
  /\ harness = "reset"
  /\ harness' = "state"
  /\ UNCHANGED <<scriptVars, relay, failing, record, records>>

\* relay_state(): whoever answers on the fixed port is asked for its sandbox.
RecordSandbox ==
  /\ harness = "state" /\ Answering # {}
  /\ harness' = "observe"
  /\ UNCHANGED <<scriptVars, relay, failing, record, records>>

\* Screenshot, accessibility tree and one step.
Observe ==
  /\ harness = "observe"
  /\ harness' = "evaluate"
  /\ UNCHANGED <<scriptVars, relay, failing, record, records>>

Evaluate ==
  /\ harness = "evaluate"
  /\ harness' = "append" /\ record' = "PATH_PASS"
  /\ UNCHANGED <<scriptVars, relay, failing, records>>

\* except BaseException: an error, the alarm or SIGINT.
TaskFails ==
  /\ harness \in InTask
  /\ harness' = "append" /\ record' = "PATH_FAIL"
  /\ UNCHANGED <<scriptVars, relay, failing, records>>

AppendRecord ==
  /\ harness = "append"
  /\ harness' = "tasks" /\ records' = [records EXCEPT ![run] = Append(@, record)]
  /\ UNCHANGED <<scriptVars, relay, failing, record>>

\* An exception outside run_task's try: the alarm that rings before it is
\* cancelled, SIGINT, a full disk.  env is closed all the same.
Aborts ==
  /\ harness \in {"environment", "tasks", "append"}
  /\ harness' = IF harness = "environment" THEN "exited" ELSE "close"
  /\ failing' = TRUE
  /\ UNCHANGED <<scriptVars, relay, record, records>>

\* env.close() and the report may raise, too.
CloseEnvironment ==
  /\ harness = "close"
  /\ harness' = "exited" /\ failing' \in {failing, TRUE}
  /\ UNCHANGED <<scriptVars, relay, record, records>>

HarnessIsKilled ==
  /\ harness \notin {"none", "exited"}
  /\ harness' = "exited" /\ failing' = TRUE
  /\ UNCHANGED <<scriptVars, relay, record, records>>

-----------------------------------------------------------------------------
Script ==
  \/ LaunchRelay \/ AssignPid \/ HealthAnswers \/ GiveUpPolling
  \/ \E status \in 0..1 : HarnessEnds(status)
  \/ CurlStop \/ WaitForRelay \/ NextRun \/ Trap

Harness ==
  \/ LoadTasks \/ OpenEnvironment \/ NextTask \/ Reset \/ RecordSandbox
  \/ Observe \/ Evaluate \/ TaskFails \/ AppendRecord \/ Aborts
  \/ CloseEnvironment \/ HarnessIsKilled

ValidationNext ==
  \/ Script \/ Harness
  \/ \E r \in Relays : RelayBinds(r) \/ RelayEnds(r)

ValidationSpec == ValidationInit /\ [][ValidationNext]_validationVars

-----------------------------------------------------------------------------
RecordType == {"none", "PATH_PASS", "PATH_FAIL"}

ValidationTypeOK ==
  /\ at \in {"launch", "assign", "poll", "harness", "curl", "wait", "next", "over"}
  /\ back \in {"launch", "assign", "poll", "harness", "next", "over"}
  /\ run \in Runs /\ relay_pid \in 0..RUNS /\ overall \in 0..1
  /\ signals \in 0..MaxSignals
  /\ relay \in [Relays -> {"none", "booting", "listening", "stopping", "dead"}]
  /\ harness \in InTask \cup {"none", "load", "environment", "tasks", "append",
                              "close", "exited"}
  /\ failing \in BOOLEAN
  /\ record \in RecordType
  /\ records \in [Runs -> Seq(RecordType)]

\* Exit status 0 means that every run went through all tasks of the manifest
\* and each of them passed: a run whose relay did not come up, whose harness
\* died, was interrupted, or left its loop early never counts as passed, and
\* a signal makes none of it forgotten.
ZeroMeansAllPassed ==
  at = "over" /\ overall = 0 =>
    \A r \in Runs :
      /\ Len(records[r]) = ManifestTasks
      /\ \A i \in DOMAIN records[r] : records[r][i] = "PATH_PASS"

\* The script's relays, which share the fixed ports, never overlap, and none
\* outlives it: the end of the one is awaited before the next is started,
\* through every trap.
OneRelayAtATime ==
  LET alive == {r \in Runs : Running(r)} IN
    Cardinality(alive) <= 1 /\ (at = "over" => alive = {})
=============================================================================
