------------------------------ MODULE Campaign ------------------------------
(***************************************************************************)
(* The coordinator of runner/campaign.py: execute_campaign() schedules one *)
(* attempt of every eligible task under a semaphore, watches the runner    *)
(* process of each, and records what became of it in the run's ledger      *)
(* (realkit/results.py).  The same run is resumed by starting the          *)
(* coordinator again on what the previous one left on disk.                *)
(*                                                                         *)
(* The coordinator is one asyncio event loop; an action is the code of one *)
(* task from one await to the next.  asyncio.gather() hands the first      *)
(* exception of a child to execute_campaign(), whose handler cancels all   *)
(* children; a cancellation is a flag that the child meets at its await.   *)
(* The counter lock is held over no await and is not modelled.             *)
(***************************************************************************)
EXTENDS RunLedger

CONSTANTS
    NUM_ENVS,      \* size of the semaphore
    MAX_SESSIONS,  \* bound: how often the coordinator is started
    Results,       \* what a runner that exits with 0 may leave as its result
    Faults         \* which faults may happen

FaultKinds == {"spawn_error",  \* create_subprocess_exec raises
               "disk_error",   \* a file operation of run_attempt raises
               "torn_line",    \* a line of attempts.jsonl is written in part
               "interrupt",    \* SIGINT reaches the coordinator
               "crash"}        \* the coordinator is killed

ResultKinds == {"none",        \* no result.txt
                "finite",      \* one, a finite number
                "malformed",   \* one, not a finite number
                "several"}     \* more than one

ASSUME ResultsAssumption == Results \subseteq ResultKinds
ASSUME NumEnvsAssumption == NUM_ENVS \in Nat \ {0}
ASSUME MaxSessionsAssumption == MAX_SESSIONS \in Nat \ {0}
ASSUME FaultsAssumption == Faults \subseteq FaultKinds

VARIABLES
    disk,         \* how far RunLedger.create() got
    file,         \* attempts.jsonl
    torn,         \* ... ends in a line that json.loads() rejects
    aggregate,    \* aggregate.json
    coordinator,  \* where execute_campaign() is
    sessions,     \* how often it was started
    interrupted,  \* its SIGINT was delivered (a second one is a crash)
    pc,           \* where run_attempt() of each task is
    attempt,      \* its argument "attempt"
    cancelled,    \* a CancelledError is on its way to it
    why,          \* its flags timed_out and interrupted
    active,       \* active_children
    max_seen,     \* max_observed_children
    runner,       \* runner process of each task's latest attempt
    result,       \* what its result directory holds
    sandbox,      \* its sandbox, as its relay log tells of it
    peak          \* history: most children that had a runner at one time,
                  \* since a session last ended without its final refresh

diskVars  == <<disk, file, torn, aggregate>>
coordVars == <<coordinator, sessions, interrupted>>
taskVars  == <<pc, attempt, cancelled, why>>
countVars == <<active, max_seen, peak>>
worldVars == <<runner, result, sandbox>>
vars == <<diskVars, coordVars, taskVars, countVars, worldVars>>

Inside   == {"spawning", "waiting", "terminating", "killing"}  \* the semaphore
Finished == {"done", "cancelled", "failed", "refused"}
Raised   == Finished \ {"done"}
Running  == {"gathering", "draining", "abandoning"}
Ended    == {"returned", "raised", "unusable"}

TypeOK ==
    /\ disk \in {"empty", "temporary", "document", "ready"}
    /\ file \in [Tasks -> [Attempts -> Seq(Events)]]
    /\ torn \in BOOLEAN
    /\ aggregate \in [planned : Nat, started : Nat, terminal : Nat,
                      missing : Nat, remaining : Nat, max_observed_children : Nat]
    /\ coordinator \in {"down"} \cup Running \cup Ended
    /\ sessions \in 0 .. MAX_SESSIONS
    /\ interrupted \in BOOLEAN
    /\ pc \in [Tasks -> {"idle", "queued"} \cup Inside \cup Finished]
    /\ attempt \in [Tasks -> 0 .. MAX_ATTEMPTS]
    /\ cancelled \in [Tasks -> BOOLEAN]
    /\ why \in [Tasks -> {"none", "timeout", "interrupted"}]
    /\ active \in 0 .. NUM_ENVS
    /\ max_seen \in 0 .. NUM_ENVS
    /\ runner \in [Tasks -> {"none", "up", "zero", "nonzero"}]
    /\ result \in [Tasks -> ResultKinds]
    /\ sandbox \in [Tasks -> {"none", "success", "failed", "left"}]
    /\ peak \in Nat

Init ==
    /\ disk = "empty"
    /\ file = EmptyFile
    /\ torn = FALSE
    /\ aggregate = Aggregate(EmptyFile, 0)
    /\ coordinator = "down"
    /\ sessions = 0
    /\ interrupted = FALSE
    /\ pc = [t \in Tasks |-> "idle"]
    /\ attempt = [t \in Tasks |-> 0]
    /\ cancelled = [t \in Tasks |-> FALSE]
    /\ why = [t \in Tasks |-> "none"]
    /\ active = 0
    /\ max_seen = 0
    /\ runner = [t \in Tasks |-> "none"]
    /\ result = [t \in Tasks |-> "none"]
    /\ sandbox = [t \in Tasks |-> "none"]
    /\ peak = 0

-----------------------------------------------------------------------------
(* Shared by the operations.                                               *)

Fault(f) == f \in Faults

At(t, label)   == coordinator \in Running /\ pc[t] = label
Goto(t, label) == pc' = [pc EXCEPT ![t] = label]

Watching  == {t \in Tasks : pc[t] \in Inside \ {"spawning"}}
RunnersUp == {t \in Tasks : runner[t] = "up"}

(* append() of an event of the task's attempt: the task goes on at next,   *)
(* with aggregate.json rewritten from the file alone, or append() raises:  *)
(* a line cannot be read back, the event is out of order, nothing can be   *)
(* written, the line is written in part, or it is written and              *)
(* aggregate.json is not.                                                  *)
AppendEvent(t, event, next) ==
    \/ /\ ~torn
       /\ Accepts(file, t, attempt[t], event)
       /\ file' = Appended(file, t, attempt[t], event)
       /\ aggregate' = Aggregate(file', 0)
       /\ Goto(t, next)
       /\ UNCHANGED torn
    \/ /\ torn \/ ~Accepts(file, t, attempt[t], event)
       /\ Goto(t, IF torn THEN "failed" ELSE "refused")
       /\ UNCHANGED <<file, torn, aggregate>>
    \/ /\ Fault("torn_line")
       /\ ~torn
       /\ Accepts(file, t, attempt[t], event)
       /\ torn' = TRUE
       /\ Goto(t, "failed")
       /\ UNCHANGED <<file, aggregate>>
    \/ /\ Fault("disk_error")
       /\ ~torn
       /\ Accepts(file, t, attempt[t], event)
       /\ Goto(t, "failed")
       /\ UNCHANGED <<file, torn, aggregate>>
    \/ /\ Fault("disk_error")
       /\ ~torn
       /\ Accepts(file, t, attempt[t], event)
       /\ file' = Appended(file, t, attempt[t], event)
       /\ Goto(t, "failed")
       /\ UNCHANGED <<torn, aggregate>>

-----------------------------------------------------------------------------
(* execute_campaign() from its start to the gather.                        *)

MayStart == coordinator \notin Running /\ sessions < MAX_SESSIONS

(* The parallelism the previous session observed, read back from disk; and *)
(* a variant that forgets to.                                              *)
ForgottenParallelism == 0
ObservedParallelism  == aggregate.max_observed_children

(* A run that was never begun is created, an existing one is opened and    *)
(* the parallelism it observed read back; then resume_candidates() says    *)
(* which tasks get an attempt, and a child is created for each.            *)
Start ==
    /\ MayStart
    /\ disk \in {"empty", "ready"}
    /\ ~torn
    /\ disk' = "ready"
    /\ coordinator' = "gathering"
    /\ sessions' = sessions + 1
    /\ attempt' = [t \in Tasks |-> Candidate(file, t)]
    /\ pc' = [t \in Tasks |-> IF Candidate(file, t) = 0 THEN "idle" ELSE "queued"]
    /\ max_seen' = ObservedParallelism
    /\ UNCHANGED <<file, torn, aggregate, interrupted, cancelled, why, active,
                   peak, worldVars>>

(* The run cannot be used: its directory is not empty and has no run.json, *)
(* attempts.jsonl is missing, or a line of it cannot be parsed.            *)
StartRaises ==
    /\ MayStart
    /\ disk \in {"temporary", "document"} \/ torn
    /\ coordinator' = "unusable"
    /\ sessions' = sessions + 1
    /\ UNCHANGED <<diskVars, interrupted, taskVars, countVars, worldVars>>

(* The coordinator is killed inside RunLedger.create(): run.json is still  *)
(* a temporary file, or attempts.jsonl was not created.                    *)
CrashInCreate ==
    /\ MayStart
    /\ Fault("crash")
    /\ disk = "empty"
    /\ disk' \in {"temporary", "document"}
    /\ sessions' = sessions + 1
    /\ UNCHANGED <<file, torn, aggregate, coordinator, interrupted, taskVars,
                   countVars, worldVars>>

-----------------------------------------------------------------------------
(* run_attempt().                                                          *)

(* Is there a place in the semaphore?  (A variant lets one child too many  *)
(* in.)                                                                    *)
SemaphoreTooWide == Cardinality({u \in Tasks : pc[u] \in Inside}) <= NUM_ENVS
SemaphoreFree    == Cardinality({u \in Tasks : pc[u] \in Inside}) < NUM_ENVS

(* The semaphore is free: PLANNED is appended, directories and files are   *)
(* made and the runner is launched.  What an earlier attempt of the task   *)
(* left behind is not followed any further.                                *)
Acquire(t) ==
    /\ At(t, "queued")
    /\ ~cancelled[t]
    /\ SemaphoreFree
    /\ \/ AppendEvent(t, "PLANNED", "spawning")
       \/ Fault("disk_error") /\ AppendEvent(t, "PLANNED", "failed")
    /\ runner' = [runner EXCEPT ![t] = IF file' = file THEN @ ELSE "none"]
    /\ result' = [result EXCEPT ![t] = IF file' = file THEN @ ELSE "none"]
    /\ sandbox' = [sandbox EXCEPT ![t] = IF file' = file THEN @ ELSE "none"]
    /\ UNCHANGED <<disk, coordVars, attempt, cancelled, why, countVars>>

(* The runner is there and STARTED is appended; if that raises, the child  *)
(* leaves its runner to itself.                                            *)
SpawnSucceeds(t) ==
    /\ At(t, "spawning")
    /\ ~cancelled[t]
    /\ runner' = [runner EXCEPT ![t] = "up"]
    /\ AppendEvent(t, "STARTED", "waiting")
    /\ active' = IF pc'[t] = "waiting" THEN active + 1 ELSE active
    /\ max_seen' = Max({max_seen, active'})
    /\ peak' = Max({peak, Cardinality(Watching')})
    /\ UNCHANGED <<disk, coordVars, attempt, cancelled, why, result, sandbox>>

SpawnFails(t) ==
    /\ At(t, "spawning")
    /\ ~cancelled[t]
    /\ Fault("spawn_error")
    /\ Goto(t, "failed")
    /\ UNCHANGED <<diskVars, coordVars, attempt, cancelled, why, countVars,
                   worldVars>>

(* The verdict on an attempt whose runner is gone.  (A variant does not    *)
(* ask for the cleanup.)                                                   *)
VerdictWithoutCleanup(t, cause) ==
    CASE cause # "none"       -> cause
      [] runner[t] # "zero"   -> "runner_exit"
      [] result[t] = "finite" -> "valid"
      [] OTHER                -> "missing_result"

Verdict(t, cause) ==
    CASE cause = "interrupted"          -> "interrupted"
      [] cause = "timeout"              -> "timeout"
      [] runner[t] # "zero"           -> "runner_exit"
      [] result[t] = "none"           -> "missing_result"
      [] result[t] = "several"        -> "identity_drift"
      [] result[t] = "malformed"      -> "malformed_result"
      [] sandbox[t] # "success"       -> "cleanup_failed"
      [] OTHER                          -> "valid"

(* The end of run_attempt(): artifacts are redacted and catalogued, which  *)
(* may raise, and the verdict is appended.                                 *)
Conclude(t, cause) ==
    /\ active' = active - 1
    /\ \/ AppendEvent(t, Verdict(t, cause),
                  IF cause = "interrupted" THEN "cancelled" ELSE "done")
       \/ /\ Fault("disk_error")
          /\ Goto(t, "failed")
          /\ UNCHANGED <<file, torn, aggregate>>
    /\ why' = [why EXCEPT ![t] = "none"]

(* process.wait() returns.  A cancellation that arrives in the same turn   *)
(* of the loop may be swallowed by asyncio.wait_for().                     *)
RunnerEnds(t) ==
    /\ At(t, "waiting")
    /\ runner[t] # "up"
    /\ Conclude(t, "none")
    /\ cancelled' = [cancelled EXCEPT ![t] = FALSE]
    /\ UNCHANGED <<disk, coordVars, attempt, max_seen, peak, worldVars>>

(* The task's time is up: _terminate() sends SIGTERM and waits.  (A        *)
(* variant records the timeout and does not wait.)                         *)
TimesOutAtOnce(t) ==
    /\ At(t, "waiting")
    /\ ~cancelled[t]
    /\ runner[t] = "up"
    /\ Conclude(t, "timeout")
    /\ UNCHANGED <<disk, coordVars, attempt, cancelled, max_seen, peak, worldVars>>

TimesOut(t) ==
    /\ At(t, "waiting")
    /\ ~cancelled[t]
    /\ runner[t] = "up"
    /\ why' = [why EXCEPT ![t] = "timeout"]
    /\ Goto(t, "terminating")
    /\ UNCHANGED <<diskVars, coordVars, attempt, cancelled, countVars, worldVars>>

(* The runner outlives SIGTERM by five seconds: SIGKILL.  Its relay and    *)
(* its sandbox are not told.  (A variant goes on waiting.)                 *)
TerminateWaitsOn(t) ==
    /\ At(t, "terminating")
    /\ runner[t] = "up"
    /\ UNCHANGED vars

TerminateTimesOut(t) ==
    /\ At(t, "terminating")
    /\ ~cancelled[t]
    /\ runner[t] = "up"
    /\ runner' = [runner EXCEPT ![t] = "nonzero"]
    /\ sandbox' = [sandbox EXCEPT ![t] = "left"]
    /\ Goto(t, "killing")
    /\ UNCHANGED <<diskVars, coordVars, attempt, cancelled, why, countVars,
                   result>>

(* _terminate() returns.                                                   *)
TerminateEnds(t) ==
    /\ At(t, "terminating") \/ At(t, "killing")
    /\ runner[t] # "up"
    /\ Conclude(t, why[t])
    /\ cancelled' = [cancelled EXCEPT ![t] = FALSE]
    /\ UNCHANGED <<disk, coordVars, attempt, max_seen, peak, worldVars>>

(* A CancelledError is raised at the await the child is at.  In the wait   *)
(* for its runner it is caught and the runner terminated.  While queued or *)
(* launching it ends the child, and so it does inside _terminate(), whose  *)
(* call is in an except clause that catches no further exception.          *)
CancelArrives(t) ==
    /\ coordinator \in Running
    /\ cancelled[t]
    /\ cancelled' = [cancelled EXCEPT ![t] = FALSE]
    /\ \/ /\ pc[t] = "queued" \/ pc[t] = "spawning"
          /\ Goto(t, "cancelled")
          /\ UNCHANGED <<file, torn, aggregate, why, active>>
       \/ /\ pc[t] = "waiting"
          /\ runner[t] = "up"
          /\ Goto(t, "terminating")
          /\ why' = [why EXCEPT ![t] = "interrupted"]
          /\ UNCHANGED <<file, torn, aggregate, active>>
       \/ /\ pc[t] = "waiting"
          /\ runner[t] # "up"
          /\ Conclude(t, "interrupted")
       \/ /\ pc[t] = "terminating" \/ pc[t] = "killing"
          /\ Goto(t, "cancelled")
          /\ active' = active - 1
          /\ why' = [why EXCEPT ![t] = "none"]
          /\ UNCHANGED <<file, torn, aggregate>>
    /\ UNCHANGED <<disk, coordVars, attempt, max_seen, peak, worldVars>>

-----------------------------------------------------------------------------
(* execute_campaign() from the gather on.                                  *)

Unfinished == {t \in Tasks : pc[t] \in {"queued"} \cup Inside}

CancelAll == cancelled' = [t \in Tasks |-> t \in Unfinished]

(* The locals of execute_campaign() and its children are gone.             *)
LocalsGone ==
    /\ interrupted' = FALSE
    /\ pc' = [t \in Tasks |-> "idle"]
    /\ attempt' = [t \in Tasks |-> 0]
    /\ cancelled' = [t \in Tasks |-> FALSE]
    /\ why' = [t \in Tasks |-> "none"]
    /\ active' = 0
    /\ max_seen' = 0

(* SIGINT cancels execute_campaign(), and through the gather it waits for  *)
(* every unfinished child.                                                 *)
Interrupt ==
    /\ Fault("interrupt")
    /\ ~interrupted
    /\ coordinator \in {"gathering", "draining"}
    /\ interrupted' = TRUE
    /\ coordinator' = IF coordinator = "draining" THEN "abandoning" ELSE coordinator
    /\ CancelAll
    /\ UNCHANGED <<diskVars, sessions, pc, attempt, why, countVars, worldVars>>

(* The gather ends with the first child that raised, or with the SIGINT    *)
(* when none did: the handler cancels every unfinished child, whether or   *)
(* not it was cancelled before, and waits for them all.                    *)
GatherRaises ==
    /\ coordinator = "gathering"
    /\ \/ \E t \in Tasks : pc[t] \in Raised
       \/ interrupted /\ Unfinished = {}
    /\ coordinator' = "draining"
    /\ CancelAll
    /\ UNCHANGED <<diskVars, sessions, interrupted, pc, attempt, why,
                   countVars, worldVars>>

(* The children are over: aggregate.json is refreshed, unless the wait for *)
(* them was itself cancelled or the ledger cannot be read, and an          *)
(* exception goes on to main().                                            *)
DrainEnds ==
    /\ coordinator \in {"draining", "abandoning"}
    /\ Unfinished = {}
    /\ aggregate' = IF coordinator = "draining" /\ ~torn
                    THEN Aggregate(file, max_seen) ELSE aggregate
    /\ peak' = IF coordinator = "draining" /\ ~torn THEN peak ELSE 0
    /\ coordinator' = "raised"
    /\ LocalsGone
    /\ UNCHANGED <<disk, file, torn, sessions, worldVars>>

(* Has every child returned?  (A variant takes an exception for a result.) *)
AllEnded    == Unfinished = {}
AllReturned == \A t \in Tasks : pc[t] \in {"idle", "done"}

(* Every child returned: aggregate.json is refreshed.                      *)
GatherReturns ==
    /\ coordinator = "gathering"
    /\ ~interrupted
    /\ AllReturned
    /\ aggregate' = Aggregate(file, max_seen)
    /\ coordinator' = "returned"
    /\ LocalsGone
    /\ UNCHANGED <<disk, file, torn, sessions, peak, worldVars>>

(* The coordinator is killed; its runners live on, and one may just have   *)
(* been launched.                                                          *)
Crash ==
    /\ Fault("crash")
    /\ coordinator \in Running
    /\ coordinator' = "down"
    /\ torn' \in IF Fault("torn_line") THEN {torn, TRUE} ELSE {torn}
    /\ LocalsGone
    /\ \E launched \in SUBSET {t \in Tasks : pc[t] = "spawning"} :
         runner' = [t \in Tasks |-> IF t \in launched THEN "up" ELSE runner[t]]
    /\ peak' = 0
    /\ UNCHANGED <<disk, file, aggregate, sessions, result, sandbox>>

-----------------------------------------------------------------------------
(* The runner process and its relay, as the coordinator can meet them.     *)

(* The runner exits.  Its relay, a child of its own, is stopped by it, or  *)
(* fails to clean up, or is left running with its sandbox ("left"; or the  *)
(* relay never had one, which its log shows in the same way).  What a      *)
(* runner that exits otherwise than with 0 wrote is not looked at.         *)
RunnerExits(t) ==
    /\ runner[t] = "up"
    /\ \/ /\ runner' = [runner EXCEPT ![t] = "zero"]
          /\ \E r \in Results : result' = [result EXCEPT ![t] = r]
       \/ /\ runner' = [runner EXCEPT ![t] = "nonzero"]
          /\ UNCHANGED result
    /\ \E s \in {"success", "failed", "left"} :
         sandbox' = [sandbox EXCEPT ![t] = s]
    /\ UNCHANGED <<diskVars, coordVars, taskVars, countVars>>

-----------------------------------------------------------------------------
Attempt(t) == \/ Acquire(t) \/ SpawnSucceeds(t) \/ SpawnFails(t)
              \/ RunnerEnds(t) \/ TimesOut(t) \/ TerminateTimesOut(t)
              \/ TerminateEnds(t) \/ CancelArrives(t)
Gather     == GatherRaises \/ GatherReturns \/ DrainEnds

Next ==
    \/ Start \/ StartRaises \/ CrashInCreate
    \/ \E t \in Tasks : Attempt(t)
    \/ Gather
    \/ Interrupt
    \/ Crash
    \/ \E t \in Tasks : RunnerExits(t)

(* The event loop runs every task that can run, and its timers fire: a     *)
(* runner that does not exit times out and is killed in the end.           *)
Fairness == /\ \A t \in Tasks : WF_vars(Attempt(t))
            /\ WF_vars(Gather)

Spec     == Init /\ [][Next]_vars
FairSpec == Spec /\ Fairness

-----------------------------------------------------------------------------
(* Properties.                                                             *)

Idle == coordinator \notin Running

LatestLines(t) == IF LatestAttempt(file, t) = 0 THEN <<>>
                  ELSE file[t][LatestAttempt(file, t)]

(* docs/superpowers/specs/2026-09-03-full-suite-parity-design.md:87-90,    *)
(* campaign.py 264-309: whatever interleaving of timeouts, cancellations,  *)
(* crashes and resumes wrote it, a valid line stands for a runner that     *)
(* exited with 0, one finite result, and a sandbox that was cleaned up;    *)
(* and nothing that happens later takes this away.                         *)
ValidIsEarned ==
    \A t \in TerminalTasks(file) :
        runner[t] = "zero" /\ result[t] = "finite" /\ sandbox[t] = "success"

(* results.py 228-239, 263-286, campaign.py 311-315: the lines of an       *)
(* attempt are PLANNED, STARTED and one verdict, in this order; a further  *)
(* attempt is made only when the one before it was begun and is not valid. *)
AttemptsInOrder ==
    \A t \in Tasks : \A a \in Attempts :
        /\ \/ file[t][a] \in {<<>>, <<"PLANNED">>, <<"PLANNED", "STARTED">>}
           \/ \E v \in Terminals : file[t][a] = <<"PLANNED", "STARTED", v>>
        /\ a > 1 /\ file[t][a] # <<>> =>
              /\ Wrote(file, t, a - 1, "STARTED")
              /\ ~Wrote(file, t, a - 1, "valid")

(* campaign.py 252-309: no verdict is written, not even "interrupted" or   *)
(* "timeout", while the runner it is about can still change the evidence.  *)
VerdictAfterTheEnd ==
    \A t \in Tasks :
        (\E v \in Terminals : EndsWith(LatestLines(t), v)) => runner[t] # "up"

(* campaign.py 182-262, 316-326: NUM_ENVS bounds the runners that a first  *)
(* session has up, those included that a child gave up watching when it    *)
(* was cancelled.  (Not those of a child that failed between the launch    *)
(* and the wait: its place is free, and its runner is up.)                 *)
RunnersWithinCap ==
    sessions = 1 /\ coordinator \in Running =>
        Cardinality({t \in RunnersUp : pc[t] # "failed"}) <= NUM_ENVS

(* campaign.py 316-331: when the campaign returns, each task of the run is *)
(* valid, has a verdict on its latest attempt, or has used its attempts    *)
(* up; nothing it started is still up.                                     *)
ReturnedIsAccounted ==
    coordinator = "returned" =>
        /\ \A t \in Tasks :
             LET latest == LatestAttempt(file, t)
             IN  /\ latest > 0
                 /\ \/ \E v \in Terminals : EndsWith(LatestLines(t), v)
                    \/ latest = MAX_ATTEMPTS /\ EndsWith(LatestLines(t), "STARTED")
        /\ sessions = 1 => RunnersUp = {}

(* campaign.py 166-185, 320-330, results.py 246, 327-330: when a session   *)
(* is over, aggregate.json shows the most runners any session had at one   *)
(* time, although append() writes it without that number.  (A session that *)
(* is killed, or is interrupted while it drains, loses what was observed.) *)
ParallelismIsRemembered ==
    coordinator \in {"returned", "raised"} => aggregate.max_observed_children >= peak

(* campaign.py 187-331: execute_campaign() returns or raises, however its  *)
(* runners, its timeouts and a SIGINT interleave.                          *)
SessionsEnd == (coordinator \in Running) ~> Idle

(* README.md:39 "Re-running the same contract with the same --run-id       *)
(* resumes eligible tasks without deleting old attempts": what resume_     *)
(* candidates() offers is not refused by append().  (Violated: an attempt  *)
(* that was planned and never started is offered again, and refused.)      *)
OfferedIsAccepted == \A t \in Tasks : pc[t] # "refused"

(* docs/superpowers/plans/2026-09-03-full-suite-parity.md:291-292: "On     *)
(* SIGINT or SIGTERM, terminate children, wait a bounded interval, kill    *)
(* survivors, append interrupted".  (Violated: the first child that ends   *)
(* makes the others be cancelled again, inside _terminate().)              *)
NoSurvivors == coordinator = "raised" => RunnersUp = {}

-----------------------------------------------------------------------------
(* The refinement mapping: the lines of the latest attempt tell its state. *)

Status(t) ==
    LET latest == LatestAttempt(file, t)
        last(event) == EndsWith(LatestLines(t), event)
    IN  IF latest = 0 THEN "none"
        ELSE IF last("PLANNED") THEN "planned"
        ELSE IF last("STARTED") THEN "started"
        ELSE IF last("valid") THEN "valid"
        ELSE "invalid"

Lifecycle == INSTANCE AttemptLifecycle WITH
    current <- [t \in Tasks |-> LatestAttempt(file, t)],
    status  <- [t \in Tasks |-> Status(t)]

(* results.py 218-286, campaign.py 187-331: sessions, children, the        *)
(* semaphore, cancellation and the readers of the ledger amount to         *)
(* AttemptLifecycle, whatever fault happens.                               *)
ImplementsLifecycle == Lifecycle!Spec
=============================================================================
