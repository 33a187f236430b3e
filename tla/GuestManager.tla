---------------------------- MODULE GuestManager ----------------------------
(***************************************************************************)
(* The relay process of realkit/relay.py: the GuestManager that owns the   *)
(* E2B sandboxes of one environment, the control handlers (/reset, /save,  *)
(* /stop) that drive it, and main(), which creates the first guest and     *)
(* tears everything down.                                                  *)
(*                                                                         *)
(* The relay is one asyncio event loop.  Code between two awaits is        *)
(* atomic, so an action is the code from one await to the next.  The       *)
(* bodies of "async with self._lock" contain no await: that lock is never  *)
(* contended and is not modelled.  _replace_lock is held across awaits and *)
(* is the variable replace_lock.                                           *)
(***************************************************************************)
EXTENDS Naturals, FiniteSets

CONSTANTS
    Sandboxes,      \* identifiers E2B may give out (bounds the creations)
    Requests,       \* control requests the relay receives (bounds them)
    Names,          \* snapshot names
    KILL_ATTEMPTS,  \* attempts of _kill_sandbox
    Faults,         \* which environment faults may happen
    Main,           \* the task that runs main()
    NoTask,         \* nobody holds the lock
    NoSandbox,      \* None
    Template        \* the immutable template, a source that is no snapshot

FaultKinds == {"create_error",  \* Sandbox.create raises, nothing was created
               "create_lost",   \* ... raises although the sandbox exists
               "no_token",      \* the sandbox has no traffic access token
               "not_ready",     \* the guest never answers /screen_size
               "kill_error",    \* sandbox.kill raises, the sandbox lives on
               "kill_lost",     \* ... raises although the sandbox is gone
               "log_error",     \* _record_event raises OSError
               "bind_error",    \* a listening port is taken
               "expire",        \* E2B ends a sandbox by itself
               "sigterm", "sigkill"}

ASSUME KillAttemptsAssumption == KILL_ATTEMPTS \in Nat \ {0}
ASSUME FaultsAssumption == Faults \subseteq FaultKinds
ASSUME IdentityAssumption == /\ Main \notin Requests
                             /\ NoTask \notin Requests \cup {Main}
                             /\ NoSandbox \notin Sandboxes
                             /\ Template \notin Sandboxes

Tasks == Requests \cup {Main}

VARIABLES
    cloud,         \* E2B: does the sandbox exist ("unused", "live", "dead")
    generation,    \* Guest.generation of each sandbox created
    guest,         \* GuestManager._guest
    stopped,       \* GuestManager._stopped
    pending,       \* keys of GuestManager._pending_cleanup
    replace_lock,  \* holder of GuestManager._replace_lock
    snapshots,     \* GuestManager._snapshots: name -> the sandbox captured
    events,        \* lines of EVENT_LOG, as <<event, sandbox>>
    stop_event,    \* stop_event.is_set()
    proc,          \* the relay process: "running", "exited" or "killed"
    pc,            \* where each task is
    call,          \* the handler a request runs
    number,        \* local "generation" of replace()
    origin,        \* argument "source" of replace()
    name,          \* argument "name" of save_snapshot()
    candidate,     \* local "sandbox" of _create(), "guest" of save_snapshot()
    victim,        \* argument "sandbox" of _kill_sandbox()
    attempt,       \* local "attempt" of _kill_sandbox()
    reap,          \* rest of the list stop() iterates over
    after          \* where the task goes once its cleanups are over

managerVars == <<guest, stopped, pending, replace_lock, snapshots>>
worldVars   == <<cloud, generation, events, stop_event, proc>>
cleanupVars == <<victim, attempt, reap, after>>
requestVars == <<call, number, origin, name, candidate>>
vars == <<managerVars, worldVars, cleanupVars, requestVars, pc>>

Event(kind, s) == <<kind, s>>
Logged(kind)   == {s \in Sandboxes : Event(kind, s) \in events}
Live           == {s \in Sandboxes : cloud[s] = "live"}

EventKinds == {"SANDBOX_CREATED", "SANDBOX_READY", "SANDBOX_CLEANED",
               "SANDBOX_CLEANUP_FAILED", "SNAPSHOT_SAVED"}
Replacing  == {"creating", "created", "polling"}   \* inside _create()
Holding    == Replacing \cup {"killing"}           \* owns _replace_lock
Outcomes   == {"done", "failed", "binding", "closing"}
PCs        == Holding \cup Outcomes
              \cup {"idle", "acquire", "stop_acquire", "serving",
                    "snapshotting", "captured"}

TypeOK ==
    /\ cloud \in [Sandboxes -> {"unused", "live", "dead"}]
    /\ generation \in [Sandboxes -> Nat]
    /\ guest \in Sandboxes \cup {NoSandbox}
    /\ stopped \in BOOLEAN
    /\ pending \in SUBSET Sandboxes
    /\ replace_lock \in Tasks \cup {NoTask}
    /\ snapshots \in [Names -> Sandboxes \cup {NoSandbox}]
    /\ events \in SUBSET (EventKinds \X Sandboxes)
    /\ stop_event \in BOOLEAN
    /\ proc \in {"running", "exited", "killed"}
    /\ pc \in [Tasks -> PCs]
    /\ call \in [Tasks -> {"none", "reset", "save", "stop", "main"}]
    /\ number \in [Tasks -> Nat]
    /\ origin \in [Tasks -> Sandboxes \cup {Template}]
    /\ name \in [Tasks -> Names \cup {"none"}]
    /\ candidate \in [Tasks -> Sandboxes \cup {NoSandbox}]
    /\ victim \in [Tasks -> Sandboxes \cup {NoSandbox}]
    /\ attempt \in [Tasks -> 1 .. KILL_ATTEMPTS]
    /\ reap \in [Tasks -> SUBSET Sandboxes]
    /\ after \in [Tasks -> Outcomes]

Init ==
    /\ cloud = [s \in Sandboxes |-> "unused"]
    /\ generation = [s \in Sandboxes |-> 0]
    /\ guest = NoSandbox
    /\ stopped = FALSE
    /\ pending = {}
    /\ replace_lock = NoTask
    /\ snapshots = [n \in Names |-> NoSandbox]
    /\ events = {}
    /\ stop_event = FALSE
    /\ proc = "running"
    /\ pc = [t \in Tasks |-> IF t = Main THEN "acquire" ELSE "idle"]
    /\ call = [t \in Tasks |-> IF t = Main THEN "main" ELSE "none"]
    /\ number = [t \in Tasks |-> 0]
    /\ origin = [t \in Tasks |-> Template]
    /\ name = [t \in Tasks |-> "none"]
    /\ candidate = [t \in Tasks |-> NoSandbox]
    /\ victim = [t \in Tasks |-> NoSandbox]
    /\ attempt = [t \in Tasks |-> 1]
    /\ reap = [t \in Tasks |-> {}]
    /\ after = [t \in Tasks |-> "done"]

-----------------------------------------------------------------------------
(* Steps shared by the operations.                                         *)

At(t, label) == proc = "running" /\ pc[t] = label

Fault(f) == f \in Faults

Goto(t, label) == pc' = [pc EXCEPT ![t] = label]

(* The "async with self._replace_lock" block ends and its caller goes on.  *)
(* (A variant forgets the lock when an exception leaves the block.)        *)
ReleaseUnlessFailed(t, label) ==
    /\ replace_lock' = IF label = "failed" THEN replace_lock ELSE NoTask
    /\ Goto(t, label)

Release(t, label) ==
    /\ replace_lock' = NoTask
    /\ Goto(t, label)

(* _cleanup_or_track() on every sandbox of todo, one at a time, t holding  *)
(* the lock; then t releases it and goes to outcome.                       *)
StartCleanup(t, todo, outcome) ==
    IF todo = {}
    THEN Release(t, outcome) /\ UNCHANGED cleanupVars
    ELSE /\ replace_lock' = t
         /\ Goto(t, "killing")
         /\ \E s \in todo :
              /\ victim' = [victim EXCEPT ![t] = s]
              /\ reap' = [reap EXCEPT ![t] = todo \ {s}]
         /\ attempt' = [attempt EXCEPT ![t] = 1]
         /\ after' = [after EXCEPT ![t] = outcome]

(* What replace() leads to when it returns: a reset is answered, main()    *)
(* starts its servers.                                                     *)
Replaced(t) == IF t = Main THEN "binding" ELSE "done"

-----------------------------------------------------------------------------
(* replace() and _create().                                                *)

(* The generation of the guest that would follow the current one.          *)
NextGeneration == IF guest = NoSandbox THEN 1 ELSE generation[guest] + 1

(* The lock is granted: _stopped is tested and the generation computed,    *)
(* then SANDBOX_CREATE_STARTED is logged and Sandbox.create is started.    *)
(* (A variant does not wait for the lock.)                                 *)
AcquireReplaceUnlocked(t) ==
    /\ At(t, "acquire")
    /\ ~stopped
    /\ replace_lock' = t
    /\ number' = [number EXCEPT ![t] = NextGeneration]
    /\ Goto(t, "creating")
    /\ UNCHANGED <<guest, stopped, pending, snapshots, worldVars, cleanupVars,
                   call, origin, name, candidate>>

AcquireReplace(t) ==
    /\ At(t, "acquire")
    /\ replace_lock = NoTask
    /\ IF stopped
       THEN Goto(t, "failed") /\ UNCHANGED <<replace_lock, number>>
       ELSE /\ replace_lock' = t
            /\ number' = [number EXCEPT ![t] = NextGeneration]
            /\ Goto(t, "creating")
    /\ UNCHANGED <<guest, stopped, pending, snapshots, worldVars, cleanupVars,
                   call, origin, name, candidate>>

(* E2B creates the sandbox; the reply is still on its way.                 *)
CloudCreates(t) ==
    /\ At(t, "creating")
    /\ \E s \in Sandboxes :
         /\ cloud[s] = "unused"
         /\ cloud' = [cloud EXCEPT ![s] = "live"]
         /\ generation' = [generation EXCEPT ![s] = number[t]]
         /\ candidate' = [candidate EXCEPT ![t] = s]
    /\ Goto(t, "created")
    /\ UNCHANGED <<managerVars, cleanupVars, events, stop_event, proc,
                   call, number, origin, name>>

(* Sandbox.create, or the log line before it, raises.                      *)
CreateFails(t) ==
    /\ \/ At(t, "creating") /\ Fault("create_error")
       \/ At(t, "created") /\ Fault("create_lost")
    /\ Release(t, "failed")
    /\ UNCHANGED <<guest, stopped, pending, snapshots, worldVars, cleanupVars,
                   requestVars>>

(* Sandbox.create returns a sandbox without a token: it is cleaned up and  *)
(* the replacement raises.                                                 *)
CreateReturnsNoToken(t) ==
    /\ At(t, "created")
    /\ Fault("no_token")
    /\ StartCleanup(t, {candidate[t]}, "failed")
    /\ UNCHANGED <<guest, stopped, pending, snapshots, worldVars, requestVars>>

(* Sandbox.create returns: SANDBOX_CREATED is logged, polling starts.  (A  *)
(* variant publishes the guest already.)                                   *)
CreateReturnsPublished(t) ==
    /\ At(t, "created")
    /\ events' = events \cup {Event("SANDBOX_CREATED", candidate[t])}
    /\ guest' = candidate[t]
    /\ Goto(t, "polling")
    /\ UNCHANGED <<stopped, pending, replace_lock, snapshots, cleanupVars,
                   requestVars, cloud, generation, stop_event, proc>>

CreateReturns(t) ==
    /\ At(t, "created")
    /\ events' = events \cup {Event("SANDBOX_CREATED", candidate[t])}
    /\ Goto(t, "polling")
    /\ UNCHANGED <<managerVars, cleanupVars, requestVars,
                   cloud, generation, stop_event, proc>>

(* _wait_ready() returns: SANDBOX_READY is logged and, in the same step,   *)
(* replace() looks at _stopped again.  It publishes the new guest and      *)
(* cleans the old one up, or cleans the candidate up and raises.  (A       *)
(* variant does not look again.)                                           *)
GuestReadyUnchecked(t) ==
    /\ At(t, "polling")
    /\ cloud[candidate[t]] = "live"
    /\ events' = events \cup {Event("SANDBOX_READY", candidate[t])}
    /\ guest' = candidate[t]
    /\ StartCleanup(t, {guest} \ {NoSandbox}, Replaced(t))
    /\ UNCHANGED <<stopped, pending, snapshots, cloud, generation, stop_event,
                   proc, requestVars>>

GuestReady(t) ==
    /\ At(t, "polling")
    /\ cloud[candidate[t]] = "live"
    /\ events' = events \cup {Event("SANDBOX_READY", candidate[t])}
    /\ IF stopped
       THEN /\ StartCleanup(t, {candidate[t]}, "failed")
            /\ UNCHANGED guest
       ELSE /\ guest' = candidate[t]
            /\ StartCleanup(t, {guest} \ {NoSandbox}, Replaced(t))
    /\ UNCHANGED <<stopped, pending, snapshots, cloud, generation, stop_event,
                   proc, requestVars>>

(* _wait_ready() gives up: the candidate is cleaned up, replace() raises.  *)
GuestNotReady(t) ==
    /\ At(t, "polling")
    /\ Fault("not_ready") \/ cloud[candidate[t]] = "dead"
    /\ StartCleanup(t, {candidate[t]}, "failed")
    /\ UNCHANGED <<guest, stopped, pending, snapshots, worldVars, requestVars>>

-----------------------------------------------------------------------------
(* _kill_sandbox() and _cleanup_or_track().                                *)

(* The next sandbox of the list, or the end of the lock's block.           *)
NextCleanup(t) == StartCleanup(t, reap[t], after[t])

(* sandbox.kill returns (it does so too when the sandbox was gone).        *)
KillSucceeds(t) ==
    /\ At(t, "killing")
    /\ cloud' = [cloud EXCEPT ![victim[t]] = "dead"]
    /\ events' = events \cup {Event("SANDBOX_CLEANED", victim[t])}
    /\ pending' = pending \ {victim[t]}
    /\ NextCleanup(t)
    /\ UNCHANGED <<guest, stopped, snapshots, generation, stop_event, proc,
                   requestVars>>

(* What a failed kill leaves of the sandbox: the call had no effect, or it *)
(* had and its reply, or the SANDBOX_CLEANED line, was lost.               *)
KillRaises(t) ==
    \/ Fault("kill_error") /\ UNCHANGED cloud
    \/ /\ Fault("kill_lost") \/ Fault("log_error")
       /\ cloud' = [cloud EXCEPT ![victim[t]] = "dead"]

(* sandbox.kill raises and another attempt is left.  (A variant makes one  *)
(* attempt too many.)                                                      *)
KillRetriesOnceMore(t) ==
    /\ At(t, "killing")
    /\ KillRaises(t)
    /\ attempt[t] <= KILL_ATTEMPTS
    /\ attempt' = [attempt EXCEPT ![t] = @ + 1]
    /\ UNCHANGED <<managerVars, generation, events, stop_event, proc, victim,
                   reap, after, requestVars, pc>>

KillRetries(t) ==
    /\ At(t, "killing")
    /\ KillRaises(t)
    /\ attempt[t] < KILL_ATTEMPTS
    /\ attempt' = [attempt EXCEPT ![t] = @ + 1]
    /\ UNCHANGED <<managerVars, generation, events, stop_event, proc, victim,
                   reap, after, requestVars, pc>>

(* The last attempt raises: the failure is logged and the sandbox tracked. *)
(* (A variant takes the last failure for a success.)                       *)
KillGivesUpQuietly(t) ==
    /\ At(t, "killing")
    /\ KillRaises(t)
    /\ attempt[t] = KILL_ATTEMPTS
    /\ events' = events \cup {Event("SANDBOX_CLEANED", victim[t])}
    /\ pending' = pending \ {victim[t]}
    /\ NextCleanup(t)
    /\ UNCHANGED <<guest, stopped, snapshots, generation, stop_event, proc,
                   requestVars>>

KillGivesUp(t) ==
    /\ At(t, "killing")
    /\ KillRaises(t)
    /\ attempt[t] = KILL_ATTEMPTS
    /\ events' = events \cup {Event("SANDBOX_CLEANUP_FAILED", victim[t])}
    /\ pending' = pending \cup {victim[t]}
    /\ NextCleanup(t)
    /\ UNCHANGED <<guest, stopped, snapshots, generation, stop_event, proc,
                   requestVars>>

(* A write to the event log raises outside every try: SANDBOX_CREATED,     *)
(* SANDBOX_READY, or SANDBOX_CLEANUP_FAILED after the last attempt.  The   *)
(* exception leaves the lock's block, and the task forgets the sandbox.    *)
LogWriteFails(t) ==
    /\ Fault("log_error")
    /\ \/ At(t, "created") /\ UNCHANGED cloud
       \/ /\ At(t, "polling")
          /\ cloud[candidate[t]] = "live"
          /\ UNCHANGED cloud
       \/ /\ At(t, "killing")
          /\ attempt[t] = KILL_ATTEMPTS
          /\ KillRaises(t)
    /\ Release(t, "failed")
    /\ UNCHANGED <<guest, stopped, pending, snapshots, generation, events,
                   stop_event, proc, cleanupVars, requestVars>>

-----------------------------------------------------------------------------
(* The control handlers.  The control server answers from the moment       *)
(* main() has started it until main() closes it.                           *)

Installed == pc[Main] = "serving" \/ stop_event
ControlUp == Installed /\ pc[Main] \notin {"closing", "failed"}

Arrives(r) == At(r, "idle") /\ ControlUp

(* POST /reset: revert() looks the snapshot up, then waits for the lock.   *)
RequestReset(r) ==
    /\ Arrives(r)
    /\ call' = [call EXCEPT ![r] = "reset"]
    /\ \E source \in ({Template} \cup {snapshots[n] : n \in Names}) \ {NoSandbox} :
         origin' = [origin EXCEPT ![r] = source]
    /\ Goto(r, "acquire")
    /\ UNCHANGED <<managerVars, worldVars, cleanupVars, number, name,
                   candidate>>

(* POST /save: save_snapshot() takes the current guest, or fails.          *)
RequestSave(r) ==
    /\ Arrives(r)
    /\ call' = [call EXCEPT ![r] = "save"]
    /\ \E n \in Names : name' = [name EXCEPT ![r] = n]
    /\ candidate' = [candidate EXCEPT ![r] = guest]
    /\ Goto(r, IF guest = NoSandbox THEN "failed" ELSE "snapshotting")
    /\ UNCHANGED <<managerVars, worldVars, cleanupVars, number, origin>>

(* create_snapshot captures a sandbox that exists, or raises.              *)
CaptureSnapshot(r) ==
    /\ At(r, "snapshotting")
    /\ \/ cloud[candidate[r]] = "live" /\ Goto(r, "captured")
       \/ Goto(r, "failed")
    /\ UNCHANGED <<managerVars, worldVars, cleanupVars, requestVars>>

(* create_snapshot returns: the name is bound whatever happened to the     *)
(* guest meanwhile; the answer needs a current guest, or it is an error.   *)
RegisterSnapshot(r) ==
    /\ At(r, "captured")
    /\ snapshots' = [snapshots EXCEPT ![name[r]] = candidate[r]]
    /\ \/ /\ events' = events \cup {Event("SNAPSHOT_SAVED", candidate[r])}
          /\ Goto(r, IF guest = NoSandbox THEN "failed" ELSE "done")
       \/ /\ Fault("log_error")
          /\ Goto(r, "failed")
          /\ UNCHANGED events
    /\ UNCHANGED <<guest, stopped, pending, replace_lock, cloud, generation,
                   stop_event, proc, cleanupVars, requestVars>>

(* POST /stop: main() is told, no further guest may be published, and      *)
(* stop() waits for the lock.                                              *)
RequestStop(r) ==
    /\ Arrives(r)
    /\ call' = [call EXCEPT ![r] = "stop"]
    /\ stop_event' = TRUE
    /\ stopped' = TRUE
    /\ Goto(r, "stop_acquire")
    /\ UNCHANGED <<guest, pending, replace_lock, snapshots, cloud, generation,
                   events, proc, cleanupVars, number, origin, name, candidate>>

(* stop() has the lock: it takes the guest and everything still tracked,   *)
(* forgets both, and cleans them up one by one.  (One variant does not     *)
(* wait for the lock, another does not forget the guest.)                  *)
AcquireStopUnlocked(t) ==
    /\ At(t, "stop_acquire")
    /\ guest' = NoSandbox
    /\ pending' = {}
    /\ StartCleanup(t, (pending \cup {guest}) \ {NoSandbox},
                    IF t = Main THEN "closing" ELSE "done")
    /\ UNCHANGED <<stopped, snapshots, worldVars, requestVars>>

AcquireStopKeepingGuest(t) ==
    /\ At(t, "stop_acquire")
    /\ replace_lock = NoTask
    /\ pending' = {}
    /\ StartCleanup(t, (pending \cup {guest}) \ {NoSandbox},
                    IF t = Main THEN "closing" ELSE "done")
    /\ UNCHANGED <<guest, stopped, snapshots, worldVars, requestVars>>

AcquireStop(t) ==
    /\ At(t, "stop_acquire")
    /\ replace_lock = NoTask
    /\ guest' = NoSandbox
    /\ pending' = {}
    /\ StartCleanup(t, (pending \cup {guest}) \ {NoSandbox},
                    IF t = Main THEN "closing" ELSE "done")
    /\ UNCHANGED <<stopped, snapshots, worldVars, requestVars>>

-----------------------------------------------------------------------------
(* main() and the process.                                                 *)

(* The servers and the signal handlers are installed, or a port is taken   *)
(* and the finally block runs.                                             *)
BindServers ==
    /\ At(Main, "binding")
    /\ \/ Goto(Main, "serving") /\ UNCHANGED stopped
       \/ /\ Fault("bind_error")
          /\ stopped' = TRUE
          /\ Goto(Main, "stop_acquire")
    /\ UNCHANGED <<guest, pending, replace_lock, snapshots, worldVars,
                   cleanupVars, requestVars>>

(* stop_event.wait() returns and the finally block calls manager.stop().   *)
MainStops ==
    /\ At(Main, "serving")
    /\ stop_event
    /\ stopped' = TRUE
    /\ Goto(Main, "stop_acquire")
    /\ UNCHANGED <<guest, pending, replace_lock, snapshots, worldVars,
                   cleanupVars, requestVars>>

(* main() returns once its servers are closed, or an exception leaves it.  *)
ProcessExits ==
    /\ proc = "running"
    /\ pc[Main] \in {"closing", "failed"}
    /\ proc' = "exited"
    /\ UNCHANGED <<managerVars, cloud, generation, events, stop_event,
                   cleanupVars, requestVars, pc>>

(* SIGTERM sets stop_event once main() has installed its handlers; before  *)
(* that it ends the process at once.                                       *)
Terminate ==
    /\ proc = "running"
    /\ Fault("sigterm")
    /\ IF Installed
       THEN stop_event' = TRUE /\ UNCHANGED proc
       ELSE proc' = "killed" /\ UNCHANGED stop_event
    /\ UNCHANGED <<managerVars, cloud, generation, events, cleanupVars,
                   requestVars, pc>>

Kill ==
    /\ proc = "running"
    /\ Fault("sigkill")
    /\ proc' = "killed"
    /\ UNCHANGED <<managerVars, cloud, generation, events, stop_event,
                   cleanupVars, requestVars, pc>>

(* The sandbox reaches its SANDBOX_TIMEOUT_S, or E2B loses it.             *)
Expire(s) ==
    /\ Fault("expire")
    /\ cloud[s] = "live"
    /\ cloud' = [cloud EXCEPT ![s] = "dead"]
    /\ UNCHANGED <<managerVars, generation, events, stop_event, proc,
                   cleanupVars, requestVars, pc>>

-----------------------------------------------------------------------------
Acquire(t)   == AcquireReplace(t) \/ AcquireStop(t)
Creating(t)  == \/ CloudCreates(t) \/ CreateFails(t)
                \/ CreateReturnsNoToken(t) \/ CreateReturns(t)
                \/ GuestReady(t) \/ GuestNotReady(t)
CleaningUp(t) == KillSucceeds(t) \/ KillRetries(t) \/ KillGivesUp(t)
Saving(r)    == CaptureSnapshot(r) \/ RegisterSnapshot(r)
Request(r)   == RequestReset(r) \/ RequestSave(r) \/ RequestStop(r)
MainLoop     == BindServers \/ MainStops \/ ProcessExits

Next ==
    \/ \E t \in Tasks : Acquire(t) \/ Creating(t) \/ CleaningUp(t)
                        \/ LogWriteFails(t)
    \/ \E r \in Requests : Request(r) \/ Saving(r)
    \/ MainLoop
    \/ Terminate
    \/ Kill
    \/ \E s \in Sandboxes : Expire(s)

(* asyncio.Lock wakes its waiters first in, first out, so no waiter is     *)
(* passed over for ever (SF).  Every E2B call returns or raises within its *)
(* request timeout, _wait_ready() has a deadline, and the event loop runs  *)
(* every task that can run (WF).  Nothing forces a request to arrive, a    *)
(* signal to be sent or a fault to happen.                                 *)
Fairness ==
    /\ \A t \in Tasks : /\ SF_vars(Acquire(t))
                        /\ WF_vars(Creating(t))
                        /\ WF_vars(CleaningUp(t))
    /\ \A r \in Requests : WF_vars(Saving(r))
    /\ WF_vars(MainLoop)

Spec     == Init /\ [][Next]_vars
FairSpec == Spec /\ Fairness

-----------------------------------------------------------------------------
(* Properties.                                                             *)

(* The faults that make the relay lose sight of a sandbox: no handle to it *)
(* is left anywhere in the process.                                        *)
Blind == Faults \cap {"create_lost", "log_error"} # {}

(* The sandboxes a task answers for: the candidate of _create(), which it  *)
(* alone knows, and the ones it has been told to clean up.                 *)
HeldBy(t) ==
    (IF pc[t] \in {"created", "polling"} THEN {candidate[t]} ELSE {})
    \cup (IF pc[t] = "killing" THEN {victim[t]} \cup reap[t] ELSE {})

(* relay.py 93-250: the relay can reach every sandbox that exists, as the  *)
(* current guest, in _pending_cleanup, or through a task at work on it.    *)
(* Two replacements in one another's way or a list forgotten by stop()     *)
(* would lose one.  (Of a process that ended: as it was at its end.)       *)
EverySandboxIsOwned ==
    ~Blind => \A s \in Live : \/ s \in {guest} \cup pending
                              \/ \E t \in Tasks : s \in HeldBy(t)

(* relay.py 185-206, 237-250: no cleanup, present or queued, is aimed at   *)
(* the sandbox the proxies send requests to.                               *)
GuestIsNotCleanedUp ==
    guest # NoSandbox =>
        /\ guest \notin pending
        /\ \A t \in Tasks : guest \notin HeldBy(t)

(* relay.py 185-206: the replacement is made before the old guest goes, so *)
(* two sandboxes may exist; the lock sees to it that a third exists only   *)
(* when its failed cleanup is on record.                                   *)
AtMostTwoSandboxes ==
    ~Blind => Cardinality(Live \ Logged("SANDBOX_CLEANUP_FAILED")) <= 2

(* relay.py 130-141, 195-196, 215-217: what requests and snapshots are     *)
(* taken from has answered /screen_size, and is on record as ready.        *)
ServedGuestsAreReady ==
    {guest} \cup {snapshots[n] : n \in Names}
        \subseteq Logged("SANDBOX_READY") \cup {NoSandbox}

(* relay.py 147-148: a SANDBOX_CLEANED line is never written for a sandbox *)
(* that exists, nor does the sandbox come back after it.                   *)
CleanedIsGone == Logged("SANDBOX_CLEANED") \cap Live = {}

(* runner/campaign.py 48-69: what the campaign concludes from the log.  (A *)
(* variant is content with any cleanup.)                                   *)
CleanupStatusOfAny ==
    IF Logged("SANDBOX_CLEANUP_FAILED") # {} THEN "failed"
    ELSE IF Logged("SANDBOX_CLEANED") # {} THEN "success" ELSE "not_observed"

CleanupStatus ==
    IF Logged("SANDBOX_CLEANUP_FAILED") # {} THEN "failed"
    ELSE IF /\ Logged("SANDBOX_CLEANED") # {}
            /\ Logged("SANDBOX_CREATED") \subseteq Logged("SANDBOX_CLEANED")
         THEN "success"
         ELSE "not_observed"

(* The log is read after the relay is gone, however it went: the verdict   *)
(* "success" must mean that the attempt left no sandbox behind.            *)
SuccessMeansNoSandbox ==
    CleanupStatus = "success" /\ ~Blind => Live = {}

(* relay.py 237-250, 413-417: when /stop is answered, or the process comes *)
(* to its end in order, each sandbox it made is gone or its failed cleanup *)
(* is on record.                                                           *)
Accounted == Live \subseteq Logged("SANDBOX_CLEANUP_FAILED")
StopAccounts ==
    ~Blind /\ ( \/ proc = "exited"
                \/ \E r \in Requests : call[r] = "stop" /\ pc[r] = "done" )
        => Accounted

(* docs/FIDELITY.md:59-60 "Shutdown always attempts relay and sandbox      *)
(* cleanup and records failure separately."  (Violated when the event log  *)
(* cannot be written between creation and publication.)                    *)
ShutdownCleansUp == proc = "exited" => Accounted

(* relay.py 188-196: the current guest changes only to one that is one     *)
(* generation younger, or to none because the manager was stopped; a       *)
(* failed replacement leaves it, and nothing is published after a stop.    *)
GuestChangesInOrder ==
    [][guest' # guest =>
         IF guest' = NoSandbox THEN stopped
         ELSE ~stopped /\ generation[guest'] = NextGeneration]_vars

(* relay.py 185-206, 237-250: a control request that was received is       *)
(* answered, or the process ends; nobody waits for the lock for ever.      *)
RequestsAreAnswered ==
    \A r \in Requests :
        (pc[r] # "idle") ~> (pc[r] \in {"done", "failed"} \/ proc # "running")

(* relay.py 413-417, 453-456: once a stop was asked for, the process ends. *)
StopEndsTheProcess == stop_event ~> (proc # "running")

-----------------------------------------------------------------------------
(* The inductive invariant behind the safety properties.                   *)

(* A local variable holds what the step that uses it expects.              *)
LocalsDefined ==
    \A t \in Tasks :
        /\ pc[t] \in {"created", "polling", "snapshotting", "captured"}
               => candidate[t] \in Sandboxes
        /\ pc[t] = "killing" => victim[t] \in Sandboxes \ reap[t]
        /\ pc[t] \in {"snapshotting", "captured"} => name[t] \in Names

(* _replace_lock is held by the one task inside a block it protects.       *)
LockIsHeld == \A t \in Tasks : pc[t] \in Holding <=> replace_lock = t

(* Nobody else answers for a sandbox that is served, tracked or held.      *)
OwnersAreApart ==
    /\ guest \notin pending
    /\ \A t \in Tasks : HeldBy(t) \cap ({guest} \cup pending) = {}

(* A sandbox someone answers for was created, and is not on record as      *)
(* cleaned; one that is on record as cleaned is gone.                      *)
OwnedAreNotCleaned ==
    /\ \A s \in {guest} \cup pending :
         s # NoSandbox => cloud[s] # "unused" /\ s \notin Logged("SANDBOX_CLEANED")
    /\ \A t \in Tasks : \A s \in HeldBy(t) :
         cloud[s] # "unused" /\ s \notin Logged("SANDBOX_CLEANED")
    /\ \A s \in Logged("SANDBOX_CLEANED") : cloud[s] = "dead"

IInv == /\ TypeOK
        /\ LocalsDefined
        /\ LockIsHeld
        /\ OwnersAreApart
        /\ OwnedAreNotCleaned
        /\ EverySandboxIsOwned

(* What the order of the guests and their readiness rest on: a task inside *)
(* _create() carries the number that follows the current guest's, and so   *)
(* does its candidate; a task that waits to stop has closed the manager;   *)
(* a snapshot under way is of a guest that was ready.                      *)
TasksInv ==
    \A t \in Tasks :
        /\ pc[t] = "stop_acquire" => stopped
        /\ pc[t] \in Replacing => number[t] = NextGeneration
        /\ pc[t] \in {"created", "polling"} => generation[candidate[t]] = number[t]
        /\ pc[t] \in {"snapshotting", "captured"}
               => candidate[t] \in Logged("SANDBOX_READY")

GuestsInv == ServedGuestsAreReady /\ TasksInv

-----------------------------------------------------------------------------
(* The refinement mapping: the lock's holder tells what is under way.      *)
Underway(labels) == replace_lock # NoTask /\ pc[replace_lock] \in labels

Lease == INSTANCE SandboxLease WITH
    asked   <- Underway({"creating"}),
    making  <- IF Underway({"created", "polling"})
               THEN candidate[replace_lock] ELSE NoSandbox,
    serving <- guest,
    doomed  <- pending \cup IF Underway({"killing"}) THEN HeldBy(replace_lock)
                            ELSE {},
    gone    <- Logged("SANDBOX_CLEANED"),
    closed  <- stopped

(* relay.py 93-250: without the faults that make the relay lose sight of a *)
(* sandbox, its locks, tasks, retries and checks amount to SandboxLease.   *)
ImplementsLease == Lease!Spec
=============================================================================
