# Verification of the OSWorld/E2B adapter

TLA+ models of the parts of this repository that keep state across failures and
interleavings: the relay that owns E2B sandboxes (`realkit/relay.py`), the
provider that runs the relay (`realkit/provider.py`), the ledger of a run
(`realkit/results.py`), the campaign coordinator (`runner/campaign.py`), and the
programs around them: the control server inside a guest
(`template/files/server/main.py`), a browser session through the two proxies,
the checkout that `setup.sh` prepares, and the validation of `validate.sh` and
`realkit/harness.py`. TLC checks small instances; TLAPS proves the safety
properties and the two refinements for every instance.

## Inventory

| Part | State | Operations | Hard behaviour | What makes it correct |
|---|---|---|---|---|
| Relay: `GuestManager`, control server, `main()` (`relay.py` 48-250, 375-457) | current guest, `_stopped`, `_pending_cleanup`, `_replace_lock`, snapshot names, event log | `/reset`, `/save`, `/stop`, first create, shutdown, SIGTERM | replacements, stops and kills interleave at every `await`; kills are retried; replies and log lines are lost; the process is killed | no sandbox is forgotten; the served guest is never cleaned up; the log tells the truth; every request ends |
| Relay: proxies (257-372) and Chrome bridge (`cdp_hostfix.py`) | one guest per HTTP/WebSocket session; two connections and two pumps per hop | forward, pump, CDP rewriting | the guest is replaced under a session; either end closes or vanishes while the other waits; the proxy answers in the guest's place | a session uses one guest only, loses nothing that was sent before an orderly close, and ends on both sides |
| Provider (`provider.py`) | relay process, ports, streams | `start_emulator`, `revert_to_snapshot`, `save_state`, `stop_emulator` | answers that come after the timeout; a relay that dies or does not stop | no relay is left behind; an answered stop loses nothing |
| Run ledger (`results.py`) | `run.json`, `attempts.jsonl`, `aggregate.json` | `create`, `open`, `append`, `resume_candidates`, `aggregate` | crashes between and inside writes | events of an attempt in order; attempts in order; a valid verdict is final |
| Coordinator (`campaign.py`) | children, semaphore, active and most-active counters | schedule, launch, watch, time out, cancel, judge, refresh | asyncio cancellation meets timeouts, failures, exits; crashes and resumes | a valid verdict is earned; caps hold; sessions end; everything is accounted for |
| Ports (`ports.py`) | ports issued by this process | `reserve_port_bundle` | a port is free when chosen and bound later, by another process | bundles of live relays are disjoint |
| Checkout (`setup.sh`, `patch_upstream.py`, `profile.py`, `runtime.py`) | files of the OSWorld checkout | restore, check out, submodules, verify, patch, copy, sync, inspect | a failing step, a run cut short, a second run, a change of profile, an edit by the user | "Done" means prepared; a half patch has a cut as its cause; setup refuses for a cause |
| Guest server (`template/files/server/main.py`) | the recording process, the output file, uploaded and downloaded files, running programs | start/end recording, upload, download, read, execute, run scripts, screenshot and desktop calls | threads share globals and files; a caller that was told 502 or 504 goes on while the handler does | the handed video is the last one and over; an answer is true of the file; who is told how a program ended need not reckon with what it started |
| Contract, preflight, runtime, policy (`contract.py`, `preflight.py`, `runtime.py`, `e2b_policy.py`) | none | validate, compare, plan | boundary values | accepts what the documents say |
| Validation (`validate.sh`, `harness.py`) | the script's step, exit status and relay pid; the harness's records | launch a relay, poll its health, run the tasks, stop, repeat; the trap for signals | signals at any step, a trap that goes on, exceptions out of a task, fixed ports | exit status 0 means that every task of every run passed; one relay at a time |
| Smoke, samples, template build, repository scripts | none of their own | fixed sequences | - | - |

How they interact: the coordinator launches one runner process per attempt
(child process, exit status, result file). The runner's DesktopEnv owns one
provider, which launches one relay (child process, HTTP with timeouts,
signals). The relay calls E2B (remote calls that fail or whose replies are lost)
and writes an event log, which the coordinator reads after the runner is gone to
decide whether the attempt cleaned up. The relay forwards requests to the guest's
server and browser sessions to the guest's Chrome. A validation starts one more
relay on fixed ports beside those of its environments. `setup.sh` prepares the
checkout that all of them run in. Nothing but these files, requests and signals
is shared.

## Modules

| Module | Models | Role |
|---|---|---|
| `SandboxLease` | - | what the relay promises about sandboxes, without locks, tasks or retries |
| `GuestManager` | `relay.py` 48-250, 375-457 | the relay process; implements `SandboxLease` |
| `GuestManagerProofs` | - | theorems about `GuestManager`: ownership of sandboxes |
| `GuestManagerGuests` | - | theorems about `GuestManager`: the guests it serves, what its log says, the refinement of `SandboxLease` |
| `E2BProvider` | `provider.py` 58-183 | the provider and its relays; uses `SandboxLease` for the sandboxes of a relay |
| `E2BProviderProofs` | - | theorems about `E2BProvider` |
| `RunLedger` | `results.py` | the readers and the one writer of `attempts.jsonl`, as operators |
| `AttemptLifecycle` | - | what a campaign promises about the attempts of a task |
| `Campaign` | `campaign.py` 72-95, 111-331 | the coordinator, on `RunLedger`; implements `AttemptLifecycle` |
| `CampaignProofs` | - | theorems about `Campaign` and the refinement |
| `GuestRecorder`, `GuestRecorderProofs` | `main.py` 1505-1582 | the recording handlers of a guest |
| `GuestJobs`, `GuestJobsProofs` | `main.py` 78-262, 1140-1293, 1585-1799 | transfers, reads and programs of a guest |
| `CdpSession`, `CdpSessionProofs` | `relay.py` 257-372, `cdp_hostfix.py` | a browser session over two proxies |
| `CheckoutSetup` | `setup.sh`, `patch_upstream.py`, `profile.py`, `runtime.py` | the checkout, set up again and again |
| `ValidationRun` | `validate.sh`, `harness.py` | a validation and its relays on the fixed ports |
| `ScriptProofs` | - | theorems about `CheckoutSetup` and `ValidationRun` |
| `MCSurroundings` | - | these five modules side by side, for one run of TLC |
| `MC...` | - | symmetry sets for TLC |

Some definitions stand next to a variant of themselves ("a variant does not wait
for the lock"). The variants are plausible mistakes; substituting one for the
definition must make a property fail, which shows that the property can.

### GuestManager

A task is `Main` or a control request. An action is the code from one `await`
to the next, since the relay is one asyncio event loop; `pc[t]` says which
`await` a task is at. `_lock` is held over no `await` and needs no variable;
`_replace_lock` is `replace_lock`. `_create()` is the labels "creating" (the
request is on its way), "created" (E2B has made the sandbox, the reply is on its
way) and "polling" (`_wait_ready`). `_cleanup_or_track()` is the label "killing"
with the locals `victim`, `attempt`, the rest `reap` of the list that `stop()`
walks, and `after`, where the task goes when it is over.

`Faults` selects what may go wrong: E2B calls that raise with or without effect,
a missing token, a guest that never answers, a log that cannot be written, a
taken port, sandboxes that end by themselves, SIGTERM, SIGKILL. `create_lost` and
`log_error` are the two faults after which no reference to a sandbox exists
("Blind"): the properties about ownership are stated without them, and the
`log_error` case is the subject of a violation run.

### E2BProvider

The relay here is `SandboxLease` plus the process around it (booting, serving,
stopping, dead), the two kinds of log line that matter, and one control request.
This is sound for the lease because `GuestManager` implements it. The guards that
the relay adds (`Retires` waits until all cleanups are over or recorded,
`Publishes` needs the creation on record) are those of `GuestManager`, where
`replace_lock` enforces them. The model has no clock: a timeout may fire
at any time the provider waits.

### RunLedger and Campaign

Every reader of `attempts.jsonl` looks at the lines of one task and attempt at a
time, so the file is `file[t][a]`, a sequence of events per attempt; a verdict is
"valid" or the reason it is invalid. A torn last line is the flag `torn`, since
the only thing any reader does with one is raise.
An append that raises on a full disk has written nothing, part of a line, or all
of it before the aggregate failed.

The coordinator is one event loop; an action is the code of a child from one
`await` to the next. Cancellation follows asyncio: `gather` hands on the first
exception of a child, the handler cancels all children, a SIGINT cancels the
children through the `gather`; a cancellation is a flag that the child meets at
its `await`, and inside `_terminate()` nothing catches it. A second coordinator
process continues from the files; the runner processes survive their
coordinator. The runner and its relay are external: a runner exits with or
without 0, leaves some result, and its relay's log shows "success", "failed"
or neither ("left").

### GuestRecorder

`main.py` keeps the running ffmpeg in a module global, and one thread per
request reads that global again at every use. `process` is the global; a step of
a handler is the code between two reads of it, or between two system calls that
another thread can come between, and `calls[c].at` names the step. A recorder is
named by the request that started it. `/start_recording` looks at the global,
removes the old file, starts ffmpeg, waits and looks again whether it is still
there (`check`, `remove`, `popen`, `wait`, `settle`); `/end_recording` sends
SIGINT, drains the pipe with `communicate()` and a timeout, kills what did not
obey, and serves the file. A recorder that is gone at the second look has its
stderr read to the end (`read`, 1540), a killed one is collected with a second
`communicate()` (`collect`, `reap`, 1568). Both read the global again, neither
has a timeout; `on` is the recorder that the handler then waits for, and a
handler that finds the global empty answers with an error before it clears
anything. `deaf` are the recorders that hang, `full` those blocked on the stderr
pipe that nobody reads while they record.

The one caller of a guest sends a request when it has the answer to the last.
The relay may answer 502 or 504 in the guest's place (`relay.py` 336-370), and
that is how two handlers come to overlap: `answer = "lost"`. The three safety
properties are about callers that got every answer (`NothingLost`); without that
condition they are false, since line 1566 reads the global again and stops the
successor's recorder. `RecordingCallsEnd` needs no such condition and names its
exception: `WaitsOnAnother` is a handler that has read the global of a request
sent behind a lost answer, and waits without a timeout for that one's recorder.

### GuestJobs

The same server's uploads, downloads (three tries each, removal of what was
written when one fails), reads, and the handlers that run a program: plain
commands, commands verified afterwards, Python and bash scripts with their file
in `/tmp`, and launched applications, which are left to themselves. A file is
who wrote it last and whether all of it is there. As above, a lost answer makes
handlers overlap; `alone` remembers whether a transfer had its path for itself.

A download compares the size of its file with the announced one only if one was
announced, so `announced` is chosen when the connection opens: nothing, the size,
or the size of a compressed body, which no try can satisfy. A torn download is
reported as good when nothing was announced, and `TransfersAreToldAsTheyAre` says
that there, and only there, an undisturbed one is.

A program is the process that the guest starts and its `offspring`: what a shell
or a script runs, which holds the output pipes (`attached`) or has others.
`subprocess.run` returns when the process is over and the output has ended, and on
a timeout kills the process alone. So a command may run on behind an answer, but
then the answer was an error or was lost (`WhatRunsOnIsTold`).

### CdpSession

A browser session runs over two proxies of the same make, the relay and, inside
the guest, `cdp_hostfix.py`: client, link 1, hop 1, link 2, hop 2, link 3,
Chrome. A hop accepts a link, connects the next, pumps both ways with two tasks,
and when the first of them ends cancels the other and closes both links
(`FirstCompleted`, `ClosesUpstream`, `ClosesDownstream`). A closing frame travels
behind what was sent before it; a lost connection takes what is on it along.
`GuestIsKilled` is a reset of the relay: hop 2 and Chrome are gone.

### CheckoutSetup

`setup.sh` step by step: clone, restore the owned files, remove the copies,
fetch, check out, update submodules, verify the profile, patch, copy, sync,
inspect. `owned[f]` says of which commit an owned file is and whether it is
pristine, patched or edited. A step fails and ends the run (`set -e`); a run is
cut short anywhere, also inside a checkout or a write; the next run is for the
same profile or another; in between the user edits files, and campaigns run.
The text of the transforms is abstracted to whether their anchors fit the commit
(`Supported`).

Three refusals do not come from the run's own profile or the user. A campaign
leaves bytecode under `desktop_env/evaluators`, which git ignores and the digest of
`profile.py` 64-72 takes in (`cached`). A run that is refused for an unsupported
profile leaves that commit checked out; if it lacks an owned file (`TrackedIn`) or
has a `desktop_env/providers/e2b` of its own (`Carrying`), `--restore-owned` fails
there from then on (`Unrestorable`). `RefusedForACause` lists them with the others.

### ValidationRun

`validate.sh` launches a relay on fixed ports, polls its health, runs the
harness, stops the relay and waits for it, `RUNS` times over. The trap for INT
and TERM cleans up and then goes on where the script was, which is what `back`
and the repeated `CleanUp` say; `relay_pid=$!` is a step of its own. The harness
is its tasks, their statuses, and the ways out of it: an exception inside
`run_task`, which becomes a record, one outside it, which ends the loop, and a
kill. The relay `Leftover` is one that an earlier, killed validation may have left
on the ports.

## Runs

| Run | Instance | Shows |
|---|---|---|
| `guest_manager_safety` | 3 sandboxes, 3 requests, 1 name, 2 kill attempts, all faults but the blind ones | the safety properties and the refinement of `SandboxLease` |
| `guest_manager_liveness` | 3 sandboxes, 2 requests, faults `create_lost`, `kill_error`, `log_error` | requests are answered, a stop ends the process |
| `campaign_safety` | 2 tasks, 2 places, 2 attempts, 2 sessions, disk errors, SIGINT, kill | valid verdicts are earned and stay so, order of the ledger, no verdict on a live runner, what "returned" means, the parallelism remembered |
| `campaign_retries` | 1 task, 3 attempts, 4 sessions, all results, failed launches, torn lines, SIGINT, kill | the refinement of `AttemptLifecycle` |
| `campaign_liveness` | 2 tasks, 1 place, 1 session, all faults | sessions end; the cap |
| `provider_safety` | 4 sandboxes, 2 relay processes | no relay left, an answered stop loses nothing, "success" is true |
| `surroundings` | `GuestRecorder`: 3 requests, 1 lost answer. `GuestJobs`: 2 requests, 1 path. `CdpSession`: 2 messages from each end. `CheckoutSetup`: 4 commits, 2 of them supported, 2 owned files. `ValidationRun`: 2 runs, 2 tasks, 2 signals | recordings, transfers, programs, browser sessions, setups and validations: the eleven safety properties of these modules, that recording requests end and that sessions end on both sides |

Why the bounds are enough. Three sandboxes are needed to overlap two
replacements with a candidate that fails, three requests to have a replacement, a
second one queued and a stop; two kill attempts give a retry and a last attempt.
In the campaign two tasks with two places give a child that fails or is cancelled
beside one that is not; with one place the second waits; three attempts and four
sessions reach the limit of attempts and go beyond it. Two relays are the least that share an event log. Tasks,
requests and sandboxes are interchangeable, and the runs of safety properties use
that symmetry. Deadlock checking is off because the relay, a campaign after its
last session, a provider without relays left to start, and the programs of
`surroundings` once their requests are over do stop.

`surroundings` checks five modules that share no state in one run. `part` says
which of them moves; the others keep their initial state, so the states visited
are the sum of the five state spaces and not their product. Every property is
one of a single part, and holds of the whole as it does of the part. Three
recording requests are a start, an end and the start that finds what the end
left; one lost answer makes any two of them overlap; two transfers or programs
are one and what it must not disturb. Two messages from each end let one be on
its way while the other is pumped. Four commits give a profile, another one, one that
lacks an owned file, and one that carries the adapter's directory. Two validations and two signals give a trap during
the cleanup of a trap, and a relay of the first run that the second could meet.

The safety and liveness runs pass. The following runs each check one sentence of
the documents that the code does not keep, and fail with a short trace:

| Run | Sentence | What the code does |
|---|---|---|
| `guest_manager_log_fault` | FIDELITY.md:59 | a log line that cannot be written between creation and publication leaves the sandbox alive and unknown |
| `provider_stop` | design 2026-09-03:33 | a stop during a replacement ends in SIGKILL and loses a sandbox |
| `campaign_replan` | README.md:39 | an attempt planned and not started is offered again and refused, in every later session |
| `setup_rerun` | setup.sh:4, runner/README.md:19 | a checkout that is prepared and in which a campaign has run is refused to its own profile, with the adapter already taken out |
| `campaign_survivors` | plan 2026-09-03:291 | one SIGINT leaves a runner up that ignores SIGTERM, without an `interrupted` line |

The trace of `setup_rerun` is a whole setup, a campaign, and the
same setup again, whose `profile.py verify` finds the bytecode. The way out is to
remove it by hand; nothing in the repository says so.

The models also contain, without a run of their own: a crash inside
`RunLedger.create()`, after which the run id cannot be used again
(`StartRaises`); the sandbox of a killed runner, which lives on while the next
task starts (`sandbox[t] = "left"`); and the two sandboxes that one relay has
during every reset (`AtMostTwoSandboxes`).

`campaign_survivors` depends on a detail of asyncio: a cancelled `gather` ends
with its first cancelled child, and the handler of line 318 then cancels the
others again, at their `await` inside `_terminate()`.

## Fairness

`GuestManager`: weak fairness of every task's own steps, because each E2B call
has a request timeout, `_wait_ready` a deadline, and the event loop runs what is
ready. Strong fairness of acquiring `_replace_lock`, because `asyncio.Lock` wakes
its waiters in order. No request, signal or fault has to happen.

`Campaign`: weak fairness of every child and of the handler around the `gather`,
because `wait_for` has timeouts that fire. Runners need not exit.

`GuestRecorder`: weak fairness of every handler, since the server gives each
request a thread, and of ending for a recorder that was interrupted and is not
deaf. A recorder that is deaf never ends by itself, and no request has to come.

`CdpSession`: weak fairness of both proxies, and of the two ends reading what has
arrived and answering the end of their link. Nobody has to send or to close, and
no guest has to be killed: `SessionsEndTogether` starts when an end has left.

The other modules have safety properties only. In particular nothing is claimed
about the end of `validate.sh`: a trap that meets a relay which does not listen
yet loses its `/stop`, and the script then waits for a relay that nobody stops.

## Proofs

The proof modules state their results for all values of the constants: any
sandboxes, requests, tasks, commits, files and paths, any bounds, and any set of
faults. They use the modules' named assumptions (`KillAttemptsAssumption`,
`FaultsAssumption`, `IdentityAssumption`, `MaxRelaysAssumption`,
`NoSandboxAssumption`, `ResultsAssumption`, `MaxAttemptsAssumption`,
`NumEnvsAssumption`, `MaxSessionsAssumption`, `TasksAssumption`,
`CheckoutAssumption`, `ValidationAssumption`, `JobsAssumption`,
`RecordingAssumption`, `SessionAssumption`), which say that a bound is a
natural number, that a choice is one of the known kinds, that "none" is not a
member of the set it is none of, that there is a path or an owned file, and that
the tasks of a manifest are finitely many.

| Module | Theorem | Property |
|---|---|---|
| `GuestManagerProofs` | `Invariance` | `IInv`, the inductive invariant |
| | `TypeCorrectness` | `TypeOK` |
| | `NoSandboxIsForgotten` | `EverySandboxIsOwned` |
| | `ServedGuestIsSafe` | `GuestIsNotCleanedUp` |
| | `CleanedStaysGone` | `CleanedIsGone` |
| `GuestManagerGuests` | `GuestsInvariance` | `GuestsInv`, inductive together with `IInv` |
| | `OnlyReadyGuestsAreServed` | `ServedGuestsAreReady` |
| | `GuestsFollowInOrder` | `GuestChangesInOrder` |
| | `RecordInvariance` | `RecordInv`, unless `Blind` |
| | `SuccessLeavesNothing` | `SuccessMeansNoSandbox` |
| | `StopAccountsForAll` | `StopAccounts` |
| | `NeverAThirdSandbox` | `AtMostTwoSandboxes` |
| | `RefinesLease` | `ImplementsLease`, for faults that leave it not `Blind` |
| `CampaignProofs` | `CampaignInvariance` | `CampaignInv`, the inductive invariant |
| | `ValidStaysEarned` | `ValidIsEarned` |
| | `AttemptsStayInOrder` | `AttemptsInOrder` |
| | `VerdictsComeLast` | `VerdictAfterTheEnd` |
| | `RefinesLifecycle` | `ImplementsLifecycle` |
| | `SessionInvariance` | `SessionInv`: `CampaignInv` with `CountInv`, `CapInv`, `AccountInv` |
| | `CampaignTypeCorrectness` | `TypeOK` |
| | `RunnersStayWithinCap` | `RunnersWithinCap` |
| | `ParallelismStaysRemembered` | `ParallelismIsRemembered` |
| | `ReturnedStaysAccounted` | `ReturnedIsAccounted` |
| `E2BProviderProofs` | `ProviderInvariance` | `ProviderInv`, the inductive invariant |
| | `ProviderTypeCorrectness` | `TypeOK` |
| | `HandleCoversRelay` | `NoRelayIsLeft` |
| | `SuccessIsTrue` | `SuccessMeansNothingLost` |
| | `AnswerIsSafe` | `AnsweredLosesNothing` |
| `ScriptProofs` | `SetupInvariance` | `SetupInv`, the inductive invariant |
| | `DoneIsPrepared` | `DoneMeansPrepared` |
| | `PatchIsWhole` | `OnlyACutLeavesHalfAPatch` |
| | `RefusalHasACause` | `RefusedForACause` |
| | `ValidationInvariance` | `ValidationInv`, the inductive invariant |
| | `ZeroIsEarned` | `ZeroMeansAllPassed` |
| | `RelaysNeverOverlap` | `OneRelayAtATime` |
| `GuestJobsProofs` | `JobsInvariance` | `JobsInv`, the inductive invariant |
| | `TransfersAreTold` | `TransfersAreToldAsTheyAre` |
| | `StraysAreTold` | `WhatRunsOnIsTold` |
| `GuestRecorderProofs` | `RecorderInvariance` | `RecorderInv`, the inductive invariant |
| | `RecorderIsKnown` | `RunningRecorderIsKnown` |
| | `VideoIsTheLast` | `HandedVideoIsTheLastAndOver` |
| | `KillsAreCalledFor` | `OnlyADeafRecorderIsKilled` |
| `CdpSessionProofs` | `SessionTravel` | `TravelInv`, the inductive invariant |
| | `SessionTypeCorrectness` | `SessionTypeOK` |
| | `ClosingIsClean` | `ClosingLosesNothing` |

### The relay

None of the first three safety properties is inductive. That a cleanup spares the guest
depends on the candidate of a replacement being held by one task only, hence on
the lock, hence on the labels at which a task holds it (`LockIsHeld`); that a
cleaned sandbox stays gone depends on nobody answering for it any more
(`OwnedAreNotCleaned`); that no sandbox is forgotten depends on the locals being
defined at the labels that use them (`LocalsDefined`) and on the owners being
disjoint (`OwnersAreApart`), since a kill takes its victim from all of them.
`IInv` is the conjunction; `guest_manager_safety` checks it, and `GuestsInv`, too.

`QuietStep` covers the steps that move no sandbox, `HandOver` those that do:
ownership passes between the guest, the tracked sandboxes and the one task in the
lock's block, and nothing that exists is dropped. `CleanupStep` is `HandOver` for
the steps that end in `StartCleanup`. `InvariantStep` then takes the actions one
by one.

The generation of a new guest is computed when a replacement gets the lock and
used when it publishes, two awaits later. `TasksInv` says that it is still the
current guest's successor: the guest changes only under the lock (`LockIsHeld`),
so nobody else is inside `_create()` then (`TasksHandOver`), and E2B never gives
out the guest's own sandbox again (`OwnedAreNotCleaned`). The order of guests
follows in `GuestsFollowInOrder` because the two actions that change the guest
(`GuestStep`) are a publication, whose candidate carries that number, and a stop,
which has set `_stopped` before it waits. Readiness follows because a candidate
is logged as ready in the step that publishes it and a snapshot is of a guest
that was served. The log only grows, so what is ready stays so.

What the log says is `RecordInv`, on top of both. `HoldersInv` relates each
sandbox that a task, the pending list or the guest holds to its lines: a tracked
one has a failed cleanup on record, a guest its creation. `LifeInv` relates the
places of the tasks to the life of the process (`Starting`, `Shut`, `Over`): once
it is shut nobody replaces any more and there is no guest, and once it is over
nobody holds a sandbox whose failure is not on record. From it follow
`SuccessLeavesNothing` and `StopAccountsForAll`; `NeverAThirdSandbox` counts the
owners that `IInv` keeps apart. `RefinesLease` maps every action to one of
`SandboxLease` or to a stutter. All four need that no reference to a sandbox was
ever lost (`~Blind`), which the refinement needs of the set of faults.

### The campaign

`CampaignInv` ties four things together: the lines of an attempt, which are one
of `Lines`, with those before it all `Superseded`; the place of the child that
works on it; the runner, which is up only for an attempt that was begun and not
judged; and the result and cleanup that a judgement under way has read. A valid
line is earned because the child reads result and log after the runner is gone
and nothing starts a runner of that task until the line is written, also in a
session that follows a crash. Each action is shown to keep every part, by what
it appends. `RefinesLifecycle` then needs only which line a step may add.

The other four theorems are about the session around these lines. `Stepped`
says what a step of a child amounts to for them: it enters the semaphore, launches
a runner, gives up waiting, goes on, or leaves, and touches no other child
(`Entered`, `Launched`, `GaveUp`, `WentOn`, `Left`). Every action of a child is
shown to be one of these once, and the three invariants are shown to survive each
kind, with `StepCounts` for the difference it makes to a number of children.
`CountInv` says that no more children are inside the semaphore than it has
places, that `active` is the number of those that watch a runner, and that
`max_seen` is at least that; it needs that a `finally` runs once on every way out, cancellation
included. `CapInv` is why the cap is one of runners too: unless a session is
being stopped, a runner that is up belongs to a child inside the semaphore or to
one that failed, and while it is stopped nobody enters, since everyone who waits
is cancelled. It holds of a first session only; a coordinator that follows a
crash finds runners it does not count. `AccountInv` says that a child that is
done, and a task that the session found nothing to do for, is settled: its latest
attempt has a verdict or was the last one allowed.

### The provider

That a provider without a handle has no relay running is inductive
(`HandleInv`). An answered `/stop` loses nothing because the relay has then
nothing left that is not on record (`StopInv`), and nothing it does afterwards
gives it anything (`LeaseInv`: each sandbox is in one place, none in a dead
relay). `SuccessIsTrue` depends on the order of a replacement: `LogInv` says that
while a sandbox exists that is not yet in the log, the guest before it is still
there, or nothing has been cleaned up yet, so that the log does not say success.

### The programs around them

`SetupInv` says for each step of `setup.sh` what the run knows of the checkout
at that step (`ProgressInv`, `OwnedInv`); nothing is assumed of the state that
earlier runs left, and a run therefore has to establish all that "Done"
promises. `ValidationInv` follows the script through its traps: `Place` is where
it is, cleanups aside; a relay that runs is the current run's and the script
waits for its end before it goes on (`RelaysInv`); the harness ends without an
exception only after the last task (`HarnessInv`); and the status stays 0 only
while all runs so far passed (`OverallInv`). `JobsInv` says which step fits
which request and its processes (`StepFits`), that an undisturbed transfer stays
undisturbed (`OrderFits`), and that the latest one finds its file as it left it
(`FileFits`). `RecorderInv` says what a handler may rely on between two reads of
the global while no answer was lost (`AloneInv`), and why: handlers then run one
after the other (`OrderInv`).

### The browser session

That closing loses nothing is about what six queues hold together. `Flow` says it
of one direction: what was received, followed by the messages on the nearest, the
middle and the farthest link, are the numbers 1 to n, and a closing frame is the
last thing on its link. Sending, receiving and pumping keep it (`FlowSends`,
`FlowReceives`, `FlowPumpsOut`, `FlowPumpsIn`, `FlowCloses`). `UpInv` and
`DownInv` add who shut which link, and that a proxy is past a link only when that
link is shut and empty, unless the other end has left. The two directions need
each other here, because a proxy stops both pumps when one of them ends: the pump
towards Chrome is cancelled only after the one towards the client has ended, and
then Chrome, or the proxy next to it, has closed, for which it had to be past its
own link. All this holds while both ends and both proxies are there (`Alive`);
`PathInv` says how far the handlers and links are, and that `Alive`, once lost,
stays lost. An end that reads a closing frame finds its link empty, hence the one
behind it, hence the third, and has received everything.

### A caution about sequences

The SMT encoding of tlapm 1.4.5 states, in every obligation that mentions `Seq`
or `Len`, that the domain of any function is `1..Len` of it. That is false of a
function on another set, and contradicts itself for one on `0..n`. In
`ValidationRun` the relays are therefore numbered from 1, so that every function
there is a sequence and the axiom is true of it, and so are hops and links in
`CdpSession`. In `Campaign`, whose functions are on `Tasks`, and where
`CdpSession` has functions on the two directions, no leaf depends on it: the
proofs also pass with the axiom weakened to what TLA+ says. The other modules do
not mention sequences in what the SMT solver sees. (The backend also fails on a
string with a space in it, hence the underscores in the places of a hop.)

### Only model-checked

Every liveness property, since fairness and ENABLED are outside the prover:
`RequestsAreAnswered`, `StopEndsTheProcess`, `SessionsEnd`, `RecordingCallsEnd`
and `SessionsEndTogether`.
Every safety property that a passing run checks is also a theorem.

## Not modelled

Of the modelled parts: the contents of requests, results, artifacts and rewards;
the clock; argument and identity checks of a campaign, including the resumption
of a run whose identity differs (`campaign.py` checks its arguments before any
state exists); a second SIGINT in one session; a failing write of
`aggregate.json` by the final refresh; the health endpoint and logging; the
provider's `save_state()`, whose answer it only logs; the rewriting of headers
and of browser addresses in the proxies; the text of the transforms of
`patch_upstream.py`.

Of the guest server: the handlers of the desktop (screenshot, accessibility tree,
windows, wallpaper, directory listing), which read or set the desktop and keep
nothing, except that screenshots share one file (`main.py` 267); what becomes of
the commands that `subprocess.run` left running.

Of the validation: `VALIDATION_RUNS=0`, which validates nothing and exits with 0,
and that the script ends, see "Fairness". Nor which sandbox a record names: the
harness asks the relay on the fixed port (`harness.py` 65-67, 111), while the task
was served by the environment's own relay (FIDELITY.md 56-57).

Not at all: two coordinators on one run directory, which nothing locks; ports
chosen by two processes at once (`ports.py` 23); the fleet manager and the
template policy, the contract, the preflight, `smoke.py`, `snapshot_probe.py` and
`minimax_sample.py`, the template build and the repository policies, which keep
no state between calls. `PROJECT.json` lists the components with the reasons.

## Plan

Done, in this order: `SandboxLease`, `GuestManager` and its first theorems;
`E2BProvider`; `RunLedger`, `AttemptLifecycle`, `Campaign`; `GuestRecorder`,
`GuestJobs`, `CdpSession`, `CheckoutSetup`, `ValidationRun`; the proofs of all
safety properties of the runs, and of both refinements.

What is left, by what it would add:

1. Ports of several processes: a module of `reserve_port_bundle()` in two runner
   processes, with the relay's bind long after the choice.
2. Two writers on one `RunLedger`, each a read followed by a write.
3. Snapshots across relay restarts in `E2BProvider`: a saved name that a new
   relay does not know silently means the template.
4. The contract's comparison as operators against a reference definition.
