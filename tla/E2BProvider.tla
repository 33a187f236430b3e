----------------------------- MODULE E2BProvider -----------------------------
(***************************************************************************)
(* realkit/provider.py: the E2BProvider of one DesktopEnv, which runs in   *)
(* the task's runner process, and the relay process it starts, drives over *)
(* HTTP and stops.  DesktopEnv (upstream) makes one provider call at a     *)
(* time; any order of calls is allowed.                                    *)
(*                                                                         *)
(* The relay is used here through what GuestManager implements: its        *)
(* sandboxes move as SandboxLease says, and the relay's own control        *)
(* decides when.  The variables of the lease are those of the relay        *)
(* process that runs; what a dead one left is in "lost".                   *)
(***************************************************************************)
EXTENDS Naturals, FiniteSets

CONSTANTS Sandboxes, NoSandbox,
          MAX_RELAYS   \* bound: relay processes started

ASSUME MaxRelaysAssumption == MAX_RELAYS \in Nat \ {0}
ASSUME NoSandboxAssumption == NoSandbox \notin Sandboxes

VARIABLES
    asked, making, serving, doomed, gone, closed,  \* the lease, see there
    created,   \* SANDBOX_CREATED lines
    failed,    \* SANDBOX_CLEANUP_FAILED lines
    lost,      \* sandboxes that exist and whose relay is dead
    relay,     \* the relay process
    relays,    \* how many were started
    handle,    \* self._relay is not None
    client,    \* where the provider call is
    request,   \* the control request in the relay
    outcome    \* how the last provider call ended

Lease == INSTANCE SandboxLease

leaseVars  == <<asked, making, serving, doomed, gone, closed>>
logVars    == <<created, failed>>
clientVars == <<handle, client, outcome>>
vars == <<leaseVars, logVars, lost, relay, relays, clientVars, request>>

Up == relay \in {"booting", "serving", "stopping"}

TypeOK ==
    /\ asked \in BOOLEAN /\ closed \in BOOLEAN /\ handle \in BOOLEAN
    /\ making \in Sandboxes \cup {NoSandbox}
    /\ serving \in Sandboxes \cup {NoSandbox}
    /\ doomed \subseteq Sandboxes
    /\ gone \subseteq Sandboxes
    /\ created \subseteq Sandboxes
    /\ failed \subseteq Sandboxes
    /\ lost \subseteq Sandboxes
    /\ relay \in {"none", "booting", "serving", "stopping", "dead"}
    /\ relays \in 0 .. MAX_RELAYS
    /\ client \in {"idle", "starting", "reverting", "stopping", "waiting",
                   "terminating", "killing"}
    /\ request \in {"none", "reset", "replacing", "stop"}
    /\ outcome \in {"none", "started", "reverted", "stopped", "forced", "raised"}

Init ==
    /\ Lease!Init
    /\ created = {} /\ failed = {} /\ lost = {}
    /\ relay = "none" /\ relays = 0
    /\ handle = FALSE /\ client = "idle" /\ outcome = "none"
    /\ request = "none"

-----------------------------------------------------------------------------
(* The relay process.                                                      *)

(* Sandboxes of the relay that exist.                                      *)
Held == ({making, serving} \cup doomed) \ {NoSandbox}

(* Nothing that the relay still has to do for them.                        *)
Settled == /\ ~asked /\ making = NoSandbox /\ serving = NoSandbox
           /\ doomed \subseteq failed

(* The process is gone, and with it all it knew about its sandboxes.       *)
RelayDies ==
    /\ relay' = "dead"
    /\ lost' = lost \cup Held
    /\ asked' = FALSE /\ making' = NoSandbox /\ serving' = NoSandbox
    /\ doomed' = {} /\ closed' = FALSE
    /\ request' = "none"
    /\ UNCHANGED gone

(* The first replace() of main(), or that of a /reset.                     *)
Delivers ==
    /\ Up
    /\ \E s \in Sandboxes \ lost : Lease!Deliver(s)
    /\ UNCHANGED <<logVars, lost, relay, relays, clientVars, request>>

LogsCreation ==
    /\ Up
    /\ making # NoSandbox
    /\ created' = created \cup {making}
    /\ UNCHANGED <<leaseVars, failed, lost, relay, relays, clientVars, request>>

(* A replacement comes to nothing: a reset is answered with an error,      *)
(* main() comes to its end once the candidate is cleaned up.               *)
ReplaceFails ==
    /\ Up
    /\ Lease!Refuse \/ Lease!Discard
    /\ relay' = IF relay = "booting" THEN "stopping" ELSE relay
    /\ request' = IF request = "replacing" THEN "none" ELSE request
    /\ UNCHANGED <<logVars, lost, relays, clientVars>>

(* The new guest is published; main() has its servers and its signal       *)
(* handlers.                                                               *)
Publishes ==
    /\ Up
    /\ making \in created
    /\ Lease!Serve
    /\ relay' = IF relay = "booting" THEN "serving" ELSE relay
    /\ request' = IF request = "replacing" THEN "none" ELSE request
    /\ UNCHANGED <<logVars, lost, relays, clientVars>>

(* /reset gets the lock.                                                   *)
Replaces ==
    /\ relay = "serving"
    /\ request = "reset"
    /\ doomed \subseteq failed
    /\ Lease!Ask
    /\ request' = "replacing"
    /\ UNCHANGED <<logVars, lost, relay, relays, clientVars>>

(* A doomed sandbox is cleaned up, or the failure is recorded.             *)
Reclaims ==
    /\ Up
    /\ \E s \in doomed : Lease!Reclaim(s)
    /\ UNCHANGED <<logVars, lost, relay, relays, clientVars, request>>

RecordsFailure ==
    /\ Up
    /\ \E s \in doomed \ failed : failed' = failed \cup {s}
    /\ UNCHANGED <<leaseVars, created, lost, relay, relays, clientVars, request>>

(* stop(), for /stop or main(), gets the lock: replacements and their      *)
(* cleanups are over.  (One variant does not wait for it, another does not *)
(* ask whether there is a guest.)                                          *)
RetiresUnlocked ==
    /\ relay = "stopping"
    /\ Lease!Retire
    /\ UNCHANGED <<logVars, lost, relay, relays, clientVars, request>>

RetiresNobody ==
    /\ relay = "stopping"
    /\ doomed \subseteq failed
    /\ closed /\ ~asked /\ making = NoSandbox
    /\ serving' = NoSandbox
    /\ doomed' = doomed \cup {serving}
    /\ UNCHANGED <<asked, making, gone, closed, logVars, lost, relay, relays,
                   clientVars, request>>

Retires ==
    /\ relay = "stopping"
    /\ doomed \subseteq failed
    /\ Lease!Retire
    /\ UNCHANGED <<logVars, lost, relay, relays, clientVars, request>>

(* main() returns; it closes its servers once they have answered.          *)
RelayExits ==
    /\ relay = "stopping"
    /\ Settled
    /\ client # "stopping"
    /\ RelayDies
    /\ UNCHANGED <<logVars, relays, clientVars>>

-----------------------------------------------------------------------------
(* start_emulator().                                                       *)

(* A relay that runs is asked for its health; one that has no guest        *)
(* answers with an error.                                                  *)
StartAgain ==
    /\ client = "idle"
    /\ handle /\ Up
    /\ outcome' = IF serving # NoSandbox THEN "started" ELSE "raised"
    /\ UNCHANGED <<leaseVars, logVars, lost, relay, relays, handle, client, request>>

(* Otherwise a relay is launched, which creates its first sandbox.         *)
Launch ==
    /\ client = "idle"
    /\ ~(handle /\ Up)
    /\ relays < MAX_RELAYS
    /\ relay' = "booting"
    /\ relays' = relays + 1
    /\ handle' = TRUE
    /\ client' = "starting"
    /\ outcome' = "none"
    /\ asked' = TRUE
    /\ UNCHANGED <<making, serving, doomed, gone, closed, logVars, lost, request>>

(* Its control server answers.                                             *)
BecomesReady ==
    /\ client = "starting"
    /\ relay = "serving" /\ serving # NoSandbox
    /\ client' = "idle"
    /\ outcome' = "started"
    /\ UNCHANGED <<leaseVars, logVars, lost, relay, relays, handle, request>>

(* The relay exited, or was not ready in time: _stop_relay_process().      *)
GivesUpStarting ==
    /\ client = "starting"
    /\ client' = "terminating"
    /\ outcome' = "raised"
    /\ UNCHANGED <<leaseVars, logVars, lost, relay, relays, handle, request>>

-----------------------------------------------------------------------------
(* revert_to_snapshot().                                                   *)

(* A reset that an earlier call gave up waiting for may still be under     *)
(* way; the new one waits for the lock.  (Bound: one waits at a time.)     *)
Revert ==
    /\ client = "idle"
    /\ relay = "serving" /\ request \in {"none", "replacing"}
    /\ client' = "reverting"
    /\ request' = "reset"
    /\ outcome' = "none"
    /\ UNCHANGED <<leaseVars, logVars, lost, relay, relays, handle>>

(* The answer arrives, or the call times out while the relay goes on.      *)
RevertEnds ==
    /\ client = "reverting"
    /\ client' = "idle"
    /\ outcome' \in IF request = "none" THEN {"reverted", "raised"} ELSE {"raised"}
    /\ UNCHANGED <<leaseVars, logVars, lost, relay, relays, handle, request>>

-----------------------------------------------------------------------------
(* stop_emulator() and _stop_relay_process().                              *)

(* /stop is answered when the manager has stopped.  (A variant answers at  *)
(* once.)                                                                  *)
AnsweredAtOnce == request = "stop"
Answered       == request = "stop" /\ Settled

(* POST /stop: the manager is stopped and main() told.  A relay that does  *)
(* not answer is stopped by force.                                         *)
Stop ==
    /\ client = "idle"
    /\ handle
    /\ outcome' = "none"
    /\ IF relay = "serving"
       THEN /\ client' = "stopping"
            /\ relay' = "stopping"
            /\ request' = "stop"
            /\ Lease!Close
       ELSE /\ client' = "terminating"
            /\ UNCHANGED <<leaseVars, relay, request>>
    /\ UNCHANGED <<logVars, lost, relays, handle>>

(* /stop is answered in time, the provider waits for the relay to exit.    *)
StopAnswered ==
    /\ client = "stopping"
    /\ Answered
    /\ client' = "waiting"
    /\ outcome' = "stopped"
    /\ UNCHANGED <<leaseVars, logVars, lost, relay, relays, handle, request>>

(* 30 s have passed since the request, or since the answer.  (A variant    *)
(* gives up on the relay without _stop_relay_process().)                   *)
StopGivesUp ==
    /\ client \in {"stopping", "waiting"}
    /\ client' = "idle"
    /\ handle' = FALSE
    /\ outcome' = "forced"
    /\ UNCHANGED <<leaseVars, logVars, lost, relay, relays, request>>

StopTimesOut ==
    /\ client \in {"stopping", "waiting"}
    /\ client' = "terminating"
    /\ outcome' = IF client = "stopping" THEN "forced" ELSE outcome
    /\ UNCHANGED <<leaseVars, logVars, lost, relay, relays, handle, request>>

(* SIGTERM: it ends a relay that boots, and makes main() of another stop.  *)
Terminates ==
    /\ client = "terminating"
    /\ client' = "killing"
    /\ CASE relay = "booting" -> RelayDies
         [] relay = "serving" -> /\ relay' = "stopping"
                                 /\ Lease!Close
                                 /\ UNCHANGED <<lost, request>>
         [] OTHER             -> UNCHANGED <<leaseVars, relay, lost, request>>
    /\ UNCHANGED <<logVars, relays, handle, outcome>>

(* The relay outlives SIGTERM by ten seconds: SIGKILL.                     *)
Kills ==
    /\ client = "killing"
    /\ Up
    /\ RelayDies
    /\ UNCHANGED <<logVars, relays, clientVars>>

(* The relay is gone: the call returns, or goes on raising.                *)
CallEnds ==
    /\ client \in {"waiting", "killing"}
    /\ ~Up
    /\ client' = "idle"
    /\ handle' = FALSE
    /\ outcome' = IF outcome = "none" THEN "forced" ELSE outcome
    /\ UNCHANGED <<leaseVars, logVars, lost, relay, relays, request>>

-----------------------------------------------------------------------------
Relay  == \/ Delivers \/ LogsCreation \/ ReplaceFails \/ Publishes \/ Replaces
          \/ Reclaims \/ RecordsFailure \/ Retires \/ RelayExits
Call   == StartAgain \/ Launch \/ Revert \/ Stop
Client == \/ BecomesReady \/ GivesUpStarting \/ RevertEnds \/ StopAnswered
          \/ StopTimesOut \/ Terminates \/ Kills \/ CallEnds

Next == Relay \/ Call \/ Client

Spec == Init /\ [][Next]_vars

-----------------------------------------------------------------------------
(* Properties.                                                             *)

(* provider.py 119-142, 161-183: whichever call failed, timed out or       *)
(* raced with the relay's own end, a provider without a handle has no      *)
(* relay process running.                                                  *)
NoRelayIsLeft == client = "idle" /\ ~handle => ~Up

(* provider.py 177-183, relay.py 413-417: once /stop was answered nothing  *)
(* that follows, not even the SIGKILL of a relay that does not exit, loses *)
(* a sandbox whose failed cleanup is not on record.                        *)
AnsweredLosesNothing ==
    [][outcome = "stopped" => lost' \ lost \subseteq failed']_vars

(* runner/campaign.py 48-69.  (A variant is content with any cleanup.)     *)
StatusOfAnyCleanup == IF failed # {} THEN "failed"
                      ELSE IF gone # {} THEN "success" ELSE "not_observed"
CleanupStatus == IF failed # {} THEN "failed"
                 ELSE IF gone # {} /\ created \subseteq gone THEN "success"
                 ELSE "not_observed"

(* campaign.py 48-69, provider.py 174-183, relay.py 93-250: the log of one *)
(* relay process that ended, in order or killed at any moment, says        *)
(* "success" only when no sandbox is left.  (A second relay that writes to *)
(* the same log can hide what the first one lost before it logged it.)     *)
SuccessMeansNothingLost ==
    relays = 1 /\ relay = "dead" /\ CleanupStatus = "success" => lost = {}

(* docs/superpowers/specs/2026-09-03-full-suite-parity-design.md:33-34     *)
(* "Stopping the provider stops the relay and kills or records the cleanup *)
(* failure for every sandbox it created."  (Violated: a relay that is      *)
(* making a replacement does not answer /stop in 30 s and is killed.)      *)
StopCleansUp ==
    relays = 1 /\ client = "idle" /\ outcome \in {"stopped", "forced"} /\ ~handle
        => lost \subseteq failed
=============================================================================
