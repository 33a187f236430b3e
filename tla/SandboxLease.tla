---------------------------- MODULE SandboxLease ----------------------------
(***************************************************************************)
(* What the relay promises about its sandboxes, without locks, tasks,      *)
(* retries or a log: at most one sandbox is being made, at most one        *)
(* serves, a sandbox serves only once and only after it was made, one that *)
(* served or was discarded is doomed until it is reclaimed, and after      *)
(* closing nothing starts to serve and no further sandbox is asked for.    *)
(* GuestManager implements this specification (see its operator Lease).    *)
(***************************************************************************)
CONSTANTS Sandboxes, NoSandbox

VARIABLES
    asked,      \* a sandbox has been asked for and not delivered
    making,     \* the sandbox that was delivered and does not serve yet
    serving,    \* the sandbox that requests are sent to
    doomed,     \* sandboxes to be reclaimed, and still the relay's duty
    gone,       \* sandboxes reclaimed
    closed      \* no further sandbox may serve

vars == <<asked, making, serving, doomed, gone, closed>>

Known == {making, serving} \cup doomed \cup gone

Init ==
    /\ asked = FALSE
    /\ making = NoSandbox
    /\ serving = NoSandbox
    /\ doomed = {}
    /\ gone = {}
    /\ closed = FALSE

Ask ==
    /\ ~closed /\ ~asked /\ making = NoSandbox
    /\ asked' = TRUE
    /\ UNCHANGED <<making, serving, doomed, gone, closed>>

Refuse ==
    /\ asked
    /\ asked' = FALSE
    /\ UNCHANGED <<making, serving, doomed, gone, closed>>

Deliver(s) ==
    /\ asked
    /\ s \in Sandboxes \ Known
    /\ asked' = FALSE
    /\ making' = s
    /\ UNCHANGED <<serving, doomed, gone, closed>>

Discard ==
    /\ making # NoSandbox
    /\ making' = NoSandbox
    /\ doomed' = doomed \cup {making}
    /\ UNCHANGED <<asked, serving, gone, closed>>

Serve ==
    /\ making # NoSandbox
    /\ ~closed
    /\ making' = NoSandbox
    /\ serving' = making
    /\ doomed' = doomed \cup ({serving} \ {NoSandbox})
    /\ UNCHANGED <<asked, gone, closed>>

Close ==
    /\ closed' = TRUE
    /\ UNCHANGED <<asked, making, serving, doomed, gone>>

(* The last guest goes only when nothing is on its way to replace it.      *)
Retire ==
    /\ closed /\ ~asked /\ making = NoSandbox
    /\ serving # NoSandbox
    /\ serving' = NoSandbox
    /\ doomed' = doomed \cup {serving}
    /\ UNCHANGED <<asked, making, gone, closed>>

Reclaim(s) ==
    /\ s \in doomed
    /\ doomed' = doomed \ {s}
    /\ gone' = gone \cup {s}
    /\ UNCHANGED <<asked, making, serving, closed>>

Next ==
    \/ Ask \/ Refuse \/ Discard \/ Serve \/ Close \/ Retire
    \/ \E s \in Sandboxes : Deliver(s) \/ Reclaim(s)

Spec == Init /\ [][Next]_vars
=============================================================================
