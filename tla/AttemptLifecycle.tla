-------------------------- MODULE AttemptLifecycle --------------------------
(***************************************************************************)
(* What a campaign promises about its tasks, without processes, files,     *)
(* sessions or cancellation: a task has one current attempt, attempts are  *)
(* numbered in order and limited, each goes from planned to started to one *)
(* verdict, a further one is made only when the current one has begun and  *)
(* is not valid, and a valid verdict is final.                             *)
(* Campaign implements this specification (see its operator Lifecycle).    *)
(***************************************************************************)
EXTENDS Naturals

CONSTANTS Tasks, MAX_ATTEMPTS

VARIABLES
    current,   \* number of the current attempt of each task, 0 before any
    status     \* how far it is

Init == /\ current = [t \in Tasks |-> 0]
        /\ status = [t \in Tasks |-> "none"]

Plan(t) ==
    /\ status[t] \in {"none", "started", "invalid"}
    /\ current[t] < MAX_ATTEMPTS
    /\ current' = [current EXCEPT ![t] = @ + 1]
    /\ status' = [status EXCEPT ![t] = "planned"]

Begin(t) ==
    /\ status[t] = "planned"
    /\ status' = [status EXCEPT ![t] = "started"]
    /\ UNCHANGED current

Judge(t) ==
    /\ status[t] = "started"
    /\ \E verdict \in {"valid", "invalid"} :
         status' = [status EXCEPT ![t] = verdict]
    /\ UNCHANGED current

Next == \E t \in Tasks : Plan(t) \/ Begin(t) \/ Judge(t)

Spec == Init /\ [][Next]_<<current, status>>
=============================================================================
