------------------------------ MODULE RunLedger ------------------------------
(***************************************************************************)
(* attempts.jsonl and what realkit/results.py reads from it.               *)
(*                                                                         *)
(* Every reader of the file looks at the lines of one task and attempt at  *)
(* a time, in file order.  The file is therefore modelled by its           *)
(* projections: file[t][a] is the sequence of events of attempt a of task  *)
(* t.  A TERMINAL line is represented by its outcome "valid" or, when that *)
(* is "invalid", by its reason.                                            *)
(***************************************************************************)
EXTENDS Naturals, Sequences, FiniteSets, FiniteSetsExt

CONSTANTS
    Tasks,         \* the run inventory
    MAX_ATTEMPTS   \* max_attempts of the contract

ASSUME TasksAssumption == IsFiniteSet(Tasks)
ASSUME MaxAttemptsAssumption == MAX_ATTEMPTS \in Nat \ {0}

Attempts == 1 .. MAX_ATTEMPTS

InvalidReasons == {"runner_exit", "timeout", "missing_result",
                   "malformed_result", "identity_drift", "cleanup_failed",
                   "interrupted"}
Terminals == {"valid"} \cup InvalidReasons
Events    == {"PLANNED", "STARTED"} \cup Terminals

EmptyFile == [t \in Tasks |-> [a \in Attempts |-> <<>>]]

Wrote(file, t, a, event) == \E i \in DOMAIN file[t][a] : file[t][a][i] = event

EndsWith(history, event) == history # <<>> /\ history[Len(history)] = event

(* Tasks with a valid terminal line.  (A variant looks for an event that   *)
(* no line has.)                                                           *)
TerminalTasksMisread(file) == {t \in Tasks : \E a \in Attempts : Wrote(file, t, a, "VALID")}
TerminalTasks(file) == {t \in Tasks : \E a \in Attempts : Wrote(file, t, a, "valid")}

(* Does append() accept the event, or raise?  (A variant does not look for *)
(* an earlier PLANNED.)                                                    *)
AcceptsAnyPlan(file, t, a, event) ==
    CASE event = "PLANNED" -> t \notin TerminalTasks(file)
      [] event = "STARTED" -> EndsWith(file[t][a], "PLANNED")
      [] OTHER             -> EndsWith(file[t][a], "STARTED")
Accepts(file, t, a, event) ==
    CASE event = "PLANNED" -> file[t][a] = <<>> /\ t \notin TerminalTasks(file)
      [] event = "STARTED" -> EndsWith(file[t][a], "PLANNED")
      [] OTHER             -> EndsWith(file[t][a], "STARTED")

Appended(file, t, a, event) == [file EXCEPT ![t][a] = Append(@, event)]

LatestAttempt(file, t) == Max({0} \cup {a \in Attempts : file[t][a] # <<>>})

(* The attempt resume_candidates() offers for a task, 0 if none.  (A       *)
(* variant ignores the limit.)                                             *)
CandidateUnlimited(file, t) ==
    IF t \in TerminalTasks(file) THEN 0 ELSE LatestAttempt(file, t) + 1
Candidate(file, t) ==
    LET latest == LatestAttempt(file, t)
    IN  IF t \in TerminalTasks(file) THEN 0
        ELSE IF latest = 0 THEN 1
        ELSE IF EndsWith(file[t][latest], "PLANNED") THEN latest
        ELSE IF latest < MAX_ATTEMPTS THEN latest + 1
        ELSE 0

Having(file, events) ==
    {k \in Tasks \X Attempts : \E e \in events : Wrote(file, k[1], k[2], e)}

(* The counts of aggregate(), with the parallelism observed that only      *)
(* refresh_aggregate() adds (0: the key is missing).                       *)
Aggregate(file, observed) ==
    [planned   |-> Cardinality(Having(file, {"PLANNED"})),
     started   |-> Cardinality(Having(file, {"STARTED"})),
     terminal  |-> Cardinality(Having(file, Terminals)),
     missing   |-> Cardinality(Having(file, {"STARTED"}) \ Having(file, Terminals)),
     remaining |-> Cardinality(Tasks \ TerminalTasks(file)),
     max_observed_children |-> observed]
=============================================================================
