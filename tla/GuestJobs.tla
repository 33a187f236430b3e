----------------------------- MODULE GuestJobs -----------------------------
(***************************************************************************)
(* Files and programs of the guest's control server (main.py): uploads,    *)
(* downloads and reads of the guest's files, and the programs it runs for  *)
(* the caller.  As in GuestRecorder, one caller sends a request once it    *)
(* has an answer, the relay may answer in the guest's place while the      *)
(* handler goes on (a download or a program may well outlast the relay's   *)
(* RELAY_HTTP_TIMEOUT_S), and the handlers then overlap.                   *)
(***************************************************************************)
EXTENDS Naturals

CONSTANTS
  Paths,     \* the files the requests name
  MaxJobs    \* bound: the requests of a behaviour

ASSUME JobsAssumption == MaxJobs \in Nat /\ Paths # {}

Jobs == 1..MaxJobs
MaxDownloadTries == 3

Writers == {"upload", "download"}
Scripts == {"python", "bash"}
Programs == {"execute", "verified"} \cup Scripts
JobKinds == Writers \cup Programs \cup {"fetch", "launch"}

VARIABLES
  jobs,      \* the requests: kind, path, next step, tries, what the download's
             \* server announced, answer, file read
  files,     \* the file of each path: who wrote it last and whether it is whole
  program,   \* the process each request started
  offspring, \* what that process started: it holds the output pipes, or not
  temp       \* the requests whose script file exists in /tmp

jobVars == <<jobs, files, program, offspring, temp>>

JobSteps == {"unsent", "open", "write", "verify", "exists", "read",
             "script", "spawn", "run", "check", "done"}
\* The Content-Length of a download: none, the size of the file, or that of
\* its compressed form.
Announcements == {"nothing", "size", "compressed"}
File == [by : 0..MaxJobs, is : {"absent", "partial", "whole"}]
NoFile == [by |-> 0, is |-> "absent"]

JobsInit ==
  /\ jobs = [j \in Jobs |->
       [kind |-> "launch", path |-> CHOOSE p \in Paths : TRUE,
        at |-> "unsent", alone |-> FALSE, tries |-> 0,
        announced |-> "nothing", answer |-> "none", got |-> NoFile]]
  /\ files = [p \in Paths |-> NoFile]
  /\ program = [j \in Jobs |-> "none"] /\ offspring = [j \in Jobs |-> "none"]
  /\ temp = {}

Path(j) == jobs[j].path
JobAt(j, step) == jobs' = [jobs EXCEPT ![j].at = step]

JobReply(j, answer, got) ==
  jobs' = [jobs EXCEPT
    ![j].at = "done", ![j].got = got, ![j].tries = 0,
    ![j].answer = IF @ = "lost" THEN "lost" ELSE answer]

FirstStep(kind) ==
  CASE kind \in Writers -> "open"
    [] kind = "fetch" -> "exists"
    [] kind \in Scripts -> "script"
    [] OTHER -> "spawn"

\* "alone": no handler that was given up on is still at work on the path.
SendJob(j, kind, p) ==
  /\ jobs[j].at = "unsent"
  /\ \A i \in 1..(j - 1) : jobs[i].answer # "none"
  /\ jobs' = [jobs EXCEPT
       ![j].kind = kind, ![j].path = p, ![j].at = FirstStep(kind),
       ![j].alone = \A i \in 1..(j - 1) : Path(i) = p => jobs[i].at = "done"]
  /\ UNCHANGED <<files, program, offspring, temp>>

\* 504 after RELAY_HTTP_TIMEOUT_S, or 502 when the connection breaks.
JobAnswerIsLost(j) ==
  /\ jobs[j].at \notin {"unsent", "done"}
  /\ jobs[j].answer = "none"
  /\ jobs' = [jobs EXCEPT ![j].answer = "lost"]
  /\ UNCHANGED <<files, program, offspring, temp>>

-----------------------------------------------------------------------------
(* upload_file and download_file.                                          *)

\* The except branches remove whatever the path names now; a handler can
\* remove what it could create.
GiveUpFile(j) ==
  /\ files' = [files EXCEPT ![Path(j)] = NoFile]
  /\ IF jobs[j].kind = "download" /\ jobs[j].tries + 1 < MaxDownloadTries
     THEN jobs' = [jobs EXCEPT ![j].at = "open", ![j].tries = @ + 1]
     ELSE JobReply(j, "error", NoFile)

\* An upload opens its file at once; a download asks for the URL first,
\* which may fail with the path untouched.  Opening truncates.
OpenFile(j) ==
  /\ jobs[j].at = "open"
  /\ \/ /\ \E a \in IF jobs[j].kind = "download" THEN Announcements ELSE {"nothing"} :
             jobs' = [jobs EXCEPT ![j].at = "write", ![j].announced = a]
        /\ files' = [files EXCEPT ![Path(j)] = [by |-> j, is |-> "partial"]]
     \/ GiveUpFile(j)
  /\ UNCHANGED <<program, offspring, temp>>

\* All of the content is written, or a download's connection ends early
\* without an exception, or writing raises.  What a handler writes into a
\* file that another has truncated since leaves that file mixed.
WriteFile(j) ==
  /\ jobs[j].at = "write"
  /\ \/ /\ JobAt(j, "verify")
        /\ files' = IF files[Path(j)].by = j
                    THEN [files EXCEPT ![Path(j)].is = "whole"] ELSE files
     \/ jobs[j].kind = "download" /\ JobAt(j, "verify") /\ UNCHANGED files
     \/ GiveUpFile(j)
  /\ UNCHANGED <<program, offspring, temp>>

\* A variant only asks whether the file is there.
VerifyPresence(j) ==
  /\ jobs[j].at = "verify"
  /\ IF files[Path(j)] = NoFile THEN GiveUpFile(j)
                                ELSE JobReply(j, "ok", NoFile) /\ UNCHANGED files
  /\ UNCHANGED <<program, offspring, temp>>

\* The size of the file is the announced one.  A compressed body is written
\* out decompressed, and a file that is not whole has the right size only when
\* two handlers wrote it.
SizeMatches(j) ==
  /\ jobs[j].announced = "compressed" => files[Path(j)].by # j
  /\ jobs[j].announced = "size" => files[Path(j)] # [by |-> j, is |-> "partial"]

\* getsize raises for a missing path; a download compares the size with the
\* announced one, if any was.
VerifyFile(j) ==
  /\ jobs[j].at = "verify"
  /\ IF files[Path(j)] = NoFile \/ ~SizeMatches(j)
     THEN GiveUpFile(j)
     ELSE \/ JobReply(j, "ok", NoFile) /\ UNCHANGED files
          \/ /\ jobs[j].announced # "nothing" /\ files[Path(j)].by # j
             /\ GiveUpFile(j)
  /\ UNCHANGED <<program, offspring, temp>>

(* get_file: the path is looked up, then opened.                           *)
FindFile(j) ==
  /\ jobs[j].at = "exists"
  /\ IF files[Path(j)] = NoFile THEN JobReply(j, "error", NoFile)
                                ELSE JobAt(j, "read")
  /\ UNCHANGED <<files, program, offspring, temp>>

ReadFile(j) ==
  /\ jobs[j].at = "read"
  /\ IF files[Path(j)] = NoFile THEN JobReply(j, "error", NoFile)
                                ELSE JobReply(j, "ok", files[Path(j)])
  /\ UNCHANGED <<files, program, offspring, temp>>

-----------------------------------------------------------------------------
(* execute_command, execute_command_with_verification, launch_app,         *)
(* run_python, run_bash_script.                                            *)

\* run_python removes a file it could not write; run_bash_script writes its
\* file outside the try, and leaves it.
WriteScript(j) ==
  /\ jobs[j].at = "script"
  /\ \/ JobAt(j, "spawn") /\ temp' = temp \cup {j}
     \/ /\ JobReply(j, "error", NoFile)
        /\ temp' = IF jobs[j].kind = "bash" THEN temp \cup {j} ELSE temp
  /\ UNCHANGED <<files, program, offspring>>

\* A launched program is left to itself.
Launch(j) ==
  /\ jobs[j].at = "spawn" /\ jobs[j].kind = "launch"
  /\ \/ JobReply(j, "ok", NoFile) /\ program' = [program EXCEPT ![j] = "running"]
     \/ JobReply(j, "error", NoFile) /\ UNCHANGED program
  /\ UNCHANGED <<files, offspring, temp>>

\* The program is started, or cannot be (bash, then sh, for a script).
Spawn(j) ==
  /\ jobs[j].at = "spawn" /\ jobs[j].kind # "launch"
  /\ \/ JobAt(j, "run") /\ program' = [program EXCEPT ![j] = "running"] /\ UNCHANGED temp
     \/ /\ JobReply(j, "error", NoFile)
        /\ temp' = temp \ {j}
        /\ UNCHANGED program
  /\ UNCHANGED <<files, offspring>>

ProgramEnds(j) ==
  /\ program[j] = "running"
  /\ program' = [program EXCEPT ![j] = "over"]
  /\ UNCHANGED <<jobs, files, offspring, temp>>

\* The shell of a command or script starts what it says, and a program may
\* start others: these inherit its output, or have one of their own.
ProgramForks(j) ==
  /\ program[j] = "running" /\ jobs[j].kind # "launch" /\ offspring[j] = "none"
  /\ \E how \in {"attached", "detached"} : offspring' = [offspring EXCEPT ![j] = how]
  /\ UNCHANGED <<jobs, files, program, temp>>

OffspringEnds(j) ==
  /\ offspring[j] \in {"attached", "detached"}
  /\ offspring' = [offspring EXCEPT ![j] = "over"]
  /\ UNCHANGED <<jobs, files, program, temp>>

\* subprocess.run reads the output to its end before it looks for the exit:
\* whatever holds the pipes keeps it waiting.
OutputEnded(j) == program[j] = "over" /\ offspring[j] # "attached"

\* A variant waits for the process that it started, not for its output.
ReturnsAtExit(j) ==
  /\ jobs[j].at = "run" /\ program[j] = "over"
  /\ IF jobs[j].kind = "verified" THEN JobAt(j, "check")
                                  ELSE JobReply(j, "ok", NoFile)
  /\ temp' = temp \ {j}
  /\ UNCHANGED <<files, program, offspring>>

ProgramReturns(j) ==
  /\ jobs[j].at = "run" /\ OutputEnded(j)
  /\ IF jobs[j].kind = "verified" THEN JobAt(j, "check")
                                  ELSE JobReply(j, "ok", NoFile)
  /\ temp' = temp \ {j}
  /\ UNCHANGED <<files, program, offspring>>

\* subprocess.run kills the process it started, waits for that one and
\* raises; what a shell was running goes on.
ProgramTimesOut(j) ==
  /\ jobs[j].at = "run" /\ ~OutputEnded(j)
  /\ program' = [program EXCEPT ![j] = "over"]
  /\ temp' = temp \ {j}
  /\ JobReply(j, "error", NoFile)
  /\ UNCHANGED <<files, offspring>>

\* The verification loop passes once within max_wait_time, or never.
CheckOutcome(j) ==
  /\ jobs[j].at = "check"
  /\ \E answer \in {"ok", "error"} : JobReply(j, answer, NoFile)
  /\ UNCHANGED <<files, program, offspring, temp>>

-----------------------------------------------------------------------------
JobHandler(j) ==
  \/ OpenFile(j) \/ WriteFile(j) \/ VerifyFile(j) \/ FindFile(j) \/ ReadFile(j)
  \/ WriteScript(j) \/ Launch(j) \/ Spawn(j) \/ ProgramReturns(j) \/ ProgramTimesOut(j)
  \/ CheckOutcome(j)

JobsNext ==
  \E j \in Jobs :
    \/ \E kind \in JobKinds, p \in Paths : SendJob(j, kind, p)
    \/ JobAnswerIsLost(j)
    \/ JobHandler(j)
    \/ ProgramEnds(j) \/ ProgramForks(j) \/ OffspringEnds(j)

JobsSpec == JobsInit /\ [][JobsNext]_jobVars

-----------------------------------------------------------------------------
Job == [kind : JobKinds, path : Paths, at : JobSteps, alone : BOOLEAN,
        tries : 0..(MaxDownloadTries - 1), announced : Announcements,
        answer : {"none", "ok", "error", "lost"}, got : File]

JobsTypeOK ==
  /\ jobs \in [Jobs -> Job]
  /\ files \in [Paths -> File]
  /\ program \in [Jobs -> {"none", "running", "over"}]
  /\ offspring \in [Jobs -> {"none", "attached", "detached", "over"}]
  /\ temp \subseteq Jobs

\* Job j is the last to write its path, and had it for itself.
SoleWriter(j) ==
  /\ jobs[j].kind \in Writers /\ jobs[j].at = "done" /\ jobs[j].alone
  /\ \A i \in Jobs :
       i > j /\ Path(i) = Path(j) /\ jobs[i].kind \in Writers => jobs[i].at = "unsent"

\* What the caller is told of a transfer is true of the file, through every
\* failed try and cleanup, and stays true until the next transfer to the
\* path: failure means that nothing is there, success that all of it is, or,
\* for a download whose server announced no size, at least its beginning.
\* So a torn file can be taken for a good one only behind such a server, or
\* where a transfer overlaps one that the caller was made to give up.
TransfersAreToldAsTheyAre ==
  \A j \in Jobs : SoleWriter(j) =>
    /\ jobs[j].answer = "ok" =>
         \/ files[Path(j)] = [by |-> j, is |-> "whole"]
         \/ /\ jobs[j].kind = "download" /\ jobs[j].announced = "nothing"
            /\ files[Path(j)] = [by |-> j, is |-> "partial"]
    /\ jobs[j].answer = "error" => files[Path(j)] = NoFile

\* What a request to run a program leaves behind.  When its handler is done
\* the process it started is over, on the timeout's path too, and its script
\* file is gone unless it could not even be written.  What that process
\* started (the command of a shell, the commands of a script) is not killed
\* with it: it may run on, but a caller who is told how the program ended
\* knows that nothing which could still add to its output does.  Only one who
\* gets an error, or no answer, has to reckon with a command still at work.
WhatRunsOnIsTold ==
  \A j \in Jobs : jobs[j].at = "done" /\ jobs[j].kind \in Programs =>
    /\ program[j] # "running"
    /\ offspring[j] = "attached" => jobs[j].answer \in {"error", "lost"}
    /\ j \in temp => program[j] = "none"
=============================================================================
