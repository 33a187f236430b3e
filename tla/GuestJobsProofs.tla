-------------------------- MODULE GuestJobsProofs --------------------------
(***************************************************************************)
(* Theorems about GuestJobs, for any files and any number of requests.     *)
(***************************************************************************)
EXTENDS GuestJobs, TLAPS

USE DEF Jobs

At(j) == jobs[j].at
Kind(j) == jobs[j].kind

\* A step is one of the request's kind, and its program and its script exist
\* only at the steps that use them.
StepFits(j) ==
  /\ At(j) \in {"open", "write", "verify"} => Kind(j) \in Writers
  /\ At(j) \in {"exists", "read"} => Kind(j) = "fetch"
  /\ At(j) = "script" => Kind(j) \in Scripts
  /\ At(j) = "spawn" => Kind(j) \in Programs \cup {"launch"}
  /\ At(j) \in {"run", "check"} => Kind(j) \in Programs
  /\ At(j) \notin {"run", "check", "done"} => program[j] = "none"
  /\ program[j] = "running" => At(j) = "run" \/ Kind(j) = "launch"
  /\ offspring[j] # "none" => At(j) \in {"run", "check", "done"}
  /\ offspring[j] = "attached" =>
       At(j) = "run" \/ (At(j) = "done" /\ jobs[j].answer \in {"error", "lost"})
  /\ j \in temp => Kind(j) \in Scripts
  /\ j \in temp => At(j) \in {"spawn", "run"} \/ (At(j) = "done" /\ program[j] = "none")

\* Requests are sent in order, and a request that is alone on its path stays
\* so among the earlier ones.
OrderFits(j) ==
  /\ At(j) = "unsent" => jobs[j].answer = "none"
  /\ At(j) # "unsent" =>
       \A i \in Jobs : i < j =>
         /\ At(i) # "unsent"
         /\ jobs[j].alone /\ Path(i) = Path(j) => At(i) = "done"

\* No later transfer to the path of j has been sent.
Latest(j) ==
  \A i \in Jobs : i > j /\ Path(i) = Path(j) /\ Kind(i) \in Writers => At(i) = "unsent"

\* A transfer that is alone and the latest finds its file as it left it.
FileFits(j) ==
  Kind(j) \in Writers /\ jobs[j].alone /\ Latest(j) =>
    /\ At(j) = "write" => files[Path(j)] = [by |-> j, is |-> "partial"]
    /\ At(j) = "verify" =>
         /\ files[Path(j)].by = j /\ files[Path(j)].is # "absent"
         /\ Kind(j) = "upload" => files[Path(j)].is = "whole"
    /\ At(j) = "done" /\ jobs[j].answer = "ok" =>
         \/ files[Path(j)] = [by |-> j, is |-> "whole"]
         \/ /\ Kind(j) = "download" /\ jobs[j].announced = "nothing"
            /\ files[Path(j)] = [by |-> j, is |-> "partial"]
    /\ At(j) = "done" /\ jobs[j].answer = "error" => files[Path(j)] = NoFile

StepsFit == \A j \in Jobs : StepFits(j)
OrdersFit == \A j \in Jobs : OrderFits(j)
FilesFit == \A j \in Jobs : FileFits(j)
JobsInv == JobsTypeOK /\ StepsFit /\ OrdersFit /\ FilesFit

-----------------------------------------------------------------------------
(* What a step of one handler changes of the requests.                     *)

\* Only the request of j changes, and it goes on to the step s.
Moved(j, s) ==
  /\ jobs' \in [Jobs -> Job]
  /\ \A i \in Jobs : i # j => jobs'[i] = jobs[i]
  /\ jobs'[j].kind = jobs[j].kind /\ jobs'[j].path = jobs[j].path
  /\ jobs'[j].alone = jobs[j].alone
  /\ jobs'[j].at = s

\* The programs and scripts of the other requests are left alone.
OthersKept(j) ==
  /\ program' \in [Jobs -> {"none", "running", "over"}]
  /\ offspring' \in [Jobs -> {"none", "attached", "detached", "over"}]
  /\ temp' \subseteq Jobs
  /\ \A i \in Jobs : i # j =>
       /\ program'[i] = program[i] /\ offspring'[i] = offspring[i]
       /\ i \in temp' <=> i \in temp

LEMMA NothingStarted ==
  ASSUME JobsTypeOK, NEW j \in Jobs, UNCHANGED <<program, offspring, temp>>
  PROVE  OthersKept(j)
BY DEF JobsTypeOK, OthersKept

LEMMA JobAtMoves ==
  ASSUME JobsTypeOK, NEW j \in Jobs, NEW s \in JobSteps, JobAt(j, s)
  PROVE  Moved(j, s) /\ jobs'[j].answer = jobs[j].answer
BY DEF JobsTypeOK, JobAt, Moved, Job

LEMMA JobReplyMoves ==
  ASSUME JobsTypeOK, NEW j \in Jobs, NEW a \in {"ok", "error"}, NEW f \in File,
         JobReply(j, a, f)
  PROVE  /\ Moved(j, "done") /\ jobs'[j].answer \in {"lost", a}
         /\ jobs'[j].announced = jobs[j].announced
<1> DEFINE r == [jobs[j] EXCEPT !.at = "done", !.got = f, !.tries = 0,
                   !.answer = IF @ = "lost" THEN "lost" ELSE a]
<1>1. jobs[j] \in Job
  BY DEF JobsTypeOK
<1>2. r \in Job
  <2>1. "done" \in JobSteps /\ 0 \in 0..(MaxDownloadTries - 1)
    BY DEF JobSteps, MaxDownloadTries
  <2> QED
    BY <1>1, <2>1 DEF Job
<1>3. jobs' = [jobs EXCEPT ![j] = r]
  BY DEF JobReply
<1>4. /\ r.at = "done" /\ r.kind = jobs[j].kind /\ r.path = jobs[j].path
      /\ r.alone = jobs[j].alone /\ r.answer \in {"lost", a}
      /\ r.announced = jobs[j].announced
  OBVIOUS
<1> HIDE DEF r
<1> QED
  BY <1>2, <1>3, <1>4 DEF Moved, JobsTypeOK

-----------------------------------------------------------------------------
(* What such a step keeps of the invariant.                                *)

LEMMA MovedKeepsOrder ==
  ASSUME JobsTypeOK, OrdersFit, NEW j \in Jobs, NEW s \in JobSteps \ {"unsent"},
         At(j) \notin {"unsent", "done"}, Moved(j, s)
  PROVE  OrdersFit'
<1> SUFFICES ASSUME NEW k \in Jobs PROVE OrderFits(k)'
  BY DEF OrdersFit
<1>1. At(k)' # "unsent" => At(k) # "unsent"
  BY DEF At, Moved
<1>2. At(k)' = "unsent" => jobs'[k].answer = "none"
  BY DEF At, Moved, OrdersFit, OrderFits
<1>3. ASSUME At(k)' # "unsent", NEW i \in Jobs, i < k
      PROVE  /\ At(i)' # "unsent"
             /\ jobs'[k].alone /\ Path(i)' = Path(k)' => At(i)' = "done"
  <2>1. At(i) # "unsent" /\ (jobs[k].alone /\ Path(i) = Path(k) => At(i) = "done")
    BY <1>1, <1>3 DEF OrdersFit, OrderFits
  <2>2. jobs'[k].alone = jobs[k].alone /\ Path(k)' = Path(k) /\ Path(i)' = Path(i)
    BY DEF Moved, Path
  <2> QED
    BY <2>1, <2>2 DEF Moved, At
<1> QED
  BY <1>2, <1>3 DEF OrderFits

\* A transfer that is alone and the latest has its file for itself: a step of
\* another handler is none of a transfer to the same path.
LEMMA MovedKeepsFiles ==
  ASSUME JobsTypeOK, OrdersFit, FilesFit,
         NEW j \in Jobs, NEW s \in JobSteps \ {"unsent"},
         At(j) \notin {"unsent", "done"}, Moved(j, s),
         \A p \in Paths : p # Path(j) => files'[p] = files[p],
         Kind(j) \in Writers \/ files' = files,
         FileFits(j)'
  PROVE  FilesFit'
<1> SUFFICES ASSUME NEW k \in Jobs, k # j PROVE FileFits(k)'
  BY DEF FilesFit
<1> SUFFICES ASSUME Kind(k)' \in Writers, jobs'[k].alone, Latest(k)',
                    At(k)' \in {"write", "verify", "done"}
             PROVE  FileFits(k)'
  BY DEF FileFits
<1>1. jobs'[k] = jobs[k] /\ Path(k) \in Paths
  BY DEF Moved, Job, Path
<1>2. Latest(k)
  <2> SUFFICES ASSUME NEW i \in Jobs, i > k, Path(i) = Path(k), Kind(i) \in Writers
               PROVE  At(i) = "unsent"
    BY DEF Latest
  <2>1. Path(i)' = Path(i) /\ Kind(i)' = Kind(i) /\ Path(k)' = Path(k)
    BY DEF Moved, Path, Kind
  <2>2. At(i)' = "unsent"
    BY <2>1 DEF Latest
  <2> QED
    BY <2>2 DEF Moved, At
<1>3. files'[Path(k)] = files[Path(k)]
  <2>1. CASE Path(k) # Path(j) \/ files' = files
    BY <1>1, <2>1
  <2>2. CASE Path(k) = Path(j) /\ Kind(j) \in Writers
    <3>1. Path(j)' = Path(k)' /\ Kind(j)' \in Writers /\ At(j)' # "unsent"
      BY <2>2 DEF Moved, Path, Kind, At
    <3>2. ~(j > k)
      BY <3>1 DEF Latest
    <3>3. At(k) # "unsent" /\ jobs[k].alone
      BY <1>1 DEF At
    <3>4. At(j) = "done"
      BY <2>2, <3>2, <3>3 DEF OrdersFit, OrderFits
    <3> QED
      BY <3>4
  <2> QED
    BY <2>1, <2>2
<1>4. FileFits(k)
  BY DEF FilesFit
<1> QED
  BY <1>1, <1>2, <1>3, <1>4 DEF FileFits, Kind, At, Path

LEMMA HandlerKeeps ==
  ASSUME JobsInv, NEW j \in Jobs, NEW s \in JobSteps \ {"unsent"},
         At(j) \notin {"unsent", "done"}, Moved(j, s),
         files' \in [Paths -> File],
         \A p \in Paths : p # Path(j) => files'[p] = files[p],
         Kind(j) \in Writers \/ files' = files, OthersKept(j),
         StepFits(j)', FileFits(j)'
  PROVE  JobsInv'
<1>1. JobsTypeOK'
  BY DEF JobsTypeOK, Moved, OthersKept
<1>2. StepsFit'
  <2> SUFFICES ASSUME NEW k \in Jobs, k # j PROVE StepFits(k)'
    BY DEF StepsFit
  <2>1. StepFits(k)
    BY DEF JobsInv, StepsFit
  <2> QED
    BY <2>1 DEF StepFits, Moved, At, Kind, OthersKept
<1>3. OrdersFit'
  BY MovedKeepsOrder DEF JobsInv
<1>4. FilesFit'
  BY MovedKeepsFiles DEF JobsInv
<1> QED
  BY <1>1, <1>2, <1>3, <1>4 DEF JobsInv

\* A handler of no transfer leaves the files as they are.
LEMMA OtherHandlerKeeps ==
  ASSUME JobsInv, NEW j \in Jobs, NEW s \in JobSteps \ {"unsent"},
         At(j) \notin {"unsent", "done"}, Moved(j, s),
         Kind(j) \notin Writers, files' = files,
         OthersKept(j),
         StepFits(j)'
  PROVE  JobsInv'
<1>1. FileFits(j)'
  BY DEF FileFits, Moved, Kind
<1>2. files' \in [Paths -> File] /\ \A p \in Paths : p # Path(j) => files'[p] = files[p]
  BY DEF JobsInv, JobsTypeOK
<1> QED
  BY <1>1, <1>2, HandlerKeeps

-----------------------------------------------------------------------------
(* The steps of the handlers.                                              *)

LEMMA FileValues ==
  /\ NoFile \in File
  /\ \A j \in Jobs, is \in {"partial", "whole"} :
       [by |-> j, is |-> is] \in File /\ [by |-> j, is |-> is] # NoFile
BY JobsAssumption DEF NoFile, File

LEMMA GiveUpKeeps ==
  ASSUME JobsInv, NEW j \in Jobs, At(j) \in {"open", "write", "verify"},
         GiveUpFile(j), UNCHANGED <<program, offspring, temp>>
  PROVE  JobsInv'
<1> USE DEF JobsInv
<1>1. /\ Kind(j) \in Writers /\ program[j] = "none" /\ offspring[j] = "none" /\ j \notin temp
      /\ Path(j) \in Paths
  BY DEF StepsFit, StepFits, JobsTypeOK, Path, Job
<1>2. /\ files' = [files EXCEPT ![Path(j)] = NoFile]
      /\ files' \in [Paths -> File]
      /\ \A p \in Paths : p # Path(j) => files'[p] = files[p]
  BY FileValues DEF GiveUpFile, JobsTypeOK
<1>3. CASE jobs[j].kind = "download" /\ jobs[j].tries + 1 < MaxDownloadTries
  <2>1. jobs' = [jobs EXCEPT ![j].at = "open", ![j].tries = @ + 1]
    BY <1>3 DEF GiveUpFile
  <2>3. Moved(j, "open")
    BY <2>1 DEF JobsTypeOK, Job
  <2>4. StepFits(j)' /\ FileFits(j)'
    BY <1>1, <2>3 DEF StepFits, FileFits, Moved, Kind, At
  <2> HIDE DEF JobsInv
  <2> QED
    BY <1>1, <1>2, <2>3, <2>4, HandlerKeeps, NothingStarted DEF JobsInv, JobsTypeOK, JobSteps
<1>4. CASE ~(jobs[j].kind = "download" /\ jobs[j].tries + 1 < MaxDownloadTries)
  <2>1. Moved(j, "done") /\ jobs'[j].answer \in {"lost", "error"}
    BY <1>4, JobReplyMoves, FileValues DEF GiveUpFile
  <2>2. files'[Path(j)'] = NoFile
    BY <1>2, <2>1 DEF Moved, Path
  <2>3. StepFits(j)' /\ FileFits(j)'
    BY <1>1, <2>1, <2>2 DEF StepFits, FileFits, Moved, At
  <2> HIDE DEF JobsInv
  <2> QED
    BY <1>1, <1>2, <2>1, <2>3, HandlerKeeps, NothingStarted DEF JobsInv, JobsTypeOK, JobSteps
<1> QED
  BY <1>3, <1>4

LEMMA OpenKeeps ==
  ASSUME JobsInv, NEW j \in Jobs, OpenFile(j)
  PROVE  JobsInv'
<1>1. CASE GiveUpFile(j)
  BY <1>1, GiveUpKeeps DEF OpenFile, At
<1>2. CASE /\ \E a \in Announcements :
                jobs' = [jobs EXCEPT ![j].at = "write", ![j].announced = a]
           /\ files' = [files EXCEPT ![Path(j)] = [by |-> j, is |-> "partial"]]
  <2>1. Moved(j, "write") /\ At(j) = "open"
    <3> PICK a \in Announcements :
               jobs' = [jobs EXCEPT ![j].at = "write", ![j].announced = a]
      BY <1>2
    <3> DEFINE r == [jobs[j] EXCEPT !.at = "write", !.announced = a]
    <3>1. jobs[j] \in Job /\ jobs \in [Jobs -> Job]
      BY DEF JobsInv, JobsTypeOK
    <3>2. r \in Job
      BY <3>1 DEF Job, JobSteps
    <3>3. /\ r.at = "write" /\ r.kind = jobs[j].kind /\ r.path = jobs[j].path
          /\ r.alone = jobs[j].alone /\ r.answer = jobs[j].answer
      BY <3>1 DEF Job
    <3>4. jobs' = [jobs EXCEPT ![j] = r]
      OBVIOUS
    <3> HIDE DEF r
    <3> QED
      BY <3>1, <3>2, <3>3, <3>4 DEF OpenFile, At, Moved
  <2>2. Kind(j) \in Writers /\ program[j] = "none" /\ offspring[j] = "none" /\ j \notin temp /\ Path(j) \in Paths
    BY <2>1 DEF JobsInv, StepsFit, StepFits, JobsTypeOK, Path, Job
  <2>3. /\ files' \in [Paths -> File]
        /\ \A p \in Paths : p # Path(j) => files'[p] = files[p]
        /\ files'[Path(j)] = [by |-> j, is |-> "partial"]
    BY <1>2, <2>2, FileValues DEF JobsInv, JobsTypeOK
  <2>4. StepFits(j)' /\ FileFits(j)'
    BY <2>1, <2>2, <2>3 DEF OpenFile, StepFits, FileFits, Moved, Kind, At, Path
  <2> QED
    BY <2>1, <2>2, <2>3, <2>4, HandlerKeeps, NothingStarted DEF OpenFile, JobsInv, JobsTypeOK, JobSteps
<1> QED
  BY <1>1, <1>2 DEF OpenFile, Announcements

LEMMA WriteKeeps ==
  ASSUME JobsInv, NEW j \in Jobs, WriteFile(j)
  PROVE  JobsInv'
<1>0. At(j) = "write" /\ UNCHANGED <<program, offspring, temp>>
  BY DEF WriteFile, At
<1>1. CASE GiveUpFile(j)
  BY <1>0, <1>1, GiveUpKeeps
<1>2. CASE /\ JobAt(j, "verify")
           /\ \/ files' = IF files[Path(j)].by = j
                          THEN [files EXCEPT ![Path(j)].is = "whole"] ELSE files
              \/ jobs[j].kind = "download" /\ UNCHANGED files
  <2>1. Moved(j, "verify")
    BY <1>2, JobAtMoves DEF JobSteps, JobsInv
  <2>2. /\ Kind(j) \in Writers /\ program[j] = "none" /\ offspring[j] = "none" /\ j \notin temp
        /\ Path(j) \in Paths /\ files[Path(j)] \in File
    BY <1>0 DEF JobsInv, StepsFit, StepFits, JobsTypeOK, Path, Job
  <2>3. /\ files' \in [Paths -> File]
        /\ \A p \in Paths : p # Path(j) => files'[p] = files[p]
    <3>1. [files[Path(j)] EXCEPT !.is = "whole"] \in File
      BY <2>2 DEF File
    <3>2. CASE files' = files
      BY <3>2 DEF JobsInv, JobsTypeOK
    <3>3. CASE files' = [files EXCEPT ![Path(j)] = [files[Path(j)] EXCEPT !.is = "whole"]]
      BY <3>1, <3>3 DEF JobsInv, JobsTypeOK
    <3> QED
      BY <1>2, <3>2, <3>3
  <2>4. StepFits(j)'
    BY <1>0, <2>1, <2>2 DEF StepFits, Moved, Kind, At
  <2>5. FileFits(j)'
    <3> SUFFICES ASSUME jobs'[j].alone, Latest(j)'
                 PROVE  /\ files'[Path(j)].by = j /\ files'[Path(j)].is # "absent"
                        /\ Kind(j) = "upload" => files'[Path(j)].is = "whole"
      BY <2>1 DEF FileFits, Moved, Kind, At, Path
    <3>1. Latest(j)
      BY <2>1 DEF Latest, Moved, Path, Kind, At
    <3>2. files[Path(j)] = [by |-> j, is |-> "partial"]
      BY <1>0, <2>1, <2>2, <3>1 DEF JobsInv, FilesFit, FileFits, Moved
    <3> QED
      BY <1>2, <2>2, <3>2 DEF JobsInv, JobsTypeOK, Kind
  <2> QED
    BY <1>0, <2>1, <2>2, <2>3, <2>4, <2>5, HandlerKeeps, NothingStarted DEF JobsInv, JobsTypeOK, JobSteps
<1> QED
  BY <1>1, <1>2 DEF WriteFile

LEMMA VerifyKeeps ==
  ASSUME JobsInv, NEW j \in Jobs, VerifyFile(j)
  PROVE  JobsInv'
<1>0. At(j) = "verify" /\ UNCHANGED <<program, offspring, temp>>
  BY DEF VerifyFile, At
<1>1. CASE GiveUpFile(j)
  BY <1>0, <1>1, GiveUpKeeps
<1>2. CASE JobReply(j, "ok", NoFile) /\ UNCHANGED files /\ SizeMatches(j)
  <2>1. /\ Moved(j, "done") /\ jobs'[j].answer \in {"lost", "ok"}
        /\ jobs'[j].announced = jobs[j].announced
    BY <1>2, JobReplyMoves, FileValues DEF JobsInv
  <2>2. /\ Kind(j) \in Writers /\ program[j] = "none" /\ offspring[j] = "none" /\ j \notin temp
        /\ Path(j) \in Paths /\ files[Path(j)] \in File
    BY <1>0 DEF JobsInv, StepsFit, StepFits, JobsTypeOK, Path, Job
  <2>3. StepFits(j)'
    BY <1>0, <2>1, <2>2 DEF StepFits, Moved, At
  <2>4. FileFits(j)'
    <3> SUFFICES ASSUME jobs'[j].alone, Latest(j)'
                 PROVE  \/ files[Path(j)] = [by |-> j, is |-> "whole"]
                        \/ /\ Kind(j) = "download" /\ jobs[j].announced = "nothing"
                           /\ files[Path(j)] = [by |-> j, is |-> "partial"]
      BY <1>2, <2>1 DEF FileFits, Moved, At, Path, Kind
    <3>1. Latest(j)
      BY <2>1 DEF Latest, Moved, Path, Kind, At
    <3>2. /\ files[Path(j)].by = j /\ files[Path(j)].is # "absent"
          /\ Kind(j) = "upload" => files[Path(j)].is = "whole"
      BY <1>0, <2>1, <2>2, <3>1 DEF JobsInv, FilesFit, FileFits, Moved
    <3>3. jobs[j].announced \in Announcements
      BY DEF JobsInv, JobsTypeOK, Job
    <3> QED
      BY <1>2, <2>2, <3>2, <3>3 DEF File, Kind, Writers, SizeMatches, Announcements
  <2>5. /\ files' \in [Paths -> File]
        /\ \A p \in Paths : p # Path(j) => files'[p] = files[p]
    BY <1>2 DEF JobsInv, JobsTypeOK
  <2> QED
    BY <1>0, <2>1, <2>2, <2>3, <2>4, <2>5, HandlerKeeps, NothingStarted DEF JobsInv, JobsTypeOK, JobSteps
<1> QED
  BY <1>1, <1>2 DEF VerifyFile

\* The handlers of reads and programs.
LEMMA KindsAreApart ==
  /\ (Programs \cup {"fetch", "launch"}) \cap Writers = {}
  /\ Scripts \subseteq Programs /\ "launch" \notin Programs
BY DEF Programs, Scripts, Writers

LEMMA ReadersKeep ==
  ASSUME JobsInv, NEW j \in Jobs, FindFile(j) \/ ReadFile(j)
  PROVE  JobsInv'
<1>0. /\ At(j) \in {"exists", "read"} /\ UNCHANGED <<files, program, offspring, temp>>
      /\ program[j] = "none" /\ offspring[j] = "none" /\ j \notin temp
      /\ Kind(j) = "fetch" /\ Kind(j) \notin Writers
  BY KindsAreApart DEF FindFile, ReadFile, At, JobsInv, StepsFit, StepFits
<1>1. PICK s \in JobSteps \ {"unsent"} : Moved(j, s) /\ s \in {"read", "done"}
  <2>1. files[Path(j)] \in File
    BY DEF JobsInv, JobsTypeOK, Path, Job
  <2> QED
    BY <2>1, JobAtMoves, JobReplyMoves DEF FindFile, ReadFile, JobSteps, JobsInv
<1>2. StepFits(j)'
  BY <1>0, <1>1 DEF StepFits, Moved, At, Kind
<1> QED
  BY <1>0, <1>1, <1>2, OtherHandlerKeeps, NothingStarted DEF JobsInv, JobsTypeOK

LEMMA StartersKeep ==
  ASSUME JobsInv, NEW j \in Jobs, WriteScript(j) \/ Launch(j) \/ Spawn(j)
  PROVE  JobsInv'
<1>0. /\ At(j) \in {"script", "spawn"} /\ UNCHANGED files
      /\ program[j] = "none" /\ offspring[j] = "none" /\ UNCHANGED offspring
      /\ Kind(j) \notin Writers
      /\ At(j) = "script" => j \notin temp /\ Kind(j) \in Scripts
      /\ At(j) = "spawn" => Kind(j) \in Programs \cup {"launch"}
      /\ j \in temp => Kind(j) \in Scripts
  BY KindsAreApart DEF WriteScript, Launch, Spawn, At, JobsInv, StepsFit, StepFits
<1>1. CASE WriteScript(j)
  <2>1. PICK s \in {"spawn", "done"} : Moved(j, s)
    BY <1>1, JobAtMoves, JobReplyMoves, FileValues DEF WriteScript, JobSteps, JobsInv
  <2>2. StepFits(j)' /\ OthersKept(j)
    BY <1>0, <1>1, <2>1, KindsAreApart DEF WriteScript, StepFits, Moved, At, Kind, JobsInv,
       JobsTypeOK, OthersKept
  <2> QED
    BY <1>0, <2>1, <2>2, OtherHandlerKeeps DEF JobSteps
<1>2. CASE Launch(j)
  <2>1. Moved(j, "done") /\ Kind(j) = "launch"
    BY <1>2, JobReplyMoves, FileValues DEF Launch, JobsInv, Kind
  <2>2. program'[j] \in {"none", "running"} /\ OthersKept(j)
    BY <1>0, <1>2 DEF Launch, JobsInv, JobsTypeOK, OthersKept
  <2>3. StepFits(j)'
    BY <1>0, <1>2, <2>1, KindsAreApart DEF Launch, StepFits, Moved, At, Kind
  <2> QED
    BY <1>0, <2>1, <2>2, <2>3, OtherHandlerKeeps DEF JobSteps
<1>3. CASE Spawn(j)
  <2>1. OthersKept(j)
    BY <1>3 DEF Spawn, JobsInv, JobsTypeOK, OthersKept
  <2>2. CASE JobAt(j, "run") /\ program' = [program EXCEPT ![j] = "running"] /\ UNCHANGED temp
    <3>1. Moved(j, "run")
      BY <2>2, JobAtMoves DEF JobSteps, JobsInv
    <3>2. Kind(j) \in Programs
      BY <1>0, <1>3 DEF Spawn, Kind, At
    <3>4. StepFits(j)'
      BY <1>0, <2>2, <3>1, <3>2 DEF StepFits, Moved, At, Kind
    <3> QED
      BY <1>0, <2>1, <3>1, <3>4, OtherHandlerKeeps DEF JobSteps
  <2>3. CASE JobReply(j, "error", NoFile) /\ temp' = temp \ {j} /\ UNCHANGED program
    <3>1. Moved(j, "done")
      BY <2>3, JobReplyMoves, FileValues DEF JobsInv
    <3>2. StepFits(j)'
      BY <1>0, <2>3, <3>1 DEF StepFits, Moved, At
    <3> QED
      BY <1>0, <2>1, <3>1, <3>2, OtherHandlerKeeps DEF JobSteps
  <2> QED
    BY <1>3, <2>2, <2>3 DEF Spawn
<1> QED
  BY <1>1, <1>2, <1>3

LEMMA ProgramStepsKeep ==
  ASSUME JobsInv, NEW j \in Jobs,
         ProgramReturns(j) \/ ProgramTimesOut(j) \/ CheckOutcome(j)
  PROVE  JobsInv'
<1>0. /\ At(j) \in {"run", "check"} /\ UNCHANGED <<files, offspring>>
      /\ Kind(j) \in Programs /\ Kind(j) \notin Writers
      /\ At(j) = "check" =>
           j \notin temp /\ program[j] # "running" /\ offspring[j] # "attached"
  BY KindsAreApart DEF ProgramReturns, ProgramTimesOut, CheckOutcome, At, JobsInv, StepsFit,
     StepFits
<1>1. PICK s \in {"check", "done"} :
        /\ Moved(j, s)
        /\ ProgramTimesOut(j) => s = "done" /\ jobs'[j].answer \in {"lost", "error"}
  BY JobAtMoves, JobReplyMoves, FileValues DEF ProgramReturns, ProgramTimesOut, CheckOutcome,
     JobSteps, JobsInv
<1>2. program'[j] # "running" /\ j \notin temp' /\ OthersKept(j)
  BY <1>0 DEF ProgramReturns, OutputEnded, ProgramTimesOut, CheckOutcome, At, JobsInv,
     JobsTypeOK, OthersKept
<1>3. ~ProgramTimesOut(j) => offspring[j] # "attached"
  BY <1>0 DEF ProgramReturns, CheckOutcome, OutputEnded, At
<1>4. StepFits(j)'
  BY <1>0, <1>1, <1>2, <1>3 DEF StepFits, Moved, At, Kind
<1> QED
  BY <1>0, <1>1, <1>2, <1>4, OtherHandlerKeeps DEF JobSteps

-----------------------------------------------------------------------------
(* The other steps.                                                        *)

LEMMA SendKeeps ==
  ASSUME JobsInv, NEW j \in Jobs, NEW kind \in JobKinds, NEW p \in Paths, SendJob(j, kind, p)
  PROVE  JobsInv'
<1> DEFINE alone == \A i \in 1..(j - 1) : Path(i) = p => jobs[i].at = "done"
           new == [jobs[j] EXCEPT !.kind = kind, !.path = p, !.at = FirstStep(kind),
                                  !.alone = alone]
<1>1. /\ FirstStep(kind) \in {"open", "exists", "script", "spawn"}
      /\ FirstStep(kind) = "open" => kind \in Writers
      /\ FirstStep(kind) = "exists" => kind = "fetch"
      /\ FirstStep(kind) = "script" => kind \in Scripts
      /\ FirstStep(kind) = "spawn" => kind \in Programs \cup {"launch"}
  BY DEF FirstStep, JobKinds
<1>2. new \in Job
  <2>1. jobs[j] \in Job /\ alone \in BOOLEAN /\ FirstStep(kind) \in JobSteps
    BY <1>1 DEF JobsInv, JobsTypeOK, JobSteps
  <2> QED
    BY <2>1 DEF Job
<1>3. jobs' = [jobs EXCEPT ![j] = new]
  BY DEF SendJob
<1>4. /\ new.kind = kind /\ new.path = p /\ new.at = FirstStep(kind)
      /\ new.alone = alone
  OBVIOUS
<1> HIDE DEF new
<1>5. /\ jobs' \in [Jobs -> Job] /\ jobs'[j] = new
      /\ \A i \in Jobs : i # j => jobs'[i] = jobs[i]
  BY <1>2, <1>3 DEF JobsInv, JobsTypeOK
<1>6. /\ UNCHANGED <<files, program, offspring, temp>> /\ At(j) = "unsent"
      /\ program[j] = "none" /\ offspring[j] = "none" /\ j \notin temp
  BY DEF SendJob, At, JobsInv, StepsFit, StepFits
<1>7. JobsTypeOK'
  BY <1>5, <1>6 DEF JobsInv, JobsTypeOK
<1>8. StepsFit'
  <2> SUFFICES ASSUME NEW k \in Jobs PROVE StepFits(k)'
    BY DEF StepsFit
  <2>1. CASE k = j
    BY <1>1, <1>4, <1>5, <1>6, <2>1 DEF StepFits, At, Kind
  <2>2. CASE k # j
    BY <1>5, <1>6, <2>2 DEF JobsInv, StepsFit, StepFits, At, Kind
  <2> QED
    BY <2>1, <2>2
<1>9. OrdersFit'
  <2> SUFFICES ASSUME NEW k \in Jobs PROVE OrderFits(k)'
    BY DEF OrdersFit
  <2>1. CASE k = j
    <3>1. \A i \in Jobs : i < j => At(i) # "unsent"
      BY DEF SendJob, JobsInv, OrdersFit, OrderFits
    <3>2. \A i \in Jobs : i < j => (alone /\ Path(i) = p => At(i) = "done")
      BY DEF At
    <3> QED
      <4>1. At(j)' # "unsent" /\ jobs'[j].alone = alone /\ Path(j)' = p
        BY <1>1, <1>4, <1>5 DEF At, Path
      <4>2. \A i \in Jobs : i < j => At(i)' = At(i) /\ Path(i)' = Path(i)
        BY <1>5 DEF At, Path
      <4> HIDE DEF alone
      <4> QED
        BY <2>1, <3>1, <3>2, <4>1, <4>2 DEF OrderFits
  <2>2. CASE k # j
    <3>1. OrderFits(k)
      BY DEF JobsInv, OrdersFit
    <3>2. At(k) # "unsent" => ~(j < k)
      BY <1>6, <3>1 DEF OrderFits
    <3> QED
      BY <1>5, <2>2, <3>1, <3>2 DEF OrderFits, At, Path
  <2> QED
    BY <2>1, <2>2
<1>10. FilesFit'
  <2> SUFFICES ASSUME NEW k \in Jobs PROVE FileFits(k)'
    BY DEF FilesFit
  <2>1. CASE k = j
    BY <1>1, <1>4, <1>5, <2>1 DEF FileFits, At
  <2>2. CASE k # j
    <3>1. Latest(k)' => Latest(k)
      BY <1>5, <1>6, <2>2 DEF Latest, At, Path, Kind
    <3> QED
      BY <1>5, <1>6, <2>2, <3>1 DEF JobsInv, FilesFit, FileFits, At, Path, Kind
  <2> QED
    BY <2>1, <2>2
<1> QED
  BY <1>7, <1>8, <1>9, <1>10 DEF JobsInv

LEMMA LossKeeps ==
  ASSUME JobsInv, NEW j \in Jobs, JobAnswerIsLost(j)
  PROVE  JobsInv'
<1>1. /\ jobs' \in [Jobs -> Job] /\ jobs'[j].answer = "lost"
      /\ \A i \in Jobs : i # j => jobs'[i] = jobs[i]
      /\ \A i \in Jobs : /\ At(i)' = At(i) /\ Kind(i)' = Kind(i) /\ Path(i)' = Path(i)
                         /\ jobs'[i].alone = jobs[i].alone
  BY DEF JobAnswerIsLost, JobsInv, JobsTypeOK, Job, At, Kind, Path
<1>2. UNCHANGED <<files, program, offspring, temp>> /\ At(j) \notin {"unsent", "done"}
  BY DEF JobAnswerIsLost, At
<1>3. JobsTypeOK' /\ StepsFit'
  BY <1>1, <1>2 DEF JobsInv, JobsTypeOK, StepsFit, StepFits
<1>4. OrdersFit'
  BY <1>1, <1>2 DEF JobsInv, OrdersFit, OrderFits
<1>5. FilesFit'
  <2> SUFFICES ASSUME NEW k \in Jobs PROVE FileFits(k)'
    BY DEF FilesFit
  <2>1. Latest(k)' => Latest(k)
    BY <1>1 DEF Latest
  <2>3. FileFits(k)
    BY DEF JobsInv, FilesFit
  <2> QED
    BY <1>1, <1>2, <2>1, <2>3 DEF FileFits
<1> QED
  BY <1>3, <1>4, <1>5 DEF JobsInv

LEMMA ProcessesKeep ==
  ASSUME JobsInv, NEW j \in Jobs, ProgramEnds(j) \/ ProgramForks(j) \/ OffspringEnds(j)
  PROVE  JobsInv'
<1>1. UNCHANGED <<jobs, files, temp>> /\ OthersKept(j)
  BY DEF ProgramEnds, ProgramForks, OffspringEnds, JobsInv, JobsTypeOK, OthersKept
<1>2. /\ program'[j] # program[j] => program[j] = "running" /\ program'[j] = "over"
      /\ offspring'[j] # offspring[j] =>
           \/ program[j] = "running" /\ Kind(j) # "launch"
           \/ offspring[j] # "none" /\ offspring'[j] = "over"
  BY DEF ProgramEnds, ProgramForks, OffspringEnds, Kind, JobsInv, JobsTypeOK
<1>3. StepsFit'
  <2> SUFFICES ASSUME NEW k \in Jobs PROVE StepFits(k)'
    BY DEF StepsFit
  <2>1. StepFits(k) /\ StepFits(j)
    BY DEF JobsInv, StepsFit
  <2> QED
    BY <1>1, <1>2, <2>1 DEF StepFits, At, Kind, OthersKept
<1>4. JobsTypeOK'
  BY <1>1 DEF JobsInv, JobsTypeOK, OthersKept
<1>5. OrdersFit' /\ FilesFit'
  BY <1>1 DEF JobsInv, OrdersFit, OrderFits, FilesFit, FileFits, Latest, At, Kind, Path
<1> QED
  BY <1>3, <1>4, <1>5 DEF JobsInv

-----------------------------------------------------------------------------
LEMMA JobsInitially == JobsInit => JobsInv
<1> SUFFICES ASSUME JobsInit PROVE JobsInv
  OBVIOUS
<1> DEFINE new == [kind |-> "launch", path |-> CHOOSE p \in Paths : TRUE,
                   at |-> "unsent", alone |-> FALSE, tries |-> 0,
                   announced |-> "nothing", answer |-> "none", got |-> NoFile]
<1>1. new \in Job
  <2>1. (CHOOSE p \in Paths : TRUE) \in Paths
    BY JobsAssumption
  <2>2. "launch" \in JobKinds /\ "unsent" \in JobSteps /\ 0 \in 0..(MaxDownloadTries - 1)
        /\ "nothing" \in Announcements
    BY DEF JobKinds, JobSteps, MaxDownloadTries, Announcements
  <2> QED
    BY <2>1, <2>2, FileValues DEF Job
<1>2. /\ new.at = "unsent" /\ new.kind = "launch" /\ new.answer = "none"
      /\ new.alone = FALSE
  OBVIOUS
<1>3. jobs = [j \in Jobs |-> new]
  BY DEF JobsInit
<1> HIDE DEF new
<1>4. JobsTypeOK
  BY <1>1, <1>3, FileValues DEF JobsInit, JobsTypeOK
<1>5. \A j \in Jobs : At(j) = "unsent" /\ Kind(j) = "launch" /\ jobs[j].answer = "none"
                      /\ jobs[j].alone = FALSE
  BY <1>2, <1>3 DEF At, Kind
<1>6. StepsFit /\ OrdersFit /\ FilesFit
  BY <1>5 DEF JobsInit, StepsFit, StepFits, OrdersFit, OrderFits, FilesFit, FileFits
<1> QED
  BY <1>4, <1>6 DEF JobsInv

LEMMA JobsStep == JobsInv /\ [JobsNext]_jobVars => JobsInv'
<1> SUFFICES ASSUME JobsInv, [JobsNext]_jobVars PROVE JobsInv'
  OBVIOUS
<1>1. CASE UNCHANGED jobVars
  BY <1>1 DEF jobVars, JobsInv, JobsTypeOK, StepsFit, StepFits, OrdersFit, OrderFits, FilesFit,
     FileFits, Latest, At, Kind, Path
<1>2. ASSUME NEW j \in Jobs, NEW kind \in JobKinds, NEW p \in Paths, SendJob(j, kind, p)
      PROVE  JobsInv'
  BY <1>2, SendKeeps
<1>3. ASSUME NEW j \in Jobs, \/ JobAnswerIsLost(j)
                        \/ ProgramEnds(j) \/ ProgramForks(j) \/ OffspringEnds(j)
      PROVE  JobsInv'
  BY <1>3, LossKeeps, ProcessesKeep
<1>4. ASSUME NEW j \in Jobs, JobHandler(j)
      PROVE  JobsInv'
  BY <1>4, OpenKeeps, WriteKeeps, VerifyKeeps, ReadersKeep, StartersKeep, ProgramStepsKeep
     DEF JobHandler
<1> QED
  BY <1>1, <1>2, <1>3, <1>4 DEF JobsNext

\* The inductive invariant holds in every reachable state of the guest's
\* file and program handlers.
THEOREM JobsInvariance == JobsSpec => []JobsInv
BY JobsInitially, JobsStep, PTL DEF JobsSpec

\* Every variable of the file and program handlers keeps its type.
THEOREM JobsTypeCorrectness == JobsSpec => []JobsTypeOK
<1>1. JobsInv => JobsTypeOK
  BY DEF JobsInv
<1> QED
  BY <1>1, JobsInvariance, PTL

\* Of the last transfer to a path, begun with no other one at work on it, the
\* caller is told the truth: failure means that nothing is there, success that
\* the whole file is, or its beginning when download_file was told no size.
THEOREM TransfersAreTold == JobsSpec => []TransfersAreToldAsTheyAre
<1>1. JobsInv => TransfersAreToldAsTheyAre
  <2> SUFFICES ASSUME JobsInv, NEW j \in Jobs, SoleWriter(j)
               PROVE  /\ jobs[j].answer = "ok" =>
                           \/ files[Path(j)] = [by |-> j, is |-> "whole"]
                           \/ /\ jobs[j].kind = "download" /\ jobs[j].announced = "nothing"
                              /\ files[Path(j)] = [by |-> j, is |-> "partial"]
                      /\ jobs[j].answer = "error" => files[Path(j)] = NoFile
    BY DEF TransfersAreToldAsTheyAre
  <2>1. FileFits(j)
    BY DEF JobsInv, FilesFit
  <2> QED
    BY <2>1 DEF SoleWriter, FileFits, Latest, At, Kind
<1> QED
  BY <1>1, JobsInvariance, PTL

\* When main.py has answered a request to run a program, the process that it
\* started is over and the script file gone; a command below that process
\* which still holds its output runs on only behind an error or a lost answer.
THEOREM StraysAreTold == JobsSpec => []WhatRunsOnIsTold
<1>1. JobsInv => WhatRunsOnIsTold
  BY DEF JobsInv, StepsFit, StepFits, WhatRunsOnIsTold, At, Kind, Programs, Scripts
<1> QED
  BY <1>1, JobsInvariance, PTL
=============================================================================
