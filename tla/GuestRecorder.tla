--------------------------- MODULE GuestRecorder ---------------------------
(***************************************************************************)
(* Screen recording in the guest's control server (main.py, served by      *)
(* serve.py with one thread per request), as the one caller of a guest     *)
(* sees it through the relay's HTTP proxy.                                 *)
(*                                                                         *)
(* The server keeps the running ffmpeg in a module global that every       *)
(* handler reads again at each use, and one output file.  The caller sends *)
(* a request once it has an answer to the one before; the relay may answer *)
(* 502 or 504 in the guest's place, and the handler then goes on in its    *)
(* thread while the next request runs.                                     *)
(*                                                                         *)
(* A recorder is named by the request that started it; 0 stands for none.  *)
(***************************************************************************)
EXTENDS Naturals, FiniteSets

CONSTANTS
  MaxRecordingRequests,  \* bound: the requests of a behaviour
  MaxLostAnswers         \* bound: the answers that the relay gives instead

ASSUME RecordingAssumption ==
  MaxRecordingRequests \in Nat /\ MaxLostAnswers \in Nat

Calls == 1..MaxRecordingRequests

VARIABLES
  calls,       \* what the caller has sent: operation, next step, the
               \* recorder it waits on, answer and video
  process,     \* recording_process: the recorder the handlers know, or 0
  ffmpeg,      \* the recorders: how far each is
  deaf,        \* the recorders that hang and ignore SIGINT
  killed,      \* the recorders a handler has killed
  interrupted, \* the recorders that were sent SIGINT
  full,        \* the recorders blocked on their full stderr pipe
  video        \* /tmp/recording.mp4: who writes it and how far it is

recorderVars ==
  <<calls, process, ffmpeg, deaf, killed, interrupted, full, video>>

Steps == {"unsent", "check", "remove", "popen", "wait", "settle", "read",
          "signal", "drain", "communicate", "kill", "collect", "reap",
          "serve", "done"}
Answers == {"none", "ok", "error", "lost"}
Video == [by : 0..MaxRecordingRequests,
          is : {"absent", "growing", "finished", "broken"}]
NoVideo == [by |-> 0, is |-> "absent"]

Alive(r) == r # 0 /\ ffmpeg[r] \in {"starting", "recording"}

RecorderInit ==
  /\ calls = [c \in Calls |-> [op |-> "start", at |-> "unsent",
                               on |-> 0, answer |-> "none",
                               got |-> NoVideo]]
  /\ process = 0
  /\ ffmpeg = [c \in Calls |-> "none"]
  /\ deaf = {} /\ killed = {} /\ interrupted = {} /\ full = {}
  /\ video = NoVideo

-----------------------------------------------------------------------------
(* The caller and the relay.                                               *)

\* Handler c takes its next step.
Goto(c, step) == calls' = [calls EXCEPT ![c].at = step]

\* Handler c returns; a caller that was answered by the relay hears nothing.
Reply(c, answer, got) ==
  calls' = [calls EXCEPT
    ![c].at = "done", ![c].on = 0, ![c].got = got,
    ![c].answer = IF @ = "lost" THEN "lost" ELSE answer]

Refuse(c) == Reply(c, "error", NoVideo)

\* A method of the process object: the global is read once, and None has no
\* such attribute, which answers 500.
GotoOn(c, step) ==
  IF process = 0 THEN Refuse(c)
  ELSE calls' = [calls EXCEPT ![c].at = step, ![c].on = process]

\* Whoever calls has had every answer from the guest.
NothingLost == \A c \in Calls : calls[c].answer # "lost"

SendRecordingCall(c, op) ==
  /\ calls[c].at = "unsent"
  /\ \A b \in 1..(c - 1) : calls[b].answer # "none"
  /\ calls' = [calls EXCEPT ![c].op = op, ![c].at = "check"]
  /\ UNCHANGED <<process, ffmpeg, deaf, killed, interrupted, full, video>>

\* The relay answers 502 or 504 while the guest's handler is at work.
AnswerIsLost(c) ==
  /\ calls[c].at \notin {"unsent", "done"}
  /\ calls[c].answer = "none"
  /\ Cardinality({b \in Calls : calls[b].answer = "lost"}) < MaxLostAnswers
  /\ calls' = [calls EXCEPT ![c].answer = "lost"]
  /\ UNCHANGED <<process, ffmpeg, deaf, killed, interrupted, full, video>>

-----------------------------------------------------------------------------
(* start_recording.                                                        *)

\* A variant does not ask whether a recorder runs.
StartUnchecked(c) ==
  /\ calls[c].at = "check" /\ calls[c].op = "start"
  /\ Goto(c, "remove")
  /\ UNCHANGED <<process, ffmpeg, deaf, killed, interrupted, full, video>>

CheckStart(c) ==
  /\ calls[c].at = "check" /\ calls[c].op = "start"
  /\ IF Alive(process) THEN Refuse(c) ELSE Goto(c, "remove")
  /\ UNCHANGED <<process, ffmpeg, deaf, killed, interrupted, full, video>>

\* A variant leaves it to ffmpeg -y to replace the file.
KeepOldVideo(c) ==
  /\ calls[c].at = "remove"
  /\ Goto(c, "popen")
  /\ UNCHANGED <<process, ffmpeg, deaf, killed, interrupted, full, video>>

\* os.remove unlinks the name: a recorder that still writes goes on in a
\* file nobody can reach.  The removal may fail.
RemoveOldVideo(c) ==
  /\ calls[c].at = "remove"
  /\ \/ Goto(c, "popen") /\ video' = NoVideo
     \/ video # NoVideo /\ Refuse(c) /\ UNCHANGED video
  /\ UNCHANGED <<process, ffmpeg, deaf, killed, interrupted, full>>

\* Popen may raise: the global then keeps the process it had.
OpenRecorder(c) ==
  /\ calls[c].at = "popen"
  /\ \/ /\ Goto(c, "wait")
        /\ ffmpeg' = [ffmpeg EXCEPT ![c] = "starting"]
        /\ process' = c
     \/ Refuse(c) /\ UNCHANGED <<ffmpeg, process>>
  /\ UNCHANGED <<deaf, killed, interrupted, full, video>>

WaitForRecorder(c) ==
  /\ calls[c].at = "wait"
  /\ GotoOn(c, "settle")
  /\ UNCHANGED <<process, ffmpeg, deaf, killed, interrupted, full, video>>

\* wait(timeout=2): a recorder that is over within it is an error, whose text
\* is read from the stderr of the recorder that the global names by then.
Settle(c) ==
  /\ calls[c].at = "settle"
  /\ IF Alive(calls[c].on) THEN Reply(c, "ok", NoVideo) ELSE GotoOn(c, "read")
  /\ UNCHANGED <<process, ffmpeg, deaf, killed, interrupted, full, video>>

\* read() returns at the end of that recorder's stderr, not before.
ReadErrors(c) ==
  /\ calls[c].at = "read"
  /\ ~Alive(calls[c].on)
  /\ Refuse(c)
  /\ UNCHANGED <<process, ffmpeg, deaf, killed, interrupted, full, video>>

-----------------------------------------------------------------------------
(* end_recording.                                                          *)

CheckEnd(c) ==
  /\ calls[c].at = "check" /\ calls[c].op = "end"
  /\ IF Alive(process)
     THEN Goto(c, "signal") /\ UNCHANGED process
     ELSE Refuse(c) /\ process' = 0
  /\ UNCHANGED <<ffmpeg, deaf, killed, interrupted, full, video>>

SignalRecorder(c) ==
  /\ calls[c].at = "signal"
  /\ GotoOn(c, "drain")
  /\ interrupted' = interrupted \cup ({process} \ {0})
  /\ UNCHANGED <<process, ffmpeg, deaf, killed, full, video>>

DrainRecorder(c) ==
  /\ calls[c].at = "drain"
  /\ GotoOn(c, "communicate")
  /\ UNCHANGED <<process, ffmpeg, deaf, killed, interrupted, full, video>>

\* A variant waits for the recorder and reads its pipe afterwards.
Undrained(r) == r \notin Calls

\* communicate() and read() empty the recorder's stderr pipe while they wait;
\* nobody else reads it.
Drained(r) ==
  \E c \in Calls : calls[c].at \in {"communicate", "read", "reap"} /\ calls[c].on = r
Blocked(r) == r \in full /\ ~Drained(r)

\* A process object is not made for two threads: communicate() may raise when
\* another handler, of a request the relay answered or of the next one, has
\* read and closed the same pipe.
RecorderGone(c) ==
  /\ calls[c].at = "communicate"
  /\ ~Alive(calls[c].on)
  /\ \/ Goto(c, "serve") /\ process' = 0
     \/ ~NothingLost /\ Refuse(c) /\ UNCHANGED process
  /\ UNCHANGED <<ffmpeg, deaf, killed, interrupted, full, video>>

Obeys(r) == r \in interrupted /\ r \notin deaf /\ ~Blocked(r)

\* A variant waits without a timeout.
WaitsForever(c) == calls[c].at = "communicate" /\ FALSE

\* TimeoutExpired after 15 seconds, which a recorder that obeys the signal
\* does not need.
CommunicateTimesOut(c) ==
  /\ calls[c].at = "communicate"
  /\ Alive(calls[c].on) /\ ~Obeys(calls[c].on)
  /\ Goto(c, "kill")
  /\ UNCHANGED <<process, ffmpeg, deaf, killed, interrupted, full, video>>

\* kill() is sent to the recorder that the global names now.
KillRecorder(c) ==
  /\ calls[c].at = "kill"
  /\ GotoOn(c, "collect")
  /\ IF Alive(process)
     THEN /\ killed' = killed \cup {process}
          /\ ffmpeg' = [ffmpeg EXCEPT ![process] = "over"]
          /\ video' = [video EXCEPT !.is = IF video.by = process
                                           THEN "broken" ELSE @]
     ELSE UNCHANGED <<killed, ffmpeg, video>>
  /\ UNCHANGED <<process, deaf, interrupted, full>>

\* The global is read once more, for a communicate() without a timeout.
CollectRecorder(c) ==
  /\ calls[c].at = "collect"
  /\ GotoOn(c, "reap")
  /\ UNCHANGED <<process, ffmpeg, deaf, killed, interrupted, full, video>>

ReapRecorder(c) ==
  /\ calls[c].at = "reap"
  /\ ~Alive(calls[c].on)
  /\ Refuse(c)
  /\ (process' = 0) \/ (~NothingLost /\ UNCHANGED process)
  /\ UNCHANGED <<ffmpeg, deaf, killed, interrupted, full, video>>

\* The file is sent when it exists and is not empty.
ServeVideo(c) ==
  /\ calls[c].at = "serve"
  /\ IF video = NoVideo THEN Refuse(c) ELSE Reply(c, "ok", video)
  /\ UNCHANGED <<process, ffmpeg, deaf, killed, interrupted, full, video>>

-----------------------------------------------------------------------------
(* ffmpeg -y: it truncates or creates its output, and may die or hang.     *)

RecorderOpensVideo(r) ==
  /\ ffmpeg[r] = "starting"
  /\ ffmpeg' = [ffmpeg EXCEPT ![r] = "recording"]
  /\ video' = [by |-> r, is |-> "growing"]
  /\ UNCHANGED <<calls, process, deaf, killed, interrupted, full>>

RecorderDies(r) ==
  /\ Alive(r)
  /\ ffmpeg' = [ffmpeg EXCEPT ![r] = "over"]
  /\ video' = [video EXCEPT !.is = IF video.by = r THEN "broken" ELSE @]
  /\ UNCHANGED <<calls, process, deaf, killed, interrupted, full>>

RecorderFinishes(r) ==
  /\ Alive(r) /\ Obeys(r)
  /\ ffmpeg' = [ffmpeg EXCEPT ![r] = "over"]
  /\ video' = [video EXCEPT !.is = IF video.by = r THEN "finished" ELSE @]
  /\ UNCHANGED <<calls, process, deaf, killed, interrupted, full>>

\* Whether it hangs matters from the signal on.
RecorderHangs(r) ==
  /\ Alive(r) /\ r \in interrupted
  /\ deaf' = deaf \cup {r}
  /\ UNCHANGED <<calls, process, ffmpeg, killed, interrupted, full, video>>

PipeFills(r) ==
  /\ ffmpeg[r] = "recording" /\ ~Drained(r)
  /\ full' = full \cup {r}
  /\ UNCHANGED <<calls, process, ffmpeg, deaf, killed, interrupted, video>>

-----------------------------------------------------------------------------
Handler(c) ==
  \/ CheckStart(c) \/ RemoveOldVideo(c) \/ OpenRecorder(c)
  \/ WaitForRecorder(c) \/ Settle(c) \/ ReadErrors(c)
  \/ CheckEnd(c) \/ SignalRecorder(c) \/ DrainRecorder(c)
  \/ RecorderGone(c) \/ CommunicateTimesOut(c) \/ KillRecorder(c)
  \/ CollectRecorder(c) \/ ReapRecorder(c) \/ ServeVideo(c)

Ffmpeg(r) ==
  \/ RecorderOpensVideo(r) \/ RecorderDies(r) \/ RecorderFinishes(r)
  \/ RecorderHangs(r) \/ PipeFills(r)

RecorderNext ==
  \E c \in Calls :
    \/ \E op \in {"start", "end"} : SendRecordingCall(c, op)
    \/ AnswerIsLost(c)
    \/ Handler(c)
    \/ Ffmpeg(c)

\* The server's threads run, and a recorder that can obey SIGINT does.
RecorderFairness ==
  \A c \in Calls : WF_recorderVars(Handler(c)) /\ WF_recorderVars(RecorderFinishes(c))

RecorderSpec == RecorderInit /\ [][RecorderNext]_recorderVars /\ RecorderFairness

-----------------------------------------------------------------------------
RecorderTypeOK ==
  /\ calls \in [Calls -> [op : {"start", "end"}, at : Steps,
                          on : 0..MaxRecordingRequests,
                          answer : Answers, got : Video]]
  /\ process \in 0..MaxRecordingRequests
  /\ ffmpeg \in [Calls -> {"none", "starting", "recording", "over"}]
  /\ deaf \subseteq Calls /\ killed \subseteq Calls
  /\ interrupted \subseteq Calls /\ full \subseteq Calls
  /\ video \in Video

\* As long as the relay has answered no recording request in the guest's
\* place, a recorder that runs is the one end_recording will find: none is
\* left behind, which would go on writing with nobody able to stop it, and
\* two never share the file.
RunningRecorderIsKnown ==
  NothingLost => \A r \in Calls : Alive(r) => process = r

\* The video that end_recording hands over is not one still being written
\* (its recorder has finished or died), and it is the work of the recorder
\* started last, never what an earlier recording left in the file.
HandedVideoIsTheLastAndOver ==
  NothingLost =>
    \A c \in Calls : calls[c].got # NoVideo =>
      /\ calls[c].got.is # "growing"
      /\ \A r \in calls[c].got.by + 1 .. c : ffmpeg[r] = "none"

\* A recorder is killed, and its video lost, only when it is deaf to SIGINT:
\* one that is merely blocked on its stderr pipe, which nobody reads while
\* it records, is drained by end_recording and finishes.
OnlyADeafRecorderIsKilled == NothingLost => killed \subseteq deaf

\* Handler c waits, with no timeout, for the end of a recorder that runs: it
\* read the global again after its own recorder was over, and another one had
\* been started since, by a request sent behind an answer that was lost.
WaitsOnAnother(c) ==
  /\ ~NothingLost
  /\ calls[c].at \in {"read", "reap"} /\ Alive(calls[c].on)

\* Every request the guest's server has accepted comes to an end, whatever
\* ffmpeg does (it may hang, or block on its pipe) and whichever handlers
\* overlap, unless its handler is caught on another request's recorder, where
\* it stays as long as that one records.  While every answer arrives that
\* does not happen: all requests end.
RecordingCallsEnd ==
  \A c \in Calls :
    calls[c].at \notin {"unsent", "done"} ~> calls[c].at = "done" \/ WaitsOnAnother(c)
=============================================================================
