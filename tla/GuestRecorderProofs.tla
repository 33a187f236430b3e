------------------------- MODULE GuestRecorderProofs -------------------------
(***************************************************************************)
(* Theorems about GuestRecorder, for any number of requests and of answers *)
(* that the relay gives in the guest's place.                              *)
(***************************************************************************)
EXTENDS GuestRecorder, TLAPS

USE RecordingAssumption DEF Calls

Call == [op : {"start", "end"}, at : Steps, on : 0..MaxRecordingRequests,
         answer : Answers, got : Video]

\* A request is sent once the ones before it have their answers, and a
\* recorder exists from the Popen of its request on.
OrderInv ==
  \A c \in Calls :
    /\ calls[c].at = "done" => calls[c].answer # "none"
    /\ calls[c].at # "done" => calls[c].answer \in {"none", "lost"} /\ calls[c].got = NoVideo
    /\ calls[c].at = "unsent" => calls[c].answer = "none"
    /\ calls[c].at # "unsent" => \A b \in Calls : b < c => calls[b].answer # "none"
    /\ ffmpeg[c] # "none" => calls[c].at \in {"wait", "settle", "read", "done"}

\* Nobody but a recorder that runs is still to finish the video.
VideoInv ==
  video.is = "growing" => video.by \in Calls /\ ffmpeg[video.by] = "recording"

NobodyRecords == \A r \in Calls : ffmpeg[r] \in {"none", "over"}
NoneAfter(r) == \A q \in Calls : q > r => ffmpeg[q] = "none"

\* While no answer was lost: a recorder that runs is known to the handlers and
\* the last, the video is of the last one, and the handler at work knows of them.
ProcessKnown == \A r \in Calls : Alive(r) => process = r /\ NoneAfter(r)
VideoKnown == video # NoVideo => NoneAfter(video.by)
HandlerKnows(c) ==
  /\ calls[c].at \in {"remove", "popen", "serve", "collect", "reap"} => NobodyRecords
  /\ calls[c].at = "popen" => video = NoVideo
  /\ calls[c].at = "communicate" => calls[c].on = process
  /\ calls[c].at \in {"drain", "communicate"} => process \in interrupted
  /\ calls[c].at = "kill" => process \in deaf

AloneInv ==
  NothingLost => ProcessKnown /\ VideoKnown /\ \A c \in Calls : HandlerKnows(c)

RecorderInv ==
  /\ RecorderTypeOK /\ OrderInv /\ VideoInv /\ AloneInv
  /\ HandedVideoIsTheLastAndOver /\ OnlyADeafRecorderIsKilled

-----------------------------------------------------------------------------
(* What a step of a handler changes of the requests.                       *)

\* Only request c changes, and stays of its kind.
Moved(c) ==
  /\ calls' \in [Calls -> Call]
  /\ \A d \in Calls : d # c => calls'[d] = calls[d]
  /\ calls'[c].op = calls[c].op

Went(c, step) ==
  /\ Moved(c)
  /\ calls'[c].at = step /\ calls'[c].on = calls[c].on
  /\ calls'[c].answer = calls[c].answer /\ calls'[c].got = calls[c].got

Took(c, step) ==
  /\ Moved(c)
  /\ calls'[c].at = step /\ calls'[c].on = process
  /\ calls'[c].answer = calls[c].answer /\ calls'[c].got = calls[c].got

Answered(c, got) ==
  /\ Moved(c)
  /\ calls'[c].at = "done" /\ calls'[c].got = got
  /\ calls'[c].answer # "none"
  /\ calls[c].answer = "lost" => calls'[c].answer = "lost"

\* What these have in common, of a request in progress.
Stepped(c) ==
  /\ Moved(c) /\ calls'[c].at # "unsent"
  /\ calls[c].answer # "none" => calls'[c].answer # "none"
  /\ calls[c].answer = "lost" => calls'[c].answer = "lost"
  /\ calls'[c].at = "done" => calls'[c].answer # "none"
  /\ calls'[c].at # "done" => calls'[c].answer = calls[c].answer /\ calls'[c].got = calls[c].got

LEMMA GotoMoves ==
  ASSUME RecorderTypeOK, NEW c \in Calls, NEW step \in Steps, Goto(c, step)
  PROVE  Went(c, step)
BY DEF RecorderTypeOK, Goto, Went, Moved, Call

LEMMA ReplyMoves ==
  ASSUME RecorderTypeOK, NEW c \in Calls, NEW answer \in {"ok", "error"},
         NEW got \in Video, Reply(c, answer, got)
  PROVE  Answered(c, got)
<1> DEFINE new == [calls[c] EXCEPT !.at = "done", !.on = 0, !.got = got,
                     !.answer = IF @ = "lost" THEN "lost" ELSE answer]
<1>1. new \in Call
  <2>1. "done" \in Steps /\ 0 \in 0..MaxRecordingRequests
    BY DEF Steps
  <2> QED
    BY <2>1 DEF RecorderTypeOK, Call, Answers
<1>2. calls' = [calls EXCEPT ![c] = new]
  BY DEF Reply
<1>3. /\ new.op = calls[c].op /\ new.at = "done" /\ new.got = got
      /\ new.answer = IF calls[c].answer = "lost" THEN "lost" ELSE answer
  OBVIOUS
<1> HIDE DEF new
<1> QED
  BY <1>1, <1>2, <1>3 DEF RecorderTypeOK, Answered, Moved, Call

LEMMA RefuseMoves ==
  ASSUME RecorderTypeOK, NEW c \in Calls, Refuse(c)
  PROVE  Answered(c, NoVideo)
<1>1. NoVideo \in Video
  BY DEF NoVideo, Video
<1> QED
  BY <1>1, ReplyMoves DEF Refuse

LEMMA GotoOnMoves ==
  ASSUME RecorderTypeOK, NEW c \in Calls, NEW step \in Steps, GotoOn(c, step)
  PROVE  IF process = 0 THEN Answered(c, NoVideo) ELSE Took(c, step)
<1>1. CASE process = 0
  BY <1>1, RefuseMoves DEF GotoOn
<1>2. CASE process # 0
  <2> DEFINE new == [calls[c] EXCEPT !.at = step, !.on = process]
  <2>1. new \in Call
    BY DEF RecorderTypeOK, Call
  <2>2. calls' = [calls EXCEPT ![c] = new]
    BY <1>2 DEF GotoOn
  <2>3. /\ new.op = calls[c].op /\ new.at = step /\ new.on = process
        /\ new.answer = calls[c].answer /\ new.got = calls[c].got
    OBVIOUS
  <2> HIDE DEF new
  <2> QED
    BY <1>2, <2>1, <2>2, <2>3 DEF RecorderTypeOK, Took, Moved, Call
<1> QED
  BY <1>1, <1>2

\* While no answer was lost, a request in progress is the only one.
LEMMA OneAtATime ==
  ASSUME RecorderTypeOK, OrderInv, NothingLost, NEW c \in Calls,
         calls[c].at \notin {"unsent", "done"}
  PROVE  /\ \A d \in Calls : /\ d < c => calls[d].at = "done"
                             /\ d > c => calls[d].at = "unsent" /\ ffmpeg[d] = "none"
         /\ \A d \in Calls : d # c => calls[d].at \in {"unsent", "done"}
<1>1. calls[c].answer = "none"
  BY DEF OrderInv, NothingLost
<1>2. ASSUME NEW d \in Calls, d < c
      PROVE  calls[d].at = "done"
  BY <1>2 DEF OrderInv, NothingLost
<1>3. ASSUME NEW d \in Calls, d > c
      PROVE  calls[d].at = "unsent"
  BY <1>1, <1>3 DEF OrderInv
<1> QED
  BY <1>2, <1>3 DEF OrderInv

\* A handler's step leaves what earlier requests were handed.
LEMMA HandedStays ==
  ASSUME RecorderTypeOK, OrderInv, HandedVideoIsTheLastAndOver,
         NothingLost' => NothingLost, NEW c \in Calls, Moved(c),
         calls[c].at \notin {"unsent", "done"},
         \A d \in Calls : d # c => ffmpeg'[d] = ffmpeg[d] \/ ffmpeg[d] # "none",
         NothingLost' /\ calls'[c].got # NoVideo =>
           /\ calls'[c].got.is # "growing"
           /\ \A r \in calls'[c].got.by + 1 .. c : ffmpeg'[r] = "none"
  PROVE  HandedVideoIsTheLastAndOver'
<1> SUFFICES ASSUME NothingLost', NEW d \in Calls, d # c, calls'[d].got # NoVideo
             PROVE  /\ calls'[d].got.is # "growing"
                    /\ \A r \in calls'[d].got.by + 1 .. d : ffmpeg'[r] = "none"
  BY DEF HandedVideoIsTheLastAndOver
<1>1. calls'[d].got = calls[d].got
  BY DEF Moved
<1>2. calls[d].at = "done"
  BY <1>1 DEF OrderInv
<1>3. d < c
  BY <1>2, OneAtATime
<1>4. calls[d].got.by \in Nat
  BY DEF RecorderTypeOK, Video
<1>5. /\ calls[d].got.is # "growing"
      /\ \A r \in calls[d].got.by + 1 .. d : ffmpeg[r] = "none"
  BY <1>1 DEF HandedVideoIsTheLastAndOver
<1>6. \A r \in calls[d].got.by + 1 .. d : r \in Calls /\ r # c
  BY <1>3, <1>4
<1> QED
  BY <1>1, <1>5, <1>6

\* The order of the requests is kept by a handler's step.
LEMMA OrderKept ==
  ASSUME RecorderTypeOK, OrderInv, NEW c \in Calls, calls[c].at \notin {"unsent", "done"},
         Stepped(c),
         \A d \in Calls : d # c => ffmpeg'[d] = ffmpeg[d] \/ ffmpeg[d] # "none",
         ffmpeg'[c] # "none" => calls'[c].at \in {"wait", "settle", "read", "done"}
  PROVE  OrderInv'
<1>1. \A d \in Calls : d # c => calls'[d] = calls[d]
  BY DEF Stepped, Moved
<1> QED
  BY <1>1 DEF OrderInv, Stepped

\* An answer once lost stays so.
LEMMA LostStaysLost ==
  ASSUME RecorderTypeOK, NEW c \in Calls, NothingLost', Moved(c),
         calls[c].answer = "lost" => calls'[c].answer = "lost"
  PROVE  NothingLost
BY DEF NothingLost, Moved

-----------------------------------------------------------------------------
LEMMA RecorderInitially == RecorderInit => RecorderInv
<1> SUFFICES ASSUME RecorderInit PROVE RecorderInv
  OBVIOUS
<1>1. NoVideo \in Video /\ "unsent" \in Steps /\ NoVideo.is = "absent"
  BY DEF NoVideo, Video, Steps
<1>2. RecorderTypeOK
  BY <1>1 DEF RecorderInit, RecorderTypeOK, Answers
<1>3. OrderInv /\ VideoInv /\ AloneInv
  BY <1>1 DEF RecorderInit, OrderInv, VideoInv, AloneInv, ProcessKnown, VideoKnown, HandlerKnows,
     Alive
<1>4. HandedVideoIsTheLastAndOver /\ OnlyADeafRecorderIsKilled
  BY DEF RecorderInit, HandedVideoIsTheLastAndOver, OnlyADeafRecorderIsKilled
<1> QED
  BY <1>2, <1>3, <1>4 DEF RecorderInv

LEMMA SendRecordingCallKeeps ==
  ASSUME RecorderInv, NEW c \in Calls, NEW op \in {"start", "end"}, SendRecordingCall(c, op)
  PROVE  RecorderInv'
<1> USE DEF RecorderInv
<1> DEFINE new == [calls[c] EXCEPT !.op = op, !.at = "check"]
<1>1. /\ new \in Call /\ calls' = [calls EXCEPT ![c] = new]
      /\ new.at = "check" /\ new.answer = calls[c].answer /\ new.got = calls[c].got
  BY DEF SendRecordingCall, RecorderTypeOK, Steps
<1> HIDE DEF new
<1>2. /\ calls' \in [Calls -> Call] /\ \A d \in Calls : d # c => calls'[d] = calls[d]
      /\ calls'[c].at = "check" /\ calls'[c].answer = calls[c].answer
      /\ calls'[c].got = calls[c].got
  BY <1>1 DEF RecorderTypeOK, Call
<1>3. NothingLost' => NothingLost
  BY <1>2 DEF NothingLost
<1>4. RecorderTypeOK'
  BY <1>2 DEF SendRecordingCall, Call
<1>5. OrderInv'
  BY <1>2 DEF SendRecordingCall, OrderInv
<1>6. VideoInv'
  BY DEF SendRecordingCall, VideoInv
<1>7. AloneInv'
  BY <1>2, <1>3 DEF SendRecordingCall, AloneInv, ProcessKnown, VideoKnown, HandlerKnows, Alive,
     NoneAfter, NobodyRecords
<1>8. HandedVideoIsTheLastAndOver' /\ OnlyADeafRecorderIsKilled'
  BY <1>2, <1>3 DEF SendRecordingCall, HandedVideoIsTheLastAndOver, OnlyADeafRecorderIsKilled
<1> QED
  BY <1>4, <1>5, <1>6, <1>7, <1>8

LEMMA AnswerIsLostKeeps ==
  ASSUME RecorderInv, NEW c \in Calls, AnswerIsLost(c)
  PROVE  RecorderInv'
<1> USE DEF RecorderInv
<1> DEFINE new == [calls[c] EXCEPT !.answer = "lost"]
<1>1. /\ new \in Call /\ calls' = [calls EXCEPT ![c] = new]
      /\ new.at = calls[c].at /\ new.answer = "lost" /\ new.got = calls[c].got
  BY DEF AnswerIsLost, RecorderTypeOK, Call, Answers
<1> HIDE DEF new
<1>2. /\ calls' \in [Calls -> Call] /\ \A d \in Calls : d # c => calls'[d] = calls[d]
      /\ calls'[c].at = calls[c].at /\ calls'[c].answer = "lost"
      /\ calls'[c].got = calls[c].got
  BY <1>1 DEF RecorderTypeOK, Call
<1>3. ~NothingLost'
  BY <1>2 DEF NothingLost
<1>4. RecorderTypeOK'
  BY <1>2 DEF AnswerIsLost, RecorderTypeOK, Call
<1>5. OrderInv'
  BY DEF AnswerIsLost, OrderInv
<1>6. VideoInv'
  BY DEF AnswerIsLost, VideoInv
<1>7. AloneInv' /\ HandedVideoIsTheLastAndOver' /\ OnlyADeafRecorderIsKilled'
  BY <1>3 DEF AloneInv, HandedVideoIsTheLastAndOver, OnlyADeafRecorderIsKilled
<1> QED
  BY <1>4, <1>5, <1>6, <1>7

\* A step that leaves recorders and video alone keeps the invariant when it
\* forgets no recorder that runs, and its handler knows what the next step needs.
LEMMA QuietStepKeeps ==
  ASSUME RecorderInv, NEW c \in Calls, calls[c].at \notin {"unsent", "done"}, Stepped(c),
         UNCHANGED <<ffmpeg, deaf, killed, full, video>>, interrupted' \subseteq Calls,
         process' \in 0..MaxRecordingRequests,
         NothingLost => process' = process \/ NobodyRecords,
         calls'[c].got = NoVideo,
         calls[c].at \in {"wait", "settle", "read"}
           => calls'[c].at \in {"wait", "settle", "read", "done"},
         NothingLost => HandlerKnows(c)'
  PROVE  RecorderInv'
<1> USE DEF RecorderInv
<1>1. Moved(c)
  BY DEF Stepped
<1>2. NothingLost' => NothingLost
  BY <1>1, LostStaysLost DEF Stepped
<1>3. RecorderTypeOK'
  BY <1>1 DEF Moved, RecorderTypeOK, Call
<1>4. OrderInv'
  <2>1. ffmpeg'[c] # "none" => calls'[c].at \in {"wait", "settle", "read", "done"}
    BY DEF OrderInv
  <2> QED
    BY <2>1, OrderKept
<1>5. VideoInv'
  BY DEF VideoInv
<1>6. AloneInv'
  <2> SUFFICES ASSUME NothingLost'
               PROVE  ProcessKnown' /\ VideoKnown' /\ \A d \in Calls : HandlerKnows(d)'
    BY DEF AloneInv
  <2> USE <1>2 DEF AloneInv
  <2>1. ProcessKnown'
    BY DEF ProcessKnown, NoneAfter, NobodyRecords, Alive
  <2>2. VideoKnown'
    BY DEF VideoKnown, NoneAfter
  <2>3. ASSUME NEW d \in Calls, d # c
        PROVE  HandlerKnows(d)'
    <3>1. calls'[d].at \in {"unsent", "done"}
      BY <1>1, <2>3, OneAtATime DEF Moved
    <3> QED
      BY <3>1 DEF HandlerKnows
  <2> QED
    BY <2>1, <2>2, <2>3
<1>7. HandedVideoIsTheLastAndOver'
  BY <1>1, <1>2, HandedStays
<1>8. OnlyADeafRecorderIsKilled'
  BY <1>2 DEF OnlyADeafRecorderIsKilled
<1> QED
  BY <1>3, <1>4, <1>5, <1>6, <1>7, <1>8

LEMMA CheckStartKeeps ==
  ASSUME RecorderInv, NEW c \in Calls, CheckStart(c)
  PROVE  RecorderInv'
<1> USE DEF RecorderInv
<1>1. IF Alive(process) THEN Answered(c, NoVideo) ELSE Went(c, "remove")
  BY GotoMoves, RefuseMoves DEF CheckStart, Steps
<1>2. Stepped(c) /\ calls'[c].got = NoVideo
  BY <1>1 DEF CheckStart, OrderInv, Stepped, Went, Took, Answered
<1>3. ASSUME NothingLost
      PROVE  (process' = process \/ NobodyRecords) /\ HandlerKnows(c)'
  BY <1>1, <1>3 DEF CheckStart, AloneInv, ProcessKnown, HandlerKnows, NobodyRecords, Alive,
     RecorderTypeOK, Went, Took, Answered
<1>4. calls[c].at \in {"wait", "settle", "read"}
        => calls'[c].at \in {"wait", "settle", "read", "done"}
  BY <1>1 DEF CheckStart, Went, Took, Answered
<1> QED
  BY <1>2, <1>3, <1>4, QuietStepKeeps DEF CheckStart, RecorderTypeOK

LEMMA RemoveOldVideoKeeps ==
  ASSUME RecorderInv, NEW c \in Calls, RemoveOldVideo(c)
  PROVE  RecorderInv'
<1> USE DEF RecorderInv
<1>1. (Went(c, "popen") /\ video' = NoVideo) \/ (Answered(c, NoVideo) /\ UNCHANGED video)
  BY GotoMoves, RefuseMoves DEF RemoveOldVideo, Steps
<1>2. calls[c].at \notin {"unsent", "done"}
  BY DEF RemoveOldVideo
<1>3. Moved(c) /\ Stepped(c)
  BY <1>1 DEF Went, Took, Answered, Stepped
<1>4. NothingLost' => NothingLost
  BY <1>3, LostStaysLost DEF Stepped
<1>5. RecorderTypeOK'
  <2>1. calls' \in [Calls -> Call]
    BY <1>3 DEF Moved
  <2>2. process' \in 0..MaxRecordingRequests /\ video' \in Video
    BY DEF RemoveOldVideo, RecorderTypeOK, Video, NoVideo
  <2>3. ffmpeg' \in [Calls -> {"none", "starting", "recording", "over"}]
    BY DEF RemoveOldVideo, RecorderTypeOK
  <2>4. deaf' \subseteq Calls /\ killed' \subseteq Calls /\ interrupted' \subseteq Calls /\ full' \subseteq Calls
    BY DEF RemoveOldVideo, RecorderTypeOK, Alive
  <2> QED
    BY <2>1, <2>2, <2>3, <2>4 DEF RecorderTypeOK, Call
<1>6. OrderInv'
  <2>1. \A d \in Calls : d # c => ffmpeg'[d] = ffmpeg[d] \/ ffmpeg[d] # "none"
    BY DEF RemoveOldVideo
  <2>2. ffmpeg'[c] # "none" => calls'[c].at \in {"wait", "settle", "read", "done"}
    BY DEF RemoveOldVideo, OrderInv
  <2> QED
    BY <1>2, <1>3, <2>1, <2>2, OrderKept
<1>7. VideoInv'
  BY DEF RemoveOldVideo, VideoInv, NoVideo
<1>9. NothingLost => \A d \in Calls : d # c => calls'[d].at \in {"unsent", "done"}
  BY <1>2, <1>3, OneAtATime DEF Moved
<1>10. AloneInv'
  <2> SUFFICES ASSUME NothingLost'
               PROVE  ProcessKnown' /\ VideoKnown' /\ \A d \in Calls : HandlerKnows(d)'
    BY DEF AloneInv
  <2> USE <1>4 DEF AloneInv
  <2>1. ProcessKnown'
    BY DEF RemoveOldVideo, ProcessKnown, NobodyRecords, HandlerKnows, Alive
  <2>2. VideoKnown'
    BY DEF RemoveOldVideo, VideoKnown, NoneAfter
  <2>3. ASSUME NEW d \in Calls, d # c
        PROVE  HandlerKnows(d)'
    <3>1. calls'[d].at \in {"unsent", "done"}
      BY <1>9, <2>3
    <3> QED
      BY <3>1 DEF HandlerKnows
  <2>4. HandlerKnows(c)'
    BY <1>1 DEF RemoveOldVideo, NobodyRecords, HandlerKnows, Went, Answered
  <2> QED
    BY <2>1, <2>2, <2>3, <2>4
<1>11. HandedVideoIsTheLastAndOver'
  <2>1. \A d \in Calls : d # c => ffmpeg'[d] = ffmpeg[d] \/ ffmpeg[d] # "none"
    BY DEF RemoveOldVideo
  <2>2. NothingLost' /\ calls'[c].got # NoVideo =>
          /\ calls'[c].got.is # "growing"
          /\ \A r \in calls'[c].got.by + 1 .. c : ffmpeg'[r] = "none"
    <3>1. calls'[c].got = NoVideo
      BY <1>1, <1>2 DEF OrderInv, Went, Took, Answered
    <3> QED
      BY <3>1
  <2> QED
    BY <1>2, <1>3, <1>4, <2>1, <2>2, HandedStays
<1>12. OnlyADeafRecorderIsKilled'
  BY <1>4 DEF RemoveOldVideo, OnlyADeafRecorderIsKilled
<1> QED
  BY <1>5, <1>6, <1>7, <1>10, <1>11, <1>12

LEMMA OpenRecorderKeeps ==
  ASSUME RecorderInv, NEW c \in Calls, OpenRecorder(c)
  PROVE  RecorderInv'
<1> USE DEF RecorderInv
<1>1. \/ Went(c, "wait") /\ ffmpeg' = [ffmpeg EXCEPT ![c] = "starting"] /\ process' = c
      \/ Answered(c, NoVideo) /\ UNCHANGED <<ffmpeg, process>>
  BY GotoMoves, RefuseMoves DEF OpenRecorder, Steps
<1>2. calls[c].at \notin {"unsent", "done"}
  BY DEF OpenRecorder
<1>3. Moved(c) /\ Stepped(c)
  BY <1>1 DEF Went, Took, Answered, Stepped
<1>4. NothingLost' => NothingLost
  BY <1>3, LostStaysLost DEF Stepped
<1>5. RecorderTypeOK'
  <2>1. calls' \in [Calls -> Call]
    BY <1>3 DEF Moved
  <2>2. process' \in 0..MaxRecordingRequests /\ video' \in Video
    BY DEF OpenRecorder, RecorderTypeOK
  <2>3. ffmpeg' \in [Calls -> {"none", "starting", "recording", "over"}]
    BY DEF OpenRecorder, RecorderTypeOK
  <2>4. deaf' \subseteq Calls /\ killed' \subseteq Calls /\ interrupted' \subseteq Calls /\ full' \subseteq Calls
    BY DEF OpenRecorder, RecorderTypeOK, Alive
  <2> QED
    BY <2>1, <2>2, <2>3, <2>4 DEF RecorderTypeOK, Call
<1>6. OrderInv'
  <2>1. \A d \in Calls : d # c => ffmpeg'[d] = ffmpeg[d] \/ ffmpeg[d] # "none"
    BY DEF OpenRecorder, RecorderTypeOK, Alive
  <2>2. ffmpeg'[c] # "none" => calls'[c].at \in {"wait", "settle", "read", "done"}
    BY <1>1 DEF Went, Answered
  <2> QED
    BY <1>2, <1>3, <2>1, <2>2, OrderKept
<1>7. VideoInv'
  BY DEF OpenRecorder, VideoInv, RecorderTypeOK, OrderInv
<1>8. NothingLost => \A d \in Calls : /\ d < c => calls[d].at = "done"
                                     /\ d > c => calls[d].at = "unsent" /\ ffmpeg[d] = "none"
  BY <1>2, OneAtATime
<1>9. NothingLost => \A d \in Calls : d # c => calls'[d].at \in {"unsent", "done"}
  BY <1>2, <1>3, OneAtATime DEF Moved
<1>10. AloneInv'
  <2> SUFFICES ASSUME NothingLost'
               PROVE  ProcessKnown' /\ VideoKnown' /\ \A d \in Calls : HandlerKnows(d)'
    BY DEF AloneInv
  <2> USE <1>4 DEF AloneInv
  <2>1. ProcessKnown'
    BY <1>8 DEF OpenRecorder, ProcessKnown, NoneAfter, NobodyRecords, HandlerKnows,
       RecorderTypeOK, Alive
  <2>2. VideoKnown'
    BY DEF OpenRecorder, VideoKnown, HandlerKnows
  <2>3. ASSUME NEW d \in Calls, d # c
        PROVE  HandlerKnows(d)'
    <3>1. calls'[d].at \in {"unsent", "done"}
      BY <1>9, <2>3
    <3> QED
      BY <3>1 DEF HandlerKnows
  <2>4. HandlerKnows(c)'
    BY <1>1 DEF HandlerKnows, Went, Answered
  <2> QED
    BY <2>1, <2>2, <2>3, <2>4
<1>11. HandedVideoIsTheLastAndOver'
  <2>1. \A d \in Calls : d # c => ffmpeg'[d] = ffmpeg[d] \/ ffmpeg[d] # "none"
    BY DEF OpenRecorder, RecorderTypeOK, Alive
  <2>2. NothingLost' /\ calls'[c].got # NoVideo =>
          /\ calls'[c].got.is # "growing"
          /\ \A r \in calls'[c].got.by + 1 .. c : ffmpeg'[r] = "none"
    <3>1. calls'[c].got = NoVideo
      BY <1>1, <1>2 DEF OrderInv, Went, Took, Answered
    <3> QED
      BY <3>1
  <2> QED
    BY <1>2, <1>3, <1>4, <2>1, <2>2, HandedStays
<1>12. OnlyADeafRecorderIsKilled'
  BY <1>4 DEF OpenRecorder, OnlyADeafRecorderIsKilled
<1> QED
  BY <1>5, <1>6, <1>7, <1>10, <1>11, <1>12

LEMMA WaitForRecorderKeeps ==
  ASSUME RecorderInv, NEW c \in Calls, WaitForRecorder(c)
  PROVE  RecorderInv'
<1> USE DEF RecorderInv
<1>1. IF process = 0 THEN Answered(c, NoVideo) ELSE Took(c, "settle")
  BY GotoOnMoves DEF WaitForRecorder, Steps
<1>2. Stepped(c) /\ calls'[c].got = NoVideo
  BY <1>1 DEF WaitForRecorder, OrderInv, Stepped, Went, Took, Answered
<1>3. ASSUME NothingLost
      PROVE  (process' = process \/ NobodyRecords) /\ HandlerKnows(c)'
  BY <1>1, <1>3 DEF WaitForRecorder, AloneInv, ProcessKnown, HandlerKnows, NobodyRecords, Alive,
     RecorderTypeOK, Went, Took, Answered
<1>4. calls[c].at \in {"wait", "settle", "read"}
        => calls'[c].at \in {"wait", "settle", "read", "done"}
  BY <1>1 DEF WaitForRecorder, Went, Took, Answered
<1> QED
  BY <1>2, <1>3, <1>4, QuietStepKeeps DEF WaitForRecorder, RecorderTypeOK

LEMMA SettleKeeps ==
  ASSUME RecorderInv, NEW c \in Calls, Settle(c)
  PROVE  RecorderInv'
<1> USE DEF RecorderInv
<1>1. Answered(c, NoVideo) \/ Took(c, "read")
  BY ReplyMoves, GotoOnMoves DEF Settle, Steps, NoVideo, Video
<1>2. Stepped(c) /\ calls'[c].got = NoVideo
  BY <1>1 DEF Settle, OrderInv, Stepped, Went, Took, Answered
<1>3. ASSUME NothingLost
      PROVE  (process' = process \/ NobodyRecords) /\ HandlerKnows(c)'
  BY <1>1, <1>3 DEF Settle, AloneInv, ProcessKnown, HandlerKnows, NobodyRecords, Alive,
     RecorderTypeOK, Went, Took, Answered
<1>4. calls[c].at \in {"wait", "settle", "read"}
        => calls'[c].at \in {"wait", "settle", "read", "done"}
  BY <1>1 DEF Settle, Went, Took, Answered
<1> QED
  BY <1>2, <1>3, <1>4, QuietStepKeeps DEF Settle, RecorderTypeOK

LEMMA ReadErrorsKeeps ==
  ASSUME RecorderInv, NEW c \in Calls, ReadErrors(c)
  PROVE  RecorderInv'
<1> USE DEF RecorderInv
<1>1. Answered(c, NoVideo)
  BY RefuseMoves DEF ReadErrors
<1>2. Stepped(c) /\ calls'[c].got = NoVideo
  BY <1>1 DEF ReadErrors, OrderInv, Stepped, Went, Took, Answered
<1>3. ASSUME NothingLost
      PROVE  (process' = process \/ NobodyRecords) /\ HandlerKnows(c)'
  BY <1>1, <1>3 DEF ReadErrors, AloneInv, ProcessKnown, HandlerKnows, NobodyRecords, Alive,
     RecorderTypeOK, Went, Took, Answered
<1>4. calls[c].at \in {"wait", "settle", "read"}
        => calls'[c].at \in {"wait", "settle", "read", "done"}
  BY <1>1 DEF ReadErrors, Went, Took, Answered
<1> QED
  BY <1>2, <1>3, <1>4, QuietStepKeeps DEF ReadErrors, RecorderTypeOK

LEMMA CheckEndKeeps ==
  ASSUME RecorderInv, NEW c \in Calls, CheckEnd(c)
  PROVE  RecorderInv'
<1> USE DEF RecorderInv
<1>1. IF Alive(process) THEN Went(c, "signal") ELSE Answered(c, NoVideo)
  BY GotoMoves, RefuseMoves DEF CheckEnd, Steps
<1>2. Stepped(c) /\ calls'[c].got = NoVideo
  BY <1>1 DEF CheckEnd, OrderInv, Stepped, Went, Took, Answered
<1>3. ASSUME NothingLost
      PROVE  (process' = process \/ NobodyRecords) /\ HandlerKnows(c)'
  BY <1>1, <1>3 DEF CheckEnd, AloneInv, ProcessKnown, HandlerKnows, NobodyRecords, Alive,
     RecorderTypeOK, Went, Took, Answered
<1>4. calls[c].at \in {"wait", "settle", "read"}
        => calls'[c].at \in {"wait", "settle", "read", "done"}
  BY <1>1 DEF CheckEnd, Went, Took, Answered
<1>5. /\ UNCHANGED <<ffmpeg, deaf, killed, full, video>> /\ interrupted' \subseteq Calls
      /\ process' \in 0..MaxRecordingRequests
      /\ calls[c].at \notin {"unsent", "done"}
  BY DEF CheckEnd, RecorderTypeOK
<1> QED
  BY <1>2, <1>3, <1>4, <1>5, QuietStepKeeps

LEMMA SignalRecorderKeeps ==
  ASSUME RecorderInv, NEW c \in Calls, SignalRecorder(c)
  PROVE  RecorderInv'
<1> USE DEF RecorderInv
<1>1. IF process = 0 THEN Answered(c, NoVideo) ELSE Took(c, "drain")
  BY GotoOnMoves DEF SignalRecorder, Steps
<1>2. Stepped(c) /\ calls'[c].got = NoVideo
  BY <1>1 DEF SignalRecorder, OrderInv, Stepped, Went, Took, Answered
<1>3. ASSUME NothingLost
      PROVE  (process' = process \/ NobodyRecords) /\ HandlerKnows(c)'
  BY <1>1, <1>3 DEF SignalRecorder, AloneInv, ProcessKnown, HandlerKnows, NobodyRecords, Alive,
     RecorderTypeOK, Went, Took, Answered
<1>4. calls[c].at \in {"wait", "settle", "read"}
        => calls'[c].at \in {"wait", "settle", "read", "done"}
  BY <1>1 DEF SignalRecorder, Went, Took, Answered
<1>5. /\ UNCHANGED <<ffmpeg, deaf, killed, full, video>> /\ interrupted' \subseteq Calls
      /\ process' \in 0..MaxRecordingRequests
      /\ calls[c].at \notin {"unsent", "done"}
  BY DEF SignalRecorder, RecorderTypeOK
<1> QED
  BY <1>2, <1>3, <1>4, <1>5, QuietStepKeeps

LEMMA DrainRecorderKeeps ==
  ASSUME RecorderInv, NEW c \in Calls, DrainRecorder(c)
  PROVE  RecorderInv'
<1> USE DEF RecorderInv
<1>1. IF process = 0 THEN Answered(c, NoVideo) ELSE Took(c, "communicate")
  BY GotoOnMoves DEF DrainRecorder, Steps
<1>2. Stepped(c) /\ calls'[c].got = NoVideo
  BY <1>1 DEF DrainRecorder, OrderInv, Stepped, Went, Took, Answered
<1>3. ASSUME NothingLost
      PROVE  (process' = process \/ NobodyRecords) /\ HandlerKnows(c)'
  BY <1>1, <1>3 DEF DrainRecorder, AloneInv, ProcessKnown, HandlerKnows, NobodyRecords, Alive,
     RecorderTypeOK, Went, Took, Answered
<1>4. calls[c].at \in {"wait", "settle", "read"}
        => calls'[c].at \in {"wait", "settle", "read", "done"}
  BY <1>1 DEF DrainRecorder, Went, Took, Answered
<1> QED
  BY <1>2, <1>3, <1>4, QuietStepKeeps DEF DrainRecorder, RecorderTypeOK

LEMMA RecorderGoneKeeps ==
  ASSUME RecorderInv, NEW c \in Calls, RecorderGone(c)
  PROVE  RecorderInv'
<1> USE DEF RecorderInv
<1>1. Went(c, "serve") \/ Answered(c, NoVideo)
  BY GotoMoves, RefuseMoves DEF RecorderGone, Steps
<1>2. Stepped(c) /\ calls'[c].got = NoVideo
  BY <1>1 DEF RecorderGone, OrderInv, Stepped, Went, Took, Answered
<1>3. ASSUME NothingLost
      PROVE  (process' = process \/ NobodyRecords) /\ HandlerKnows(c)'
  BY <1>1, <1>3 DEF RecorderGone, AloneInv, ProcessKnown, HandlerKnows, NobodyRecords, Alive,
     RecorderTypeOK, Went, Took, Answered
<1>4. calls[c].at \in {"wait", "settle", "read"}
        => calls'[c].at \in {"wait", "settle", "read", "done"}
  BY <1>1 DEF RecorderGone, Went, Took, Answered
<1>5. /\ UNCHANGED <<ffmpeg, deaf, killed, full, video>> /\ interrupted' \subseteq Calls
      /\ process' \in 0..MaxRecordingRequests
      /\ calls[c].at \notin {"unsent", "done"}
  BY DEF RecorderGone, RecorderTypeOK
<1> QED
  BY <1>2, <1>3, <1>4, <1>5, QuietStepKeeps

LEMMA CommunicateTimesOutKeeps ==
  ASSUME RecorderInv, NEW c \in Calls, CommunicateTimesOut(c)
  PROVE  RecorderInv'
<1> USE DEF RecorderInv
<1>1. Went(c, "kill")
  BY GotoMoves DEF CommunicateTimesOut, Steps
<1>2. Stepped(c) /\ calls'[c].got = NoVideo
  BY <1>1 DEF CommunicateTimesOut, OrderInv, Stepped, Went, Took, Answered
<1>3. ASSUME NothingLost
      PROVE  (process' = process \/ NobodyRecords) /\ HandlerKnows(c)'
  BY <1>1, <1>3 DEF CommunicateTimesOut, AloneInv, ProcessKnown, HandlerKnows, NobodyRecords, Alive,
     RecorderTypeOK, Went, Took, Answered, Obeys, Blocked, Drained
<1>4. calls[c].at \in {"wait", "settle", "read"}
        => calls'[c].at \in {"wait", "settle", "read", "done"}
  BY <1>1 DEF CommunicateTimesOut, Went, Took, Answered
<1> QED
  BY <1>2, <1>3, <1>4, QuietStepKeeps DEF CommunicateTimesOut, RecorderTypeOK

LEMMA KillRecorderKeeps ==
  ASSUME RecorderInv, NEW c \in Calls, KillRecorder(c)
  PROVE  RecorderInv'
<1> USE DEF RecorderInv
<1>1. IF process = 0 THEN Answered(c, NoVideo) ELSE Took(c, "collect")
  BY GotoOnMoves DEF KillRecorder, Steps
<1>2. calls[c].at \notin {"unsent", "done"}
  BY DEF KillRecorder
<1>3. Moved(c) /\ Stepped(c)
  BY <1>1 DEF Went, Took, Answered, Stepped
<1>4. NothingLost' => NothingLost
  BY <1>3, LostStaysLost DEF Stepped
<1>5. RecorderTypeOK'
  <2>1. calls' \in [Calls -> Call]
    BY <1>3 DEF Moved
  <2>2. process' \in 0..MaxRecordingRequests /\ video' \in Video
    BY DEF KillRecorder, RecorderTypeOK, Video, NoVideo
  <2>3. ffmpeg' \in [Calls -> {"none", "starting", "recording", "over"}]
    BY DEF KillRecorder, RecorderTypeOK
  <2>4. deaf' \subseteq Calls /\ killed' \subseteq Calls /\ interrupted' \subseteq Calls /\ full' \subseteq Calls
    BY DEF KillRecorder, RecorderTypeOK, Alive
  <2> QED
    BY <2>1, <2>2, <2>3, <2>4 DEF RecorderTypeOK, Call
<1>6. OrderInv'
  <2>1. \A d \in Calls : d # c => ffmpeg'[d] = ffmpeg[d] \/ ffmpeg[d] # "none"
    BY DEF KillRecorder, RecorderTypeOK, Alive
  <2>2. ffmpeg'[c] # "none" => calls'[c].at \in {"wait", "settle", "read", "done"}
    BY <1>1 DEF Answered, KillRecorder, OrderInv, RecorderTypeOK, Alive
  <2> QED
    BY <1>2, <1>3, <2>1, <2>2, OrderKept
<1>7. VideoInv'
  BY DEF KillRecorder, VideoInv, RecorderTypeOK, Video
<1>9. NothingLost => \A d \in Calls : d # c => calls'[d].at \in {"unsent", "done"}
  BY <1>2, <1>3, OneAtATime DEF Moved
<1>10. AloneInv'
  <2> SUFFICES ASSUME NothingLost'
               PROVE  ProcessKnown' /\ VideoKnown' /\ \A d \in Calls : HandlerKnows(d)'
    BY DEF AloneInv
  <2> USE <1>4 DEF AloneInv
  <2>1. ProcessKnown'
    BY DEF KillRecorder, ProcessKnown, RecorderTypeOK, Alive
  <2>2. VideoKnown'
    <3>1. video'.by = video.by /\ (video = NoVideo => video' = NoVideo)
      BY DEF KillRecorder, RecorderTypeOK, Video, NoVideo, Alive
    <3>2. \A d \in Calls : ffmpeg[d] = "none" => ffmpeg'[d] = "none"
      BY DEF KillRecorder, RecorderTypeOK, Alive
    <3> QED
      BY <3>1, <3>2 DEF VideoKnown, NoneAfter
  <2>3. ASSUME NEW d \in Calls, d # c
        PROVE  HandlerKnows(d)'
    <3>1. calls'[d].at \in {"unsent", "done"}
      BY <1>9, <2>3
    <3> QED
      BY <3>1 DEF HandlerKnows
  <2>4. HandlerKnows(c)'
    <3>1. NobodyRecords'
      BY DEF KillRecorder, ProcessKnown, NobodyRecords, RecorderTypeOK, Alive
    <3> QED
      BY <1>1, <3>1 DEF HandlerKnows, Took, Answered
  <2> QED
    BY <2>1, <2>2, <2>3, <2>4
<1>11. HandedVideoIsTheLastAndOver'
  <2>1. \A d \in Calls : d # c => ffmpeg'[d] = ffmpeg[d] \/ ffmpeg[d] # "none"
    BY DEF KillRecorder, RecorderTypeOK, Alive
  <2>2. NothingLost' /\ calls'[c].got # NoVideo =>
          /\ calls'[c].got.is # "growing"
          /\ \A r \in calls'[c].got.by + 1 .. c : ffmpeg'[r] = "none"
    <3>1. calls'[c].got = NoVideo
      BY <1>1, <1>2 DEF OrderInv, Took, Answered
    <3> QED
      BY <3>1
  <2> QED
    BY <1>2, <1>3, <1>4, <2>1, <2>2, HandedStays
<1>12. OnlyADeafRecorderIsKilled'
  BY <1>4 DEF KillRecorder, OnlyADeafRecorderIsKilled, AloneInv, HandlerKnows
<1> QED
  BY <1>5, <1>6, <1>7, <1>10, <1>11, <1>12

LEMMA CollectRecorderKeeps ==
  ASSUME RecorderInv, NEW c \in Calls, CollectRecorder(c)
  PROVE  RecorderInv'
<1> USE DEF RecorderInv
<1>1. IF process = 0 THEN Answered(c, NoVideo) ELSE Took(c, "reap")
  BY GotoOnMoves DEF CollectRecorder, Steps
<1>2. Stepped(c) /\ calls'[c].got = NoVideo
  BY <1>1 DEF CollectRecorder, OrderInv, Stepped, Went, Took, Answered
<1>3. ASSUME NothingLost
      PROVE  (process' = process \/ NobodyRecords) /\ HandlerKnows(c)'
  BY <1>1, <1>3 DEF CollectRecorder, AloneInv, ProcessKnown, HandlerKnows, NobodyRecords, Alive,
     RecorderTypeOK, Went, Took, Answered
<1>4. calls[c].at \in {"wait", "settle", "read"}
        => calls'[c].at \in {"wait", "settle", "read", "done"}
  BY <1>1 DEF CollectRecorder, Went, Took, Answered
<1> QED
  BY <1>2, <1>3, <1>4, QuietStepKeeps DEF CollectRecorder, RecorderTypeOK

LEMMA ReapRecorderKeeps ==
  ASSUME RecorderInv, NEW c \in Calls, ReapRecorder(c)
  PROVE  RecorderInv'
<1> USE DEF RecorderInv
<1>1. Answered(c, NoVideo)
  BY RefuseMoves DEF ReapRecorder
<1>2. Stepped(c) /\ calls'[c].got = NoVideo
  BY <1>1 DEF ReapRecorder, OrderInv, Stepped, Went, Took, Answered
<1>3. ASSUME NothingLost
      PROVE  (process' = process \/ NobodyRecords) /\ HandlerKnows(c)'
  BY <1>1, <1>3 DEF ReapRecorder, AloneInv, ProcessKnown, HandlerKnows, NobodyRecords, Alive,
     RecorderTypeOK, Went, Took, Answered
<1>4. calls[c].at \in {"wait", "settle", "read"}
        => calls'[c].at \in {"wait", "settle", "read", "done"}
  BY <1>1 DEF ReapRecorder, Went, Took, Answered
<1>5. /\ UNCHANGED <<ffmpeg, deaf, killed, full, video>> /\ interrupted' \subseteq Calls
      /\ process' \in 0..MaxRecordingRequests
      /\ calls[c].at \notin {"unsent", "done"}
  BY DEF ReapRecorder, RecorderTypeOK
<1> QED
  BY <1>2, <1>3, <1>4, <1>5, QuietStepKeeps

LEMMA ServeVideoKeeps ==
  ASSUME RecorderInv, NEW c \in Calls, ServeVideo(c)
  PROVE  RecorderInv'
<1> USE DEF RecorderInv
<1>1. Answered(c, NoVideo) \/ (video # NoVideo /\ Answered(c, video))
  BY ReplyMoves, RefuseMoves DEF ServeVideo, RecorderTypeOK
<1>2. calls[c].at \notin {"unsent", "done"}
  BY DEF ServeVideo
<1>3. Moved(c) /\ Stepped(c)
  BY <1>1 DEF Went, Took, Answered, Stepped
<1>4. NothingLost' => NothingLost
  BY <1>3, LostStaysLost DEF Stepped
<1>5. RecorderTypeOK'
  <2>1. calls' \in [Calls -> Call]
    BY <1>3 DEF Moved
  <2>2. process' \in 0..MaxRecordingRequests /\ video' \in Video
    BY DEF ServeVideo, RecorderTypeOK
  <2>3. ffmpeg' \in [Calls -> {"none", "starting", "recording", "over"}]
    BY DEF ServeVideo, RecorderTypeOK
  <2>4. deaf' \subseteq Calls /\ killed' \subseteq Calls /\ interrupted' \subseteq Calls /\ full' \subseteq Calls
    BY DEF ServeVideo, RecorderTypeOK, Alive
  <2> QED
    BY <2>1, <2>2, <2>3, <2>4 DEF RecorderTypeOK, Call
<1>6. OrderInv'
  <2>1. \A d \in Calls : d # c => ffmpeg'[d] = ffmpeg[d] \/ ffmpeg[d] # "none"
    BY DEF ServeVideo
  <2>2. ffmpeg'[c] # "none" => calls'[c].at \in {"wait", "settle", "read", "done"}
    BY <1>1 DEF Answered
  <2> QED
    BY <1>2, <1>3, <2>1, <2>2, OrderKept
<1>7. VideoInv'
  BY DEF ServeVideo, VideoInv
<1>9. NothingLost => \A d \in Calls : d # c => calls'[d].at \in {"unsent", "done"}
  BY <1>2, <1>3, OneAtATime DEF Moved
<1>10. AloneInv'
  <2> SUFFICES ASSUME NothingLost'
               PROVE  ProcessKnown' /\ VideoKnown' /\ \A d \in Calls : HandlerKnows(d)'
    BY DEF AloneInv
  <2> USE <1>4 DEF AloneInv
  <2>1. ProcessKnown'
    BY DEF ServeVideo, ProcessKnown, NobodyRecords, HandlerKnows, Alive
  <2>2. VideoKnown'
    BY DEF ServeVideo, VideoKnown, NoneAfter
  <2>3. ASSUME NEW d \in Calls, d # c
        PROVE  HandlerKnows(d)'
    <3>1. calls'[d].at \in {"unsent", "done"}
      BY <1>9, <2>3
    <3> QED
      BY <3>1 DEF HandlerKnows
  <2>4. HandlerKnows(c)'
    BY <1>1 DEF HandlerKnows, Answered
  <2> QED
    BY <2>1, <2>2, <2>3, <2>4
<1>11. HandedVideoIsTheLastAndOver'
  <2>1. \A d \in Calls : d # c => ffmpeg'[d] = ffmpeg[d] \/ ffmpeg[d] # "none"
    BY DEF ServeVideo
  <2>2. NothingLost' /\ calls'[c].got # NoVideo =>
          /\ calls'[c].got.is # "growing"
          /\ \A r \in calls'[c].got.by + 1 .. c : ffmpeg'[r] = "none"
    <3> SUFFICES ASSUME NothingLost', calls'[c].got # NoVideo
                 PROVE  /\ calls'[c].got.is # "growing"
                        /\ \A r \in calls'[c].got.by + 1 .. c : ffmpeg'[r] = "none"
      OBVIOUS
    <3>1. calls'[c].got = video /\ video # NoVideo
      BY <1>1 DEF Answered
    <3>2. NobodyRecords /\ NoneAfter(video.by)
      BY <1>4, <3>1 DEF ServeVideo, AloneInv, HandlerKnows, VideoKnown
    <3>3. video.is # "growing"
      BY <3>2 DEF VideoInv, NobodyRecords
    <3>4. ffmpeg' = ffmpeg /\ video.by \in Nat
      BY DEF ServeVideo, RecorderTypeOK, Video
    <3> QED
      BY <3>1, <3>2, <3>3, <3>4 DEF NoneAfter
  <2> QED
    BY <1>2, <1>3, <1>4, <2>1, <2>2, HandedStays
<1>12. OnlyADeafRecorderIsKilled'
  BY <1>4 DEF ServeVideo, OnlyADeafRecorderIsKilled
<1> QED
  BY <1>5, <1>6, <1>7, <1>10, <1>11, <1>12

\* What ffmpeg does by itself, short of opening its file, takes nothing from
\* what the handlers know.
LEMMA AloneKept ==
  ASSUME AloneInv, NothingLost' => NothingLost,
         calls' = calls, process' = process,
         deaf \subseteq deaf', interrupted \subseteq interrupted',
         video = NoVideo => video' = NoVideo, video # NoVideo => video' # NoVideo,
         video'.by = video.by,
         \A q \in Calls : /\ Alive(q)' => Alive(q)
                          /\ ffmpeg[q] = "none" => ffmpeg'[q] = "none"
                          /\ ffmpeg[q] = "over" => ffmpeg'[q] = "over"
  PROVE  AloneInv'
<1> SUFFICES ASSUME NothingLost'
             PROVE  ProcessKnown' /\ VideoKnown' /\ \A c \in Calls : HandlerKnows(c)'
  BY DEF AloneInv
<1>1. ProcessKnown /\ VideoKnown /\ \A c \in Calls : HandlerKnows(c)
  BY DEF AloneInv
<1>2. \A q : NoneAfter(q) => NoneAfter(q)'
  BY DEF NoneAfter
<1>3. NobodyRecords => NobodyRecords'
  BY DEF NobodyRecords
<1>4. ProcessKnown'
  BY <1>1, <1>2 DEF ProcessKnown
<1>5. VideoKnown'
  BY <1>1, <1>2 DEF VideoKnown
<1>6. \A c \in Calls : HandlerKnows(c)'
  BY <1>1, <1>3 DEF HandlerKnows
<1> QED
  BY <1>4, <1>5, <1>6

LEMMA RecorderOpensVideoKeeps ==
  ASSUME RecorderInv, NEW r \in Calls, RecorderOpensVideo(r)
  PROVE  RecorderInv'
<1> USE DEF RecorderInv
<1>1. calls' = calls /\ (NothingLost' => NothingLost)
  BY DEF RecorderOpensVideo, NothingLost
<1>2. RecorderTypeOK'
  BY DEF RecorderOpensVideo, RecorderTypeOK, Video, Alive
<1>3. OrderInv'
  BY DEF RecorderOpensVideo, OrderInv
<1>4. VideoInv'
  BY DEF RecorderOpensVideo, VideoInv, RecorderTypeOK
<1>5. AloneInv'
  BY <1>1 DEF RecorderOpensVideo, AloneInv, ProcessKnown, VideoKnown, HandlerKnows, Alive,
     NobodyRecords, NoneAfter
<1>6. HandedVideoIsTheLastAndOver'
  BY <1>1 DEF RecorderOpensVideo, HandedVideoIsTheLastAndOver
<1>7. OnlyADeafRecorderIsKilled'
  BY <1>1 DEF RecorderOpensVideo, OnlyADeafRecorderIsKilled
<1> QED
  BY <1>2, <1>3, <1>4, <1>5, <1>6, <1>7

LEMMA RecorderDiesKeeps ==
  ASSUME RecorderInv, NEW r \in Calls, RecorderDies(r)
  PROVE  RecorderInv'
<1> USE DEF RecorderInv
<1>1. calls' = calls /\ (NothingLost' => NothingLost)
  BY DEF RecorderDies, NothingLost
<1>2. RecorderTypeOK'
  BY DEF RecorderDies, RecorderTypeOK, Video
<1>3. OrderInv'
  BY DEF RecorderDies, OrderInv, Alive
<1>4. VideoInv'
  BY DEF RecorderDies, VideoInv
<1>5. AloneInv'
  <2>1. /\ video = NoVideo => video' = NoVideo
        /\ video # NoVideo => video' # NoVideo
        /\ video'.by = video.by
    <3>1. CASE video.by = r
      BY <3>1 DEF RecorderDies, NoVideo
    <3>2. CASE video.by # r
      <4>1. video' = [video EXCEPT !.is = video.is]
        BY <3>2 DEF RecorderDies
      <4>2. video' = video
        BY <4>1 DEF RecorderTypeOK, Video
      <4> QED
        BY <4>2
    <3> QED
      BY <3>1, <3>2
  <2>2. \A q \in Calls : /\ Alive(q)' => Alive(q)
                         /\ ffmpeg[q] = "none" => ffmpeg'[q] = "none"
                         /\ ffmpeg[q] = "over" => ffmpeg'[q] = "over"
    BY DEF RecorderDies, Alive
  <2>3. /\ process' = process
        /\ deaf \subseteq deaf' /\ interrupted \subseteq interrupted'
    BY DEF RecorderDies
  <2> QED
    BY <1>1, <2>1, <2>2, <2>3, AloneKept
<1>6. HandedVideoIsTheLastAndOver'
  BY <1>1 DEF RecorderDies, HandedVideoIsTheLastAndOver, Alive
<1>7. OnlyADeafRecorderIsKilled'
  BY <1>1 DEF RecorderDies, OnlyADeafRecorderIsKilled
<1> QED
  BY <1>2, <1>3, <1>4, <1>5, <1>6, <1>7

LEMMA RecorderFinishesKeeps ==
  ASSUME RecorderInv, NEW r \in Calls, RecorderFinishes(r)
  PROVE  RecorderInv'
<1> USE DEF RecorderInv
<1>1. calls' = calls /\ (NothingLost' => NothingLost)
  BY DEF RecorderFinishes, NothingLost
<1>2. RecorderTypeOK'
  BY DEF RecorderFinishes, RecorderTypeOK, Video
<1>3. OrderInv'
  BY DEF RecorderFinishes, OrderInv, Alive
<1>4. VideoInv'
  BY DEF RecorderFinishes, VideoInv
<1>5. AloneInv'
  <2>1. /\ video = NoVideo => video' = NoVideo
        /\ video # NoVideo => video' # NoVideo
        /\ video'.by = video.by
    <3>1. CASE video.by = r
      BY <3>1 DEF RecorderFinishes, NoVideo
    <3>2. CASE video.by # r
      <4>1. video' = [video EXCEPT !.is = video.is]
        BY <3>2 DEF RecorderFinishes
      <4>2. video' = video
        BY <4>1 DEF RecorderTypeOK, Video
      <4> QED
        BY <4>2
    <3> QED
      BY <3>1, <3>2
  <2>2. \A q \in Calls : /\ Alive(q)' => Alive(q)
                         /\ ffmpeg[q] = "none" => ffmpeg'[q] = "none"
                         /\ ffmpeg[q] = "over" => ffmpeg'[q] = "over"
    BY DEF RecorderFinishes, Alive
  <2>3. /\ process' = process
        /\ deaf \subseteq deaf' /\ interrupted \subseteq interrupted'
    BY DEF RecorderFinishes
  <2> QED
    BY <1>1, <2>1, <2>2, <2>3, AloneKept
<1>6. HandedVideoIsTheLastAndOver'
  BY <1>1 DEF RecorderFinishes, HandedVideoIsTheLastAndOver, Alive
<1>7. OnlyADeafRecorderIsKilled'
  BY <1>1 DEF RecorderFinishes, OnlyADeafRecorderIsKilled
<1> QED
  BY <1>2, <1>3, <1>4, <1>5, <1>6, <1>7

LEMMA RecorderHangsKeeps ==
  ASSUME RecorderInv, NEW r \in Calls, RecorderHangs(r)
  PROVE  RecorderInv'
<1> USE DEF RecorderInv
<1>1. calls' = calls /\ (NothingLost' => NothingLost)
  BY DEF RecorderHangs, NothingLost
<1>2. RecorderTypeOK'
  BY DEF RecorderHangs, RecorderTypeOK
<1>3. OrderInv'
  BY DEF RecorderHangs, OrderInv
<1>4. VideoInv'
  BY DEF RecorderHangs, VideoInv
<1>5. AloneInv'
  <2>1. /\ video = NoVideo => video' = NoVideo
        /\ video # NoVideo => video' # NoVideo
        /\ video'.by = video.by
    BY DEF RecorderHangs
  <2>2. \A q \in Calls : /\ Alive(q)' => Alive(q)
                         /\ ffmpeg[q] = "none" => ffmpeg'[q] = "none"
                         /\ ffmpeg[q] = "over" => ffmpeg'[q] = "over"
    BY DEF RecorderHangs, Alive
  <2>3. /\ process' = process
        /\ deaf \subseteq deaf' /\ interrupted \subseteq interrupted'
    BY DEF RecorderHangs
  <2> QED
    BY <1>1, <2>1, <2>2, <2>3, AloneKept
<1>6. HandedVideoIsTheLastAndOver'
  BY <1>1 DEF RecorderHangs, HandedVideoIsTheLastAndOver
<1>7. OnlyADeafRecorderIsKilled'
  BY <1>1 DEF RecorderHangs, OnlyADeafRecorderIsKilled
<1> QED
  BY <1>2, <1>3, <1>4, <1>5, <1>6, <1>7

LEMMA PipeFillsKeeps ==
  ASSUME RecorderInv, NEW r \in Calls, PipeFills(r)
  PROVE  RecorderInv'
<1> USE DEF RecorderInv
<1>1. calls' = calls /\ (NothingLost' => NothingLost)
  BY DEF PipeFills, NothingLost
<1>2. RecorderTypeOK'
  BY DEF PipeFills, RecorderTypeOK
<1>3. OrderInv'
  BY DEF PipeFills, OrderInv
<1>4. VideoInv'
  BY DEF PipeFills, VideoInv
<1>5. AloneInv'
  <2>1. /\ video = NoVideo => video' = NoVideo
        /\ video # NoVideo => video' # NoVideo
        /\ video'.by = video.by
    BY DEF PipeFills
  <2>2. \A q \in Calls : /\ Alive(q)' => Alive(q)
                         /\ ffmpeg[q] = "none" => ffmpeg'[q] = "none"
                         /\ ffmpeg[q] = "over" => ffmpeg'[q] = "over"
    BY DEF PipeFills, Alive
  <2>3. /\ process' = process
        /\ deaf \subseteq deaf' /\ interrupted \subseteq interrupted'
    BY DEF PipeFills
  <2> QED
    BY <1>1, <2>1, <2>2, <2>3, AloneKept
<1>6. HandedVideoIsTheLastAndOver'
  BY <1>1 DEF PipeFills, HandedVideoIsTheLastAndOver
<1>7. OnlyADeafRecorderIsKilled'
  BY <1>1 DEF PipeFills, OnlyADeafRecorderIsKilled
<1> QED
  BY <1>2, <1>3, <1>4, <1>5, <1>6, <1>7

-----------------------------------------------------------------------------
LEMMA RecorderStepKeeps ==
  ASSUME RecorderInv, [RecorderNext]_recorderVars
  PROVE  RecorderInv'
<1>1. ASSUME NEW c \in Calls, Handler(c)
      PROVE  RecorderInv'
  BY <1>1, CheckStartKeeps, RemoveOldVideoKeeps, OpenRecorderKeeps, WaitForRecorderKeeps,
     SettleKeeps, ReadErrorsKeeps, CheckEndKeeps, SignalRecorderKeeps, DrainRecorderKeeps, RecorderGoneKeeps,
     CommunicateTimesOutKeeps, KillRecorderKeeps, CollectRecorderKeeps,
     ReapRecorderKeeps, ServeVideoKeeps DEF Handler
<1>2. ASSUME NEW c \in Calls, Ffmpeg(c)
      PROVE  RecorderInv'
  BY <1>2, RecorderOpensVideoKeeps, RecorderDiesKeeps, RecorderFinishesKeeps, RecorderHangsKeeps,
     PipeFillsKeeps DEF Ffmpeg
<1>3. CASE UNCHANGED recorderVars
  BY <1>3 DEF recorderVars, RecorderInv, RecorderTypeOK, OrderInv, VideoInv, AloneInv,
     ProcessKnown, VideoKnown, HandlerKnows, Alive, NoneAfter, NobodyRecords, NothingLost,
     HandedVideoIsTheLastAndOver, OnlyADeafRecorderIsKilled
<1> QED
  BY <1>1, <1>2, <1>3, SendRecordingCallKeeps, AnswerIsLostKeeps DEF RecorderNext

\* RecorderInv holds of a guest's recording, whatever is asked of it and
\* whatever becomes of its recorders.
THEOREM RecorderInvariance == RecorderSpec => []RecorderInv
<1>1. RecorderInit => RecorderInv
  BY RecorderInitially
<1>2. RecorderInv /\ [RecorderNext]_recorderVars => RecorderInv'
  BY RecorderStepKeeps
<1> QED
  BY <1>1, <1>2, PTL DEF RecorderSpec

\* Every variable of the recording keeps its type.
THEOREM RecorderTypeCorrectness == RecorderSpec => []RecorderTypeOK
<1>1. RecorderInv => RecorderTypeOK
  BY DEF RecorderInv
<1> QED
  BY <1>1, RecorderInvariance, PTL

\* While no answer was lost, a recorder that runs is the one that main.py's
\* recording_process names: end_recording can stop it.
THEOREM RecorderIsKnown == RecorderSpec => []RunningRecorderIsKnown
<1>1. RecorderInv => RunningRecorderIsKnown
  BY DEF RecorderInv, AloneInv, ProcessKnown, RunningRecorderIsKnown
<1> QED
  BY <1>1, RecorderInvariance, PTL

\* end_recording hands over a video that is over, and of the last recorder.
THEOREM VideoIsTheLast == RecorderSpec => []HandedVideoIsTheLastAndOver
<1>1. RecorderInv => HandedVideoIsTheLastAndOver
  BY DEF RecorderInv
<1> QED
  BY <1>1, RecorderInvariance, PTL

\* end_recording kills a recorder only when it does not heed SIGINT.
THEOREM KillsAreCalledFor == RecorderSpec => []OnlyADeafRecorderIsKilled
<1>1. RecorderInv => OnlyADeafRecorderIsKilled
  BY DEF RecorderInv
<1> QED
  BY <1>1, RecorderInvariance, PTL
=============================================================================
