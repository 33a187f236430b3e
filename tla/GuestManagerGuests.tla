------------------------- MODULE GuestManagerGuests -------------------------
(***************************************************************************)
(* Proofs about the guests and the record of the relay, for every instance *)
(* of GuestManager: guests follow one another in order, and each was       *)
(* ready; the event log tells what became of every sandbox; and the whole  *)
(* implements SandboxLease.                                                *)
(***************************************************************************)
EXTENDS GuestManagerProofs, FiniteSetTheorems

(* The log only grows.                                                     *)
LEMMA LogGrows ==
  ASSUME NEW kind, events \subseteq events'
  PROVE  Logged(kind) \subseteq Logged(kind)'
BY DEF Logged

(* A cleanup takes its task to "killing" or to where it goes afterwards.   *)
LEMMA CleanupGoes ==
  ASSUME NEW t \in Tasks, NEW todo, NEW outcome \in Outcomes,
         pc \in [Tasks -> PCs], StartCleanup(t, todo, outcome)
  PROVE  /\ pc'[t] \in {"killing"} \cup Outcomes
         /\ \A u \in Tasks \ {t} : pc'[u] = pc[u]
BY DEF StartCleanup, Release, Goto

(* Quiet for the tasks: a step of t that brings no task into _create() or  *)
(* into save_snapshot(), neither publishes nor forgets a guest, and closes *)
(* the manager if t goes on to stop it.                                    *)
LEMMA TasksQuiet ==
  ASSUME TasksInv, NEW t \in Tasks,
         events \subseteq events', stopped => stopped',
         UNCHANGED <<guest, generation, number>>,
         \A u \in Tasks \ {t} : pc'[u] = pc[u] /\ candidate'[u] = candidate[u],
         pc'[t] = "stop_acquire" => stopped',
         pc'[t] \in Replacing => pc[t] \in Replacing,
         pc'[t] \in {"created", "polling"} =>
            pc[t] \in {"created", "polling"} /\ candidate'[t] = candidate[t],
         pc'[t] \in {"snapshotting", "captured"} =>
            \/ candidate'[t] \in Logged("SANDBOX_READY")
            \/ /\ pc[t] \in {"snapshotting", "captured"}
               /\ candidate'[t] = candidate[t]
  PROVE  TasksInv'
<1>1. Logged("SANDBOX_READY") \subseteq Logged("SANDBOX_READY")'
  BY LogGrows
<1>2. NextGeneration' = NextGeneration
  BY DEF NextGeneration
<1>3. QED
  BY <1>1, <1>2 DEF TasksInv

(* The guest changes while t has the lock, so nobody is inside _create().  *)
LEMMA TasksHandOver ==
  ASSUME TasksInv, LockIsHeld, NEW t \in Tasks,
         replace_lock \in {t, NoTask},
         events \subseteq events',
         UNCHANGED <<stopped, candidate>>,
         pc'[t] \in {"killing"} \cup Outcomes,
         \A u \in Tasks \ {t} : pc'[u] = pc[u]
  PROVE  TasksInv'
<1> USE IdentityAssumption
<1>1. Logged("SANDBOX_READY") \subseteq Logged("SANDBOX_READY")'
  BY LogGrows
<1>2. \A u \in Tasks : pc'[u] \notin Replacing
  BY DEF LockIsHeld, Holding, Replacing, Outcomes, Tasks
<1>3. QED
  BY <1>1, <1>2 DEF TasksInv, Replacing, Outcomes

-----------------------------------------------------------------------------
(* Every step keeps what the tasks know.                                   *)
LEMMA TasksStep ==
  ASSUME IInv, ServedGuestsAreReady, TasksInv, [Next]_vars
  PROVE  TasksInv'
<1> USE IdentityAssumption
<1> USE DEF At, Goto, Release, Fault
<1>0. pc \in [Tasks -> PCs] /\ candidate \in [Tasks -> Sandboxes \cup {NoSandbox}]
  BY DEF IInv, TypeOK
<1>1. ASSUME NEW t \in Tasks, AcquireReplace(t) PROVE TasksInv'
  <2> USE <1>1 DEF AcquireReplace, worldVars, cleanupVars
  <2>1. /\ NextGeneration' = NextGeneration
        /\ Logged("SANDBOX_READY")' = Logged("SANDBOX_READY")
    BY DEF NextGeneration, Logged
  <2>2. \A u \in Tasks \ {t} : pc'[u] = pc[u] /\ number'[u] = number[u]
    BY DEF IInv, TypeOK
  <2>3. \/ pc'[t] = "failed"
        \/ pc'[t] = "creating" /\ number'[t] = NextGeneration
    BY DEF IInv, TypeOK
  <2>4. QED
    BY <2>1, <2>2, <2>3 DEF TasksInv, Replacing
<1>2. ASSUME NEW t \in Tasks, AcquireStop(t) PROVE TasksInv'
  <2> USE <1>2 DEF AcquireStop, worldVars, requestVars
  <2> DEFINE todo == (pending \cup {guest}) \ {NoSandbox}
             outcome == IF t = Main THEN "closing" ELSE "done"
  <2>1. outcome \in Outcomes /\ StartCleanup(t, todo, outcome)
    BY DEF Outcomes
  <2>2. /\ pc'[t] \in {"killing"} \cup Outcomes
        /\ \A u \in Tasks \ {t} : pc'[u] = pc[u]
    BY <1>0, <2>1, CleanupGoes
  <2>3. QED
    BY <2>2, TasksHandOver DEF IInv
<1>3. ASSUME NEW t \in Tasks, CloudCreates(t) PROVE TasksInv'
  <2> USE <1>3 DEF CloudCreates, managerVars, cleanupVars
  <2>1. PICK s \in Sandboxes :
          /\ cloud[s] = "unused"
          /\ generation' = [generation EXCEPT ![s] = number[t]]
          /\ candidate' = [candidate EXCEPT ![t] = s]
    OBVIOUS
  <2>2. /\ guest # s
        /\ \A u \in Tasks : pc[u] \in {"created", "polling"} => candidate[u] # s
    BY <2>1 DEF IInv, OwnedAreNotCleaned, HeldBy
  <2>3. /\ NextGeneration' = NextGeneration
        /\ Logged("SANDBOX_READY")' = Logged("SANDBOX_READY")
    BY <2>1, <2>2 DEF NextGeneration, Logged
  <2>4. /\ pc'[t] = "created" /\ candidate'[t] = s /\ generation'[s] = number[t]
        /\ number[t] = NextGeneration
    BY <2>1 DEF IInv, TypeOK, TasksInv, Replacing
  <2>5. \A u \in Tasks \ {t} :
          /\ pc'[u] = pc[u] /\ candidate'[u] = candidate[u]
          /\ pc[u] \in {"created", "polling"}
                => generation'[candidate[u]] = generation[candidate[u]]
    BY <2>1, <2>2
  <2>6. UNCHANGED <<stopped, number>>
    OBVIOUS
  <2> HIDE DEF CloudCreates
  <2>7. QED
    BY <2>3, <2>4, <2>5, <2>6 DEF TasksInv
<1>4. ASSUME NEW t \in Tasks, CreateFails(t) PROVE TasksInv'
  BY <1>4, TasksQuiet DEF CreateFails, worldVars, requestVars, Replacing
<1>5. ASSUME NEW t \in Tasks, CreateReturnsNoToken(t) PROVE TasksInv'
  <2> USE <1>5 DEF CreateReturnsNoToken, worldVars, requestVars
  <2>1. /\ pc'[t] \in {"killing"} \cup Outcomes
        /\ \A u \in Tasks \ {t} : pc'[u] = pc[u]
    BY <1>0, CleanupGoes DEF Outcomes
  <2>2. QED
    BY <2>1, TasksQuiet DEF Replacing, Outcomes
<1>6. ASSUME NEW t \in Tasks, CreateReturns(t) PROVE TasksInv'
  <2> USE <1>6 DEF CreateReturns, managerVars, cleanupVars, requestVars
  <2>1. /\ pc'[t] = "polling" /\ pc[t] = "created"
        /\ \A u \in Tasks \ {t} : pc'[u] = pc[u]
    BY <1>0
  <2>2. events \subseteq events' /\ UNCHANGED <<guest, stopped, candidate, generation, number>>
    OBVIOUS
  <2> HIDE DEF CreateReturns
  <2>3. QED
    BY <2>1, <2>2, TasksQuiet DEF Replacing
<1>7. ASSUME NEW t \in Tasks, GuestReady(t) PROVE TasksInv'
  <2> USE <1>7 DEF GuestReady, requestVars
  <2>1. replace_lock = t
    BY DEF IInv, LockIsHeld, Holding, Replacing
  <2>2. PICK todo : \E outcome \in Outcomes : StartCleanup(t, todo, outcome)
    BY DEF Outcomes, Replaced
  <2>3. /\ pc'[t] \in {"killing"} \cup Outcomes
        /\ \A u \in Tasks \ {t} : pc'[u] = pc[u]
    BY <1>0, <2>2, CleanupGoes
  <2>4. events \subseteq events' /\ UNCHANGED <<stopped, candidate>>
    OBVIOUS
  <2>5. LockIsHeld
    BY DEF IInv
  <2> HIDE DEF GuestReady
  <2>6. QED
    BY <2>1, <2>3, <2>4, <2>5, TasksHandOver
<1>8. ASSUME NEW t \in Tasks, GuestNotReady(t) PROVE TasksInv'
  <2> USE <1>8 DEF GuestNotReady, worldVars, requestVars
  <2>1. /\ pc'[t] \in {"killing"} \cup Outcomes
        /\ \A u \in Tasks \ {t} : pc'[u] = pc[u]
    BY <1>0, CleanupGoes DEF Outcomes
  <2>2. QED
    BY <2>1, TasksQuiet DEF Replacing, Outcomes
<1>9. ASSUME NEW t \in Tasks, KillSucceeds(t) \/ KillGivesUp(t) PROVE TasksInv'
  <2> USE <1>9 DEF KillSucceeds, KillGivesUp, NextCleanup, requestVars
  <2>1. after[t] \in Outcomes /\ StartCleanup(t, reap[t], after[t])
    BY DEF IInv, TypeOK
  <2>2. /\ pc'[t] \in {"killing"} \cup Outcomes
        /\ \A u \in Tasks \ {t} : pc'[u] = pc[u]
    BY <1>0, <2>1, CleanupGoes
  <2>3. events \subseteq events' /\ UNCHANGED <<guest, stopped, candidate, generation, number>>
    OBVIOUS
  <2> HIDE DEF KillSucceeds, KillGivesUp
  <2>4. QED
    BY <2>2, <2>3, TasksQuiet DEF Replacing, Outcomes
<1>10. ASSUME NEW t \in Tasks, KillRetries(t) PROVE TasksInv'
  BY <1>10, TasksQuiet DEF KillRetries, managerVars, requestVars
<1>11. ASSUME NEW t \in Tasks, LogWriteFails(t) PROVE TasksInv'
  BY <1>11, TasksQuiet DEF LogWriteFails, requestVars, Replacing
<1>12. ASSUME NEW r \in Requests, RequestReset(r) PROVE TasksInv'
  BY <1>0, <1>12, TasksQuiet DEF RequestReset, managerVars, worldVars, Replacing, Tasks
<1>13. ASSUME NEW r \in Requests, RequestSave(r) PROVE TasksInv'
  <2> USE <1>13 DEF RequestSave, Arrives, managerVars, worldVars, cleanupVars
  <2>1. /\ pc'[r] \in {"failed", "snapshotting"} /\ candidate'[r] = guest
        /\ pc'[r] = "snapshotting" => guest \in Logged("SANDBOX_READY")
    BY <1>0 DEF ServedGuestsAreReady, Tasks
  <2>2. \A u \in Tasks \ {r} : pc'[u] = pc[u] /\ candidate'[u] = candidate[u]
    OBVIOUS
  <2>3. r \in Tasks /\ UNCHANGED <<guest, stopped, generation, number, events>>
    BY DEF Tasks
  <2> HIDE DEF RequestSave
  <2>4. QED
    BY <2>1, <2>2, <2>3, TasksQuiet DEF Replacing
<1>14. ASSUME NEW r \in Requests, RequestStop(r) PROVE TasksInv'
  BY <1>14, TasksQuiet DEF RequestStop, Replacing, Tasks
<1>15. ASSUME NEW r \in Requests, CaptureSnapshot(r) PROVE TasksInv'
  BY <1>0, <1>15, TasksQuiet DEF CaptureSnapshot, managerVars, worldVars, requestVars, Replacing,
     Tasks
<1>16. ASSUME NEW r \in Requests, RegisterSnapshot(r) PROVE TasksInv'
  <2> USE <1>16 DEF RegisterSnapshot, cleanupVars, requestVars
  <2>1. pc'[r] \in Outcomes /\ \A u \in Tasks \ {r} : pc'[u] = pc[u]
    BY <1>0 DEF Outcomes, Tasks
  <2>2. /\ r \in Tasks /\ events \subseteq events'
        /\ UNCHANGED <<guest, stopped, candidate, generation, number>>
    BY DEF Tasks
  <2> HIDE DEF RegisterSnapshot
  <2>3. QED
    BY <2>1, <2>2, TasksQuiet DEF Replacing, Outcomes
<1>17. ASSUME BindServers \/ MainStops PROVE TasksInv'
  <2>1. /\ pc'[Main] = "serving" \/ (pc'[Main] = "stop_acquire" /\ stopped')
        /\ stopped => stopped'
        /\ \A u \in Tasks \ {Main} : pc'[u] = pc[u]
    BY <1>0, <1>17 DEF BindServers, MainStops, Tasks
  <2>2. /\ Main \in Tasks
        /\ UNCHANGED <<guest, candidate, generation, number, events>>
    BY <1>17 DEF BindServers, MainStops, worldVars, requestVars, Tasks
  <2>3. QED
    BY <2>1, <2>2, TasksQuiet DEF Replacing
<1>18. ASSUME \/ ProcessExits \/ Terminate \/ Kill
              \/ \E s \in Sandboxes : Expire(s)
              \/ UNCHANGED vars
       PROVE  TasksInv'
  <2>1. UNCHANGED <<pc, guest, stopped, candidate, generation, number, events>>
    BY <1>18 DEF ProcessExits, Terminate, Kill, Expire, vars, managerVars, worldVars, requestVars
  <2>2. QED
    BY <2>1 DEF TasksInv, NextGeneration, Logged
<1>19. QED
  BY <1>1, <1>2, <1>3, <1>4, <1>5, <1>6, <1>7, <1>8, <1>9, <1>10, <1>11, <1>12, <1>13, <1>14,
     <1>15, <1>16, <1>17, <1>18 DEF Next, Acquire, Creating, CleaningUp, Request, Saving, MainLoop

-----------------------------------------------------------------------------
(* The guest changes when a stop takes it, which closes the manager first, *)
(* or when a candidate that follows it is published.                       *)
LEMMA GuestStep ==
  ASSUME IInv, TasksInv, [Next]_vars, guest' # guest
  PROVE  \/ \E t \in Tasks : AcquireStop(t) /\ guest' = NoSandbox
         \/ \E t \in Tasks : /\ GuestReady(t) /\ ~stopped
                             /\ guest' = candidate[t]
                             /\ candidate[t] \in Sandboxes
<1>1. CASE \E t \in Tasks : AcquireStop(t)
  BY <1>1 DEF AcquireStop
<1>2. CASE \E t \in Tasks : GuestReady(t)
  BY <1>2 DEF GuestReady, At, IInv, LocalsDefined
<1>3. ASSUME NEW t \in Tasks,
             \/ AcquireReplace(t) \/ CloudCreates(t) \/ CreateFails(t)
             \/ CreateReturnsNoToken(t) \/ CreateReturns(t) \/ GuestNotReady(t)
             \/ KillSucceeds(t) \/ KillRetries(t) \/ KillGivesUp(t)
             \/ LogWriteFails(t)
      PROVE  FALSE
  BY <1>3 DEF AcquireReplace, CloudCreates, CreateFails, CreateReturnsNoToken, CreateReturns,
     GuestNotReady, KillSucceeds, KillRetries, KillGivesUp, LogWriteFails, managerVars
<1>4. ASSUME NEW r \in Requests,
             \/ RequestReset(r) \/ RequestSave(r) \/ RequestStop(r)
             \/ CaptureSnapshot(r) \/ RegisterSnapshot(r)
      PROVE  FALSE
  BY <1>4 DEF RequestReset, RequestSave, RequestStop, CaptureSnapshot, RegisterSnapshot,
     managerVars
<1>5. ASSUME \/ MainLoop \/ Terminate \/ Kill
             \/ \E s \in Sandboxes : Expire(s)
             \/ UNCHANGED vars
      PROVE  FALSE
  BY <1>5 DEF MainLoop, BindServers, MainStops, ProcessExits, Terminate, Kill, Expire, vars,
     managerVars
<1>6. QED
  BY <1>1, <1>2, <1>3, <1>4, <1>5 DEF Next, Acquire, Creating, CleaningUp, Request, Saving

(* Every step only adds lines to the log.                                  *)
LEMMA EventsGrow ==
  ASSUME [Next]_vars
  PROVE  events \subseteq events'
<1>1. CASE \E t \in Tasks : Acquire(t) \/ Creating(t) \/ CleaningUp(t) \/ LogWriteFails(t)
  BY <1>1 DEF Acquire, Creating, CleaningUp, AcquireReplace, AcquireStop, CloudCreates,
     CreateFails, CreateReturnsNoToken, CreateReturns, GuestReady, GuestNotReady, KillSucceeds,
     KillRetries, KillGivesUp, LogWriteFails, worldVars
<1>2. CASE \E r \in Requests : Request(r) \/ Saving(r)
  BY <1>2 DEF Request, Saving, RequestReset, RequestSave, RequestStop, CaptureSnapshot,
     RegisterSnapshot, worldVars
<1>3. CASE \/ MainLoop \/ Terminate \/ Kill
           \/ \E s \in Sandboxes : Expire(s)
           \/ UNCHANGED vars
  BY <1>3 DEF MainLoop, BindServers, MainStops, ProcessExits, Terminate, Kill, Expire, vars,
     worldVars
<1>4. QED
  BY <1>1, <1>2, <1>3 DEF Next

(* What is served stays ready: a new guest is logged as ready in the step  *)
(* that publishes it, a snapshot is of a guest that was.                   *)
LEMMA ReadyStep ==
  ASSUME IInv, ServedGuestsAreReady, TasksInv, [Next]_vars
  PROVE  ServedGuestsAreReady'
<1>1. events \subseteq events'
  BY EventsGrow
<1>2. Logged("SANDBOX_READY") \subseteq Logged("SANDBOX_READY")'
  BY <1>1, LogGrows
<1>3. guest' \in Logged("SANDBOX_READY")' \cup {NoSandbox}
  <2>1. CASE guest' = guest
    BY <1>2, <2>1 DEF ServedGuestsAreReady
  <2>2. CASE guest' # guest
    BY <2>2, GuestStep DEF GuestReady, Logged
  <2>3. QED
    BY <2>1, <2>2
<1>4. \A n \in Names : snapshots'[n] \in Logged("SANDBOX_READY")' \cup {NoSandbox}
  <2>1. CASE UNCHANGED snapshots
    BY <1>2, <2>1 DEF ServedGuestsAreReady
  <2>2. ASSUME NEW r \in Requests, RegisterSnapshot(r)
        PROVE  \A n \in Names : snapshots'[n] \in Logged("SANDBOX_READY")' \cup {NoSandbox}
    <3>1. candidate[r] \in Logged("SANDBOX_READY")
      BY <2>2 DEF RegisterSnapshot, At, TasksInv, Tasks
    <3>2. \A n \in Names : snapshots'[n] \in {snapshots[n], candidate[r]}
      BY <2>2 DEF RegisterSnapshot
    <3>3. QED
      BY <1>2, <3>1, <3>2 DEF ServedGuestsAreReady
  <2>3. UNCHANGED snapshots \/ \E r \in Requests : RegisterSnapshot(r)
    <3>1. CASE \E t \in Tasks : Acquire(t) \/ Creating(t) \/ CleaningUp(t) \/ LogWriteFails(t)
      BY <3>1 DEF Acquire, Creating, CleaningUp, AcquireReplace, AcquireStop, CloudCreates,
         CreateFails, CreateReturnsNoToken, CreateReturns, GuestReady, GuestNotReady,
         KillSucceeds, KillRetries, KillGivesUp, LogWriteFails, managerVars
    <3>2. CASE \E r \in Requests : Request(r) \/ Saving(r)
      BY <3>2 DEF Request, Saving, RequestReset, RequestSave, RequestStop, CaptureSnapshot,
         managerVars
    <3>3. CASE \/ MainLoop \/ Terminate \/ Kill
               \/ \E s \in Sandboxes : Expire(s)
               \/ UNCHANGED vars
      BY <3>3 DEF MainLoop, BindServers, MainStops, ProcessExits, Terminate, Kill, Expire, vars,
         managerVars
    <3>4. QED
      BY <3>1, <3>2, <3>3 DEF Next
  <2>4. QED
    BY <2>1, <2>2, <2>3
<1>5. QED
  BY <1>3, <1>4 DEF ServedGuestsAreReady

-----------------------------------------------------------------------------
(* The results.                                                            *)

(* GuestsInv holds in every reachable state of the relay.                  *)
THEOREM GuestsInvariance == Spec => []GuestsInv
<1>1. Init => ServedGuestsAreReady /\ TasksInv
  BY DEF Init, ServedGuestsAreReady, TasksInv, Replacing
<1>2. IInv /\ ServedGuestsAreReady /\ TasksInv /\ [Next]_vars
        => ServedGuestsAreReady' /\ TasksInv'
  BY TasksStep, ReadyStep
<1>3. ServedGuestsAreReady /\ TasksInv => GuestsInv
  BY DEF GuestsInv
<1>4. QED
  BY Invariance, <1>1, <1>2, <1>3, PTL DEF Spec

(* Requests are served, and snapshots taken, only from guests that have    *)
(* answered /screen_size.                                                  *)
THEOREM OnlyReadyGuestsAreServed == Spec => []ServedGuestsAreReady
<1>1. GuestsInv => ServedGuestsAreReady
  BY DEF GuestsInv
<1>2. QED
  BY GuestsInvariance, <1>1, PTL

(* The guest is replaced by the next generation or, after a stop, by none. *)
THEOREM GuestsFollowInOrder == Spec => GuestChangesInOrder
<1>1. ASSUME IInv, GuestsInv, [Next]_vars
      PROVE  [guest' # guest =>
                IF guest' = NoSandbox THEN stopped
                ELSE ~stopped /\ generation[guest'] = NextGeneration]_vars
  <2> SUFFICES ASSUME guest' # guest
               PROVE  IF guest' = NoSandbox THEN stopped
                      ELSE ~stopped /\ generation[guest'] = NextGeneration
    OBVIOUS
  <2>1. TasksInv
    BY <1>1 DEF GuestsInv
  <2>2. CASE \E t \in Tasks : AcquireStop(t) /\ guest' = NoSandbox
    BY <2>1, <2>2 DEF AcquireStop, At, TasksInv
  <2>3. CASE \E t \in Tasks : /\ GuestReady(t) /\ ~stopped
                              /\ guest' = candidate[t]
                              /\ candidate[t] \in Sandboxes
    BY <2>1, <2>3, IdentityAssumption DEF GuestReady, At, TasksInv, Replacing
  <2>4. QED
    BY <1>1, <2>1, <2>2, <2>3, GuestStep
<1>2. QED
  BY Invariance, GuestsInvariance, <1>1, PTL DEF Spec, GuestChangesInOrder

-----------------------------------------------------------------------------
(* What is on record.                                                      *)

Created == Logged("SANDBOX_CREATED")
Cleaned == Logged("SANDBOX_CLEANED")
Failed  == Logged("SANDBOX_CLEANUP_FAILED")

(* What a holder of the lock works on is on record, or nothing is on       *)
(* record as cleaned that could make the log say "success" without it; of  *)
(* what it cleans up, one sandbox at most is not on record as failed.      *)
HolderInv(t) ==
  /\ pc[t] \in {"creating", "created"} => guest # NoSandbox \/ Cleaned = {}
  /\ pc[t] = "polling" => candidate[t] \in Created
  /\ pc[t] = "killing" =>
       /\ reap[t] \subseteq Created \cup Failed
       /\ \/ victim[t] \in Created \cup Failed
          \/ guest # NoSandbox
          \/ Cleaned = {}
       /\ \E s \in Sandboxes : HeldBy(t) \subseteq {s} \cup Failed

(* main() before its servers are up: nothing else has happened.            *)
Starting == \/ pc[Main] \in {"acquire", "binding", "failed"} \cup Replacing
            \/ pc[Main] = "killing" /\ after[Main] = "failed"

StartInv ==
  Starting => /\ ~stopped /\ ~stop_event
              /\ \A r \in Requests : pc[r] = "idle"
              /\ pc[Main] # "binding" => guest = NoSandbox
              /\ pc[Main] \notin {"binding", "failed"} => Cleaned = {}
              /\ pc[Main] = "killing" => reap[Main] = {}

(* Afterwards there is a guest until the manager is stopped.               *)
ServeInv == ~stopped /\ (~Starting \/ pc[Main] = "binding") => guest # NoSandbox

(* A task that stops the manager does nothing else.                        *)
StopperInv ==
  /\ \A r \in Requests : call[r] = "stop" =>
       /\ pc[r] \in {"stop_acquire", "killing", "done"}
       /\ pc[r] = "killing" => after[r] = "done"
  /\ pc[Main] = "killing" => after[Main] \in {"failed", "closing"}

(* stop() has had the lock; it has returned.                               *)
Shut == \/ \E r \in Requests : call[r] = "stop" /\ pc[r] \in {"killing", "done"}
        \/ pc[Main] = "killing" /\ after[Main] = "closing"
        \/ pc[Main] = "closing"
Over == \/ \E r \in Requests : call[r] = "stop" /\ pc[r] = "done"
        \/ pc[Main] = "closing"

ShutInv ==
  /\ Shut => stopped /\ guest = NoSandbox /\ \A t \in Tasks : pc[t] \notin Replacing
  /\ Over => \A t \in Tasks : HeldBy(t) \subseteq Failed

HoldersInv ==
  /\ pending \subseteq Failed
  /\ guest # NoSandbox => guest \in Created
  /\ \A t \in Tasks : HolderInv(t)

LifeInv ==
  /\ StartInv /\ ServeInv /\ StopperInv /\ ShutInv
  /\ proc = "exited" => pc[Main] \in {"closing", "failed"}

RecordInv == HoldersInv /\ LifeInv

LEMMA RecordInit == Init => RecordInv
<1> SUFFICES ASSUME Init PROVE RecordInv
  OBVIOUS
<1> USE IdentityAssumption DEF Init, Tasks
<1>1. HoldersInv
  BY DEF HoldersInv, HolderInv
<1>2. LifeInv
  BY DEF LifeInv, StartInv, ServeInv, StopperInv, ShutInv, Shut, Over, Starting, Cleaned, Logged
<1>3. QED
  BY <1>1, <1>2 DEF RecordInv

(* What StartCleanup does with the locals.                                 *)
LEMMA CleanupDoes ==
  ASSUME NEW t \in Tasks, NEW todo \in SUBSET Sandboxes, NEW outcome \in Outcomes,
         TypeOK, StartCleanup(t, todo, outcome), UNCHANGED candidate
  PROVE  /\ pc'[t] = IF todo = {} THEN outcome ELSE "killing"
         /\ todo # {} => victim'[t] \in todo /\ reap'[t] = todo \ {victim'[t]} /\ after'[t] = outcome
         /\ HeldBy(t)' = todo
         /\ \A u \in Tasks \ {t} :
              /\ pc'[u] = pc[u] /\ victim'[u] = victim[u] /\ reap'[u] = reap[u]
              /\ after'[u] = after[u] /\ HeldBy(u)' = HeldBy(u)
<1>1. HeldBy(t)' = todo /\ \A u \in Tasks \ {t} : HeldBy(u)' = HeldBy(u)
  BY CleanupStarts
<1> USE DEF StartCleanup, TypeOK, cleanupVars, Release, Goto
<1>4. QED
  BY <1>1

(* Nobody but the lock's holder is inside one of its blocks.               *)
LEMMA OthersWait ==
  ASSUME LockIsHeld, NEW t \in Tasks, replace_lock \in {t, NoTask}
  PROVE  \A u \in Tasks \ {t} : pc[u] \notin Holding
BY IdentityAssumption DEF LockIsHeld, Tasks

(* A step of t that moves no sandbox and cleans none.                      *)
LEMMA HoldersQuiet ==
  ASSUME HoldersInv, NEW t \in Tasks,
         events \subseteq events', Cleaned' = Cleaned, UNCHANGED <<guest, pending>>,
         \A u \in Tasks \ {t} :
           /\ pc'[u] = pc[u] /\ candidate'[u] = candidate[u] /\ victim'[u] = victim[u]
           /\ reap'[u] = reap[u] /\ HeldBy(u)' = HeldBy(u),
         HolderInv(t)'
  PROVE  HoldersInv'
<1>1. Created \subseteq Created' /\ Failed \subseteq Failed'
  BY LogGrows DEF Created, Failed
<1>2. ASSUME NEW u \in Tasks \ {t} PROVE HolderInv(u)'
  BY <1>1 DEF HoldersInv, HolderInv
<1>3. QED
  BY <1>1, <1>2 DEF HoldersInv

(* A step of the lock's holder that ends in StartCleanup.                  *)
LEMMA HoldersCleanup ==
  ASSUME HoldersInv, LockIsHeld, TypeOK, NEW t \in Tasks,
         NEW todo \in SUBSET Sandboxes, NEW outcome \in Outcomes,
         StartCleanup(t, todo, outcome), UNCHANGED candidate,
         replace_lock \in {t, NoTask}, events \subseteq events',
         pending' \subseteq Failed',
         guest' # NoSandbox => guest' \in Created',
         \/ todo \subseteq Created' \cup Failed'
         \/ \E s \in Sandboxes : todo = {s} /\ (guest' # NoSandbox \/ Cleaned' = {}),
         todo # {} => \E s \in Sandboxes : todo \subseteq {s} \cup Failed'
  PROVE  HoldersInv'
<1>1. \A u \in Tasks \ {t} : pc'[u] \notin Holding
  BY CleanupDoes, OthersWait
<1>2. ASSUME NEW u \in Tasks \ {t} PROVE HolderInv(u)'
  BY <1>1 DEF HolderInv, Holding, Replacing
<1>3. CASE todo = {}
  <2>1. pc'[t] \in Outcomes
    BY <1>3, CleanupDoes
  <2>2. HolderInv(t)'
    BY <2>1 DEF HolderInv, Outcomes
  <2>3. QED
    BY <1>2, <2>2 DEF HoldersInv
<1>4. CASE todo # {}
  <2>1. /\ pc'[t] = "killing" /\ victim'[t] \in todo /\ reap'[t] = todo \ {victim'[t]}
        /\ HeldBy(t)' = todo
    BY <1>4, CleanupDoes
  <2>4. HolderInv(t)'
    BY <2>1 DEF HolderInv
  <2>5. QED
    BY <1>2, <2>4 DEF HoldersInv
<1>5. QED
  BY <1>3, <1>4

LEMMA HoldersStep ==
  ASSUME IInv, TypeOK', LocalsDefined', TasksInv, RecordInv, ~Blind, [Next]_vars
  PROVE  HoldersInv'
<1> USE IdentityAssumption
<1> USE DEF At, Goto, Release, Fault, Event
<1>0. /\ HoldersInv /\ LockIsHeld /\ TypeOK /\ LocalsDefined /\ OwnersAreApart
      /\ events \subseteq events'
      /\ Created \subseteq Created' /\ Failed \subseteq Failed'
  BY EventsGrow, LogGrows DEF RecordInv, IInv, Created, Failed
<1>1. ASSUME NEW t \in Tasks, AcquireReplace(t) PROVE HoldersInv'
  <2> USE <1>1 DEF AcquireReplace, worldVars, cleanupVars
  <2>1. \A u \in Tasks \ {t} :
          /\ pc'[u] = pc[u] /\ candidate'[u] = candidate[u] /\ victim'[u] = victim[u]
          /\ reap'[u] = reap[u] /\ HeldBy(u)' = HeldBy(u)
    BY DEF TypeOK, HeldBy
  <2>2. Cleaned' = Cleaned /\ UNCHANGED <<guest, pending>>
    BY DEF Cleaned, Logged
  <2>3. pc'[t] = "failed" \/ (pc'[t] = "creating" /\ ~stopped)
    BY DEF TypeOK
  <2>4. ~stopped => guest # NoSandbox \/ Cleaned = {}
    <3>1. CASE t = Main
      BY <3>1 DEF RecordInv, LifeInv, StartInv, Starting
    <3>2. CASE t # Main
      BY DEF RecordInv, LifeInv, StartInv, ServeInv, Tasks
    <3>3. QED
      BY <3>1, <3>2
  <2>5. HolderInv(t)'
    BY <2>2, <2>3, <2>4 DEF HolderInv
  <2>6. QED
    BY <1>0, <2>1, <2>2, <2>5, HoldersQuiet
<1>2. ASSUME NEW t \in Tasks, AcquireStop(t) PROVE HoldersInv'
  <2> DEFINE todo == (pending \cup {guest}) \ {NoSandbox}
             outcome == IF t = Main THEN "closing" ELSE "done"
  <2>1. /\ StartCleanup(t, todo, outcome) /\ UNCHANGED candidate
        /\ replace_lock = NoTask /\ guest' = NoSandbox /\ pending' = {}
        /\ outcome \in Outcomes /\ todo \in SUBSET Sandboxes
    BY <1>0, <1>2 DEF AcquireStop, requestVars, Outcomes, TypeOK
  <2>2. todo \subseteq Created' \cup Failed'
    BY <1>0 DEF HoldersInv
  <2>3. todo # {} => \E s \in Sandboxes : todo \subseteq {s} \cup Failed'
    <3>1. CASE guest = NoSandbox
      BY <1>0, <2>1 DEF HoldersInv
    <3>2. CASE guest # NoSandbox
      BY <1>0 DEF HoldersInv, TypeOK
    <3>3. QED
      BY <3>1, <3>2
  <2> HIDE DEF todo, outcome
  <2>4. QED
    BY <1>0, <2>1, <2>2, <2>3, HoldersCleanup
<1>3. ASSUME NEW t \in Tasks, CloudCreates(t) PROVE HoldersInv'
  <2> USE <1>3 DEF CloudCreates, managerVars, cleanupVars
  <2>1. \A u \in Tasks \ {t} :
          /\ pc'[u] = pc[u] /\ candidate'[u] = candidate[u] /\ victim'[u] = victim[u]
          /\ reap'[u] = reap[u] /\ HeldBy(u)' = HeldBy(u)
    BY DEF HeldBy
  <2>2. Cleaned' = Cleaned /\ UNCHANGED <<guest, pending>>
    BY DEF Cleaned, Logged
  <2>4. HolderInv(t)'
    BY <1>0, <2>2 DEF HoldersInv, HolderInv
  <2>5. QED
    BY <1>0, <2>1, <2>2, <2>4, HoldersQuiet
<1>4. ASSUME NEW t \in Tasks, CreateFails(t) \/ LogWriteFails(t) PROVE HoldersInv'
  <2> USE <1>4 DEF CreateFails, LogWriteFails, worldVars, cleanupVars, requestVars, Blind
  <2>1. \A u \in Tasks \ {t} :
          /\ pc'[u] = pc[u] /\ candidate'[u] = candidate[u] /\ victim'[u] = victim[u]
          /\ reap'[u] = reap[u] /\ HeldBy(u)' = HeldBy(u)
    BY DEF TypeOK, HeldBy
  <2>2. Cleaned' = Cleaned /\ UNCHANGED <<guest, pending>>
    BY DEF Cleaned, Logged
  <2>3. pc'[t] = "failed"
    BY DEF TypeOK
  <2>4. HolderInv(t)'
    BY <2>3 DEF HolderInv
  <2>5. QED
    BY <1>0, <2>1, <2>2, <2>4, HoldersQuiet
<1>5. ASSUME NEW t \in Tasks,
             CreateReturnsNoToken(t) \/ GuestNotReady(t) \/ (GuestReady(t) /\ stopped)
      PROVE  HoldersInv'
  <2>1. /\ StartCleanup(t, {candidate[t]}, "failed") /\ UNCHANGED <<candidate, guest, pending>>
        /\ pc[t] \in {"created", "polling"} /\ Cleaned' = Cleaned
    BY <1>5 DEF CreateReturnsNoToken, GuestNotReady, GuestReady, requestVars, worldVars, Cleaned,
       Logged
  <2>2. candidate[t] \in Sandboxes /\ replace_lock = t /\ "failed" \in Outcomes
    BY <1>0, <2>1 DEF LocalsDefined, LockIsHeld, Holding, Replacing, Outcomes
  <2>3. \/ {candidate[t]} \subseteq Created'
        \/ guest' # NoSandbox \/ Cleaned' = {}
    BY <1>0, <2>1 DEF HoldersInv, HolderInv
  <2>4. pending' \subseteq Failed' /\ (guest' # NoSandbox => guest' \in Created')
    BY <1>0, <2>1 DEF HoldersInv
  <2>5. QED
    BY <1>0, <2>1, <2>2, <2>3, <2>4, HoldersCleanup
<1>6. ASSUME NEW t \in Tasks, CreateReturns(t) PROVE HoldersInv'
  <2> USE <1>6 DEF CreateReturns, managerVars, cleanupVars, requestVars
  <2>1. \A u \in Tasks \ {t} :
          /\ pc'[u] = pc[u] /\ candidate'[u] = candidate[u] /\ victim'[u] = victim[u]
          /\ reap'[u] = reap[u] /\ HeldBy(u)' = HeldBy(u)
    BY DEF HeldBy
  <2>2. Cleaned' = Cleaned /\ UNCHANGED <<guest, pending>>
    BY DEF Cleaned, Logged
  <2>3. pc'[t] = "polling" /\ candidate'[t] \in Created'
    BY DEF TypeOK, Created, Logged
  <2>4. HolderInv(t)'
    BY <2>3 DEF HolderInv
  <2>5. QED
    BY <1>0, <2>1, <2>2, <2>4, HoldersQuiet
<1>7. ASSUME NEW t \in Tasks, GuestReady(t), ~stopped PROVE HoldersInv'
  <2> DEFINE todo == {guest} \ {NoSandbox}
  <2>1. /\ StartCleanup(t, todo, Replaced(t)) /\ UNCHANGED <<candidate, pending>>
        /\ pc[t] = "polling" /\ guest' = candidate[t]
    BY <1>7 DEF GuestReady, requestVars
  <2>2. /\ replace_lock = t /\ Replaced(t) \in Outcomes /\ todo \in SUBSET Sandboxes
    BY <1>0, <2>1 DEF LockIsHeld, Holding, Replacing, Outcomes, Replaced, TypeOK
  <2>3. candidate[t] \in Created /\ todo \subseteq Created
    BY <1>0, <2>1 DEF HoldersInv, HolderInv
  <2>4. todo # {} => \E s \in Sandboxes : todo \subseteq {s} \cup Failed'
    BY <2>2
  <2>5. pending' \subseteq Failed' /\ guest' \in Created'
    BY <1>0, <2>1, <2>3 DEF HoldersInv
  <2> HIDE DEF todo
  <2>6. QED
    BY <1>0, <2>1, <2>2, <2>3, <2>4, <2>5, HoldersCleanup
<1>8. ASSUME NEW t \in Tasks, KillSucceeds(t) \/ KillGivesUp(t) PROVE HoldersInv'
  <2>1. /\ StartCleanup(t, reap[t], after[t]) /\ UNCHANGED <<candidate, guest>>
        /\ pc[t] = "killing"
    BY <1>8 DEF KillSucceeds, KillGivesUp, NextCleanup, requestVars
  <2>2. /\ replace_lock = t /\ reap[t] \in SUBSET Sandboxes /\ after[t] \in Outcomes
        /\ victim[t] \in Sandboxes
    BY <1>0, <2>1 DEF LockIsHeld, Holding, TypeOK, LocalsDefined
  <2>3. /\ reap[t] \subseteq Created \cup Failed
        /\ \E s \in Sandboxes : reap[t] \subseteq {s} \cup Failed
    BY <1>0, <2>1 DEF HoldersInv, HolderInv, HeldBy
  <2>4. pending' \subseteq Failed'
    <3>1. CASE KillSucceeds(t)
      BY <1>0, <3>1 DEF KillSucceeds, HoldersInv
    <3>2. CASE KillGivesUp(t)
      <4>1. victim[t] \in Failed' /\ pending' = pending \cup {victim[t]}
        BY <2>2, <3>2 DEF KillGivesUp, Failed, Logged
      <4>2. QED
        BY <1>0, <4>1 DEF HoldersInv
    <3>3. QED
      BY <1>8, <3>1, <3>2
  <2>5. guest' # NoSandbox => guest' \in Created'
    BY <1>0, <2>1 DEF HoldersInv
  <2>6. QED
    BY <1>0, <2>1, <2>2, <2>3, <2>4, <2>5, HoldersCleanup
<1>9. ASSUME NEW t \in Tasks, KillRetries(t) PROVE HoldersInv'
  <2> USE <1>9 DEF KillRetries, managerVars, requestVars
  <2>1. Cleaned' = Cleaned /\ UNCHANGED <<guest, pending, pc, candidate, victim, reap>>
    BY DEF Cleaned, Logged
  <2>2. \A u \in Tasks : HeldBy(u)' = HeldBy(u)
    BY DEF HeldBy
  <2> HIDE DEF KillRetries
  <2>3. HolderInv(t)'
    BY <1>0, <2>1, <2>2 DEF HoldersInv, HolderInv
  <2>4. QED
    BY <1>0, <2>1, <2>2, <2>3, HoldersQuiet
<1>10. ASSUME NEW r \in Requests, Request(r) \/ Saving(r) PROVE HoldersInv'
  <2> USE <1>10 DEF Request, Saving, RequestReset, RequestSave, RequestStop, CaptureSnapshot,
          RegisterSnapshot, Arrives, managerVars, worldVars, cleanupVars, requestVars
  <2>1. r \in Tasks /\ \A u \in Tasks \ {r} :
          /\ pc'[u] = pc[u] /\ candidate'[u] = candidate[u] /\ victim'[u] = victim[u]
          /\ reap'[u] = reap[u] /\ HeldBy(u)' = HeldBy(u)
    BY DEF TypeOK, HeldBy, Tasks
  <2>2. Cleaned' = Cleaned /\ UNCHANGED <<guest, pending>>
    BY DEF Cleaned, Logged
  <2>3. pc'[r] \notin Holding
    BY <1>0 DEF TypeOK, Holding, Replacing
  <2>4. HolderInv(r)'
    BY <2>3 DEF HolderInv, Holding, Replacing
  <2>5. QED
    BY <1>0, <2>1, <2>2, <2>4, HoldersQuiet
<1>11. ASSUME MainLoop \/ Terminate \/ Kill \/ (\E s \in Sandboxes : Expire(s)) \/ UNCHANGED vars
       PROVE  HoldersInv'
  <2> USE <1>11 DEF MainLoop, BindServers, MainStops, ProcessExits, Terminate, Kill, Expire,
          vars, managerVars, worldVars, cleanupVars, requestVars
  <2>1. Main \in Tasks /\ \A u \in Tasks \ {Main} :
          /\ pc'[u] = pc[u] /\ candidate'[u] = candidate[u] /\ victim'[u] = victim[u]
          /\ reap'[u] = reap[u] /\ HeldBy(u)' = HeldBy(u)
    BY DEF TypeOK, HeldBy, Tasks
  <2>2. /\ Cleaned' = Cleaned /\ UNCHANGED <<guest, pending, candidate, victim, reap>>
        /\ pc' = pc \/ pc'[Main] \in {"serving", "stop_acquire"}
    BY <1>0 DEF Cleaned, Logged, TypeOK
  <2>3. HolderInv(Main)'
    <3>1. CASE pc' = pc
      BY <1>0, <2>1, <2>2 DEF HoldersInv, HolderInv, HeldBy
    <3>2. CASE pc'[Main] \in {"serving", "stop_acquire"}
      BY <3>2 DEF HolderInv
    <3>3. QED
      BY <2>2, <3>1, <3>2
  <2>4. QED
    BY <1>0, <2>1, <2>2, <2>3, HoldersQuiet
<1>12. QED
  BY <1>1, <1>2, <1>3, <1>4, <1>5, <1>6, <1>7, <1>8, <1>9, <1>10, <1>11 DEF Next, Acquire,
     Creating, CleaningUp

(* The tasks' places follow main()'s, and those of the tasks that stop.    *)
LEMMA LifeStep ==
  ASSUME IInv, TypeOK', TasksInv, RecordInv, ~Blind, [Next]_vars
  PROVE  LifeInv'
<1> USE IdentityAssumption
<1> USE DEF At, Goto, Release, Fault, Event
<1>0. /\ LifeInv /\ LockIsHeld /\ TypeOK /\ LocalsDefined /\ HoldersInv
      /\ Main \in Tasks /\ Requests \subseteq Tasks /\ Tasks = Requests \cup {Main}
      /\ Failed \subseteq Failed'
  BY EventsGrow, LogGrows DEF RecordInv, IInv, Failed, Tasks
<1>00. TypeOK
  BY DEF IInv
<1> USE DEF LifeInv, StartInv, ServeInv, StopperInv, ShutInv, Shut, Over, Starting
<1>1. ASSUME NEW t \in Tasks,
             \/ AcquireReplace(t) \/ CloudCreates(t) \/ CreateFails(t) \/ CreateReturns(t)
             \/ LogWriteFails(t)
      PROVE  LifeInv'
  <2>1. /\ UNCHANGED <<guest, stopped, stop_event, after, reap, call, proc>>
        /\ \A u \in Tasks \ {t} : pc'[u] = pc[u]
        /\ proc = "running"
    BY <1>1 DEF AcquireReplace, CloudCreates, CreateFails, CreateReturns, LogWriteFails,
       worldVars, managerVars, cleanupVars, requestVars, TypeOK
  <2>2. Cleaned' = Cleaned
    BY <1>1 DEF AcquireReplace, CloudCreates, CreateFails, CreateReturns, LogWriteFails,
       worldVars, Cleaned, Logged
  <2>3. \/ pc[t] = "acquire" /\ stopped /\ pc'[t] = "failed"
        \/ pc[t] = "acquire" /\ ~stopped /\ pc'[t] = "creating"
        \/ pc[t] \in Replacing /\ pc'[t] \in {"created", "polling", "failed"}
    BY <1>1 DEF AcquireReplace, CloudCreates, CreateFails, CreateReturns, LogWriteFails, TypeOK,
       Replacing, Blind
  <2>4. StartInv'
    BY <1>0, <2>1, <2>2, <2>3 DEF Replacing
  <2>5. ServeInv'
    BY <1>0, <2>1, <2>3 DEF Replacing
  <2>6. StopperInv'
    BY <1>0, <2>1, <2>3 DEF Replacing
  <2>7. ShutInv'
    <3>1. ~Shut' \/ (Shut /\ pc'[t] = "failed")
      BY <1>0, <2>1, <2>3
    <3>3. \A u \in Tasks \ {t} : victim'[u] = victim[u] /\ candidate'[u] = candidate[u]
      BY <1>1 DEF AcquireReplace, CloudCreates, CreateFails, CreateReturns, LogWriteFails,
         cleanupVars, requestVars, TypeOK
    <3>4. pc'[t] = "failed" => \A u \in Tasks : HeldBy(u)' \subseteq HeldBy(u)
      BY <2>1, <3>3 DEF HeldBy
    <3>5. QED
      BY <1>0, <2>1, <3>1, <3>4 DEF Replacing
  <2>8. QED
    BY <2>1, <2>4, <2>5, <2>6, <2>7
<1>2. ASSUME NEW t \in Tasks, AcquireStop(t) PROVE LifeInv'
  <2> DEFINE todo == (pending \cup {guest}) \ {NoSandbox}
             outcome == IF t = Main THEN "closing" ELSE "done"
  <2>1. /\ StartCleanup(t, todo, outcome) /\ UNCHANGED candidate
        /\ outcome \in Outcomes /\ todo \in SUBSET Sandboxes
        /\ replace_lock = NoTask /\ guest' = NoSandbox
        /\ UNCHANGED <<stopped, stop_event, call, proc>>
        /\ pc[t] = "stop_acquire" /\ proc = "running" /\ stopped
    BY <1>0, <1>2 DEF AcquireStop, requestVars, worldVars, Outcomes, TypeOK, TasksInv
  <2>2. /\ pc'[t] = IF todo = {} THEN outcome ELSE "killing"
        /\ todo # {} => after'[t] = outcome
        /\ HeldBy(t)' = todo
        /\ \A u \in Tasks \ {t} :
             pc'[u] = pc[u] /\ after'[u] = after[u] /\ reap'[u] = reap[u] /\ HeldBy(u)' = HeldBy(u)
    BY <1>0, <2>1, CleanupDoes
  <2>3. \A u \in Tasks : pc[u] \notin Holding /\ HeldBy(u) = {}
    BY <1>0, <2>1, OnlyTheHolderHolds DEF LockIsHeld
  <2>4. ~Starting /\ ~Starting'
    BY <1>0, <2>1, <2>2 DEF Replacing
  <2>5. StopperInv'
    BY <1>0, <2>1, <2>2
  <2>6. ShutInv'
    <3>1. stopped' /\ guest' = NoSandbox /\ \A u \in Tasks : pc'[u] \notin Replacing
      BY <2>1, <2>2, <2>3 DEF Holding, Replacing
    <3>2. ASSUME Over' PROVE \A u \in Tasks : HeldBy(u)' \subseteq Failed'
      <4>1. ASSUME todo # {} PROVE Over
        <5>1. pc'[t] = "killing" /\ \A u \in Tasks \ {t} : pc'[u] = pc[u]
          BY <2>2, <4>1
        <5>2. call' = call
          BY <2>1
        <5>3. QED
          BY <1>0, <3>2, <5>1, <5>2
      <4>2. todo \subseteq Failed
        BY <1>0, <4>1 DEF HoldersInv
      <4>3. QED
        BY <1>0, <2>2, <2>3, <4>2
    <3>3. QED
      BY <3>1, <3>2
  <2>7. QED
    BY <2>1, <2>4, <2>5, <2>6
<1>3. ASSUME NEW t \in Tasks,
             CreateReturnsNoToken(t) \/ GuestNotReady(t) \/ (GuestReady(t) /\ stopped)
      PROVE  LifeInv'
  <2>1. /\ StartCleanup(t, {candidate[t]}, "failed") /\ UNCHANGED candidate
        /\ UNCHANGED <<guest, stopped, stop_event, call, proc>>
        /\ pc[t] \in {"created", "polling"} /\ Cleaned' = Cleaned /\ proc = "running"
    BY <1>3 DEF CreateReturnsNoToken, GuestNotReady, GuestReady, requestVars, worldVars, Cleaned,
       Logged
  <2>2. {candidate[t]} \in SUBSET Sandboxes /\ "failed" \in Outcomes
    BY <1>0, <2>1 DEF LocalsDefined, Outcomes
  <2>3. /\ pc'[t] = "killing" /\ after'[t] = "failed" /\ reap'[t] = {}
        /\ \A u \in Tasks \ {t} :
             pc'[u] = pc[u] /\ after'[u] = after[u] /\ reap'[u] = reap[u] /\ HeldBy(u)' = HeldBy(u)
    BY <1>0, <2>1, <2>2, CleanupDoes
  <2>4. StartInv' /\ ServeInv' /\ StopperInv'
    BY <1>0, <2>1, <2>3 DEF Replacing
  <2>5. ~Shut' /\ ~Over'
    BY <1>0, <2>1, <2>3 DEF Replacing
  <2>6. QED
    BY <2>1, <2>4, <2>5
<1>4. ASSUME NEW t \in Tasks, GuestReady(t), ~stopped PROVE LifeInv'
  <2> DEFINE todo == {guest} \ {NoSandbox}
  <2>1. /\ StartCleanup(t, todo, Replaced(t)) /\ UNCHANGED candidate
        /\ UNCHANGED <<stopped, stop_event, call, proc>>
        /\ pc[t] = "polling" /\ guest' = candidate[t] /\ proc = "running"
    BY <1>4 DEF GuestReady, requestVars
  <2>2. /\ Replaced(t) \in Outcomes /\ todo \in SUBSET Sandboxes
        /\ candidate[t] \in Sandboxes
    BY <1>0, <2>1 DEF Outcomes, Replaced, TypeOK, LocalsDefined
  <2>3. /\ pc'[t] = IF todo = {} THEN Replaced(t) ELSE "killing"
        /\ todo # {} => after'[t] = Replaced(t)
        /\ \A u \in Tasks \ {t} :
             pc'[u] = pc[u] /\ after'[u] = after[u] /\ reap'[u] = reap[u]
    <3> HIDE DEF todo
    <3>1. QED
      BY <1>00, <2>1, <2>2, CleanupDoes
  <2>4. t = Main => pc'[t] = "binding"
    BY <1>0, <2>1, <2>3 DEF Replacing, Replaced
  <2>5. StartInv' /\ ServeInv' /\ StopperInv'
    BY <1>0, <2>1, <2>2, <2>3, <2>4 DEF Replacing
  <2>6. ~Shut' /\ ~Over'
    BY <1>0, <2>1, <2>3, <2>4 DEF Replacing
  <2>7. QED
    BY <2>1, <2>5, <2>6
<1>5. ASSUME NEW t \in Tasks, KillSucceeds(t) \/ KillGivesUp(t) PROVE LifeInv'
  <2>1. /\ StartCleanup(t, reap[t], after[t]) /\ UNCHANGED candidate
        /\ UNCHANGED <<guest, stopped, stop_event, call, proc>>
        /\ pc[t] = "killing" /\ proc = "running"
    BY <1>5 DEF KillSucceeds, KillGivesUp, NextCleanup, requestVars
  <2>2. /\ replace_lock = t /\ reap[t] \in SUBSET Sandboxes /\ after[t] \in Outcomes
        /\ reap[t] \subseteq HeldBy(t)
    BY <1>0, <2>1 DEF LockIsHeld, Holding, TypeOK, HeldBy
  <2>3. /\ pc'[t] = IF reap[t] = {} THEN after[t] ELSE "killing"
        /\ reap[t] # {} => after'[t] = after[t]
        /\ HeldBy(t)' = reap[t]
        /\ \A u \in Tasks \ {t} :
             pc'[u] = pc[u] /\ after'[u] = after[u] /\ reap'[u] = reap[u] /\ HeldBy(u)' = HeldBy(u)
    <3> DEFINE todo == reap[t]
               outcome == after[t]
    <3>1. /\ StartCleanup(t, todo, outcome) /\ UNCHANGED candidate
          /\ todo \in SUBSET Sandboxes /\ outcome \in Outcomes
      BY <2>1, <2>2
    <3> HIDE DEF todo, outcome
    <3>2. /\ pc'[t] = IF todo = {} THEN outcome ELSE "killing"
          /\ todo # {} => after'[t] = outcome
          /\ HeldBy(t)' = todo
          /\ \A u \in Tasks \ {t} :
               pc'[u] = pc[u] /\ after'[u] = after[u] /\ reap'[u] = reap[u] /\ HeldBy(u)' = HeldBy(u)
      BY <1>00, <3>1, CleanupDoes
    <3>3. QED
      BY <3>2 DEF todo, outcome
  <2>4. \A u \in Tasks \ {t} : HeldBy(u) = {} /\ pc[u] \notin Holding
    BY <1>0, <2>2, OnlyTheHolderHolds, OthersWait
  <2>5. StartInv'
    <3>1. CASE t = Main
      BY <1>0, <2>1, <2>3 DEF Outcomes, Replacing
    <3>2. CASE t # Main
      BY <1>0, <2>1, <2>3, <3>2 DEF Outcomes
    <3>3. QED
      BY <3>1, <3>2
  <2>6. ServeInv' /\ StopperInv'
    BY <1>0, <2>1, <2>3 DEF Outcomes
  <2>7. Shut' => Shut /\ \A u \in Tasks : pc'[u] \notin Replacing
    BY <1>0, <2>1, <2>2, <2>3 DEF Outcomes, Replacing
  <2>8. Over' => \A u \in Tasks : HeldBy(u)' \subseteq Failed'
    <3>1. CASE Over
      BY <1>0, <2>2, <2>3, <3>1
    <3>2. CASE ~Over
      <4>1. Over' => reap[t] = {}
        BY <1>0, <2>1, <2>3, <3>2
      <4>2. QED
        BY <2>3, <2>4, <4>1
    <3>3. QED
      BY <3>1, <3>2
  <2>9. QED
    BY <1>0, <2>1, <2>5, <2>6, <2>7, <2>8
<1>6. ASSUME NEW t \in Tasks, KillRetries(t) PROVE LifeInv'
  <2>1. /\ UNCHANGED <<guest, stopped, stop_event, call, proc, pc, after, reap, candidate, victim>>
        /\ Cleaned' = Cleaned
    BY <1>6 DEF KillRetries, managerVars, requestVars, Cleaned, Logged
  <2>2. \A u \in Tasks : HeldBy(u)' = HeldBy(u)
    BY <2>1 DEF HeldBy
  <2>3. QED
    BY <1>0, <2>1, <2>2
<1>7. ASSUME NEW r \in Requests, Request(r) \/ Saving(r) PROVE LifeInv'
  <2> DEFINE arrives == pc[r] = "idle" /\ ControlUp
  <2>1. /\ UNCHANGED <<guest, after, reap, proc>> /\ Cleaned' = Cleaned
        /\ \A u \in Tasks \ {r} : pc'[u] = pc[u] /\ call'[u] = call[u]
        /\ \A u \in Tasks \ {r} : victim'[u] = victim[u] /\ candidate'[u] = candidate[u]
        /\ proc = "running" /\ r \in Tasks /\ r # Main
    BY <1>0, <1>7 DEF Request, Saving, RequestReset, RequestSave, RequestStop, CaptureSnapshot,
       RegisterSnapshot, Arrives, managerVars, worldVars, cleanupVars, requestVars, TypeOK,
       Cleaned, Logged
  <2>2. \/ /\ arrives /\ call'[r] # "stop" /\ pc'[r] \in {"acquire", "snapshotting", "failed"}
           /\ UNCHANGED <<stopped, stop_event>>
        \/ /\ arrives /\ call'[r] = "stop" /\ pc'[r] = "stop_acquire" /\ stopped'
        \/ /\ pc[r] \in {"snapshotting", "captured"} /\ pc'[r] \in {"captured", "failed", "done"}
           /\ UNCHANGED <<stopped, stop_event, call>>
    BY <1>0, <1>7 DEF Request, Saving, RequestReset, RequestSave, RequestStop, CaptureSnapshot,
       RegisterSnapshot, Arrives, managerVars, worldVars, requestVars, TypeOK
  <2>3. ~Starting /\ ~Starting'
    BY <1>0, <2>1, <2>2 DEF ControlUp, Installed, Replacing
  <2>4. ServeInv' /\ StopperInv'
    BY <1>0, <2>1, <2>2
  <2>5. HeldBy(r)' = {} /\ \A u \in Tasks \ {r} : HeldBy(u)' = HeldBy(u)
    BY <2>1, <2>2 DEF HeldBy
  <2>6. (Shut' => Shut) /\ (Over' => Over) /\ (stopped => stopped') /\ pc'[r] \notin Replacing
    BY <1>0, <2>1, <2>2 DEF Replacing
  <2>7. ShutInv'
    BY <1>0, <2>1, <2>5, <2>6
  <2>8. QED
    BY <2>1, <2>3, <2>4, <2>7
<1>8. ASSUME MainLoop \/ Terminate \/ Kill \/ (\E s \in Sandboxes : Expire(s)) \/ UNCHANGED vars
      PROVE  LifeInv'
  <2>1. /\ UNCHANGED <<guest, after, reap, call, victim, candidate>> /\ Cleaned' = Cleaned
        /\ \A u \in Requests : pc'[u] = pc[u]
    BY <1>0, <1>8 DEF MainLoop, BindServers, MainStops, ProcessExits, Terminate, Kill, Expire,
       vars, managerVars, worldVars, cleanupVars, requestVars, TypeOK, Cleaned, Logged
  <2>2. \/ /\ pc[Main] \in {"binding", "serving"} /\ proc' = proc /\ proc = "running"
           /\ stop_event' = stop_event
           /\ \/ pc'[Main] = "serving" /\ stopped' = stopped
              \/ pc'[Main] = "stop_acquire" /\ stopped'
        \/ /\ pc' = pc /\ stopped' = stopped
           /\ stop_event' = stop_event \/ Installed
           /\ proc' = "exited" => proc = "exited" \/ pc[Main] \in {"closing", "failed"}
    BY <1>0, <1>8 DEF MainLoop, BindServers, MainStops, ProcessExits, Terminate, Kill, Expire,
       vars, managerVars, worldVars, TypeOK
  <2>3. Starting' => Starting /\ ~stopped' /\ ~stop_event' /\ pc' = pc
    <3>1. CASE pc' = pc /\ stopped' = stopped
      BY <1>0, <2>1, <2>2 DEF Installed, Replacing
    <3>2. CASE pc'[Main] \in {"serving", "stop_acquire"}
      BY <3>2 DEF Replacing
    <3>3. QED
      BY <2>2, <3>1, <3>2
  <2>4. StartInv' /\ ServeInv' /\ StopperInv'
    BY <1>0, <2>1, <2>2, <2>3
  <2>5. (Shut' => Shut) /\ (Over' => Over) /\ (stopped => stopped')
    BY <2>1, <2>2
  <2>6. \A u \in Tasks : pc'[u] \in Replacing => pc[u] \in Replacing
    BY <1>0, <2>1, <2>2 DEF Replacing
  <2>7. \A u \in Tasks : HeldBy(u)' = HeldBy(u)
    BY <1>0, <2>1, <2>2 DEF HeldBy
  <2>8. ShutInv'
    BY <1>0, <2>1, <2>5, <2>6, <2>7
  <2>9. proc' = "exited" => pc'[Main] \in {"closing", "failed"}
    BY <1>0, <2>2
  <2>10. QED
    BY <2>4, <2>8, <2>9
<1>9. QED
  BY <1>1, <1>2, <1>3, <1>4, <1>5, <1>6, <1>7, <1>8 DEF Next, Acquire, Creating, CleaningUp

-----------------------------------------------------------------------------
(* What the record says, as results.                                       *)

(* Without the faults that blind the relay, RecordInv holds in every       *)
(* reachable state.                                                        *)
THEOREM RecordInvariance == Spec => [](~Blind => RecordInv)
<1>1. Init => (~Blind => RecordInv)
  BY RecordInit
<1>2. IInv => LocalsDefined /\ TypeOK
  BY DEF IInv
<1>3. GuestsInv => TasksInv
  BY DEF GuestsInv
<1>5. ASSUME IInv, TypeOK', LocalsDefined', TasksInv, ~Blind => RecordInv, [Next]_vars
      PROVE  (~Blind => RecordInv)'
  BY <1>5, HoldersStep, LifeStep DEF RecordInv
<1>6. QED
  BY Invariance, GuestsInvariance, <1>1, <1>2, <1>3, <1>5, PTL DEF Spec

(* A log from which the campaign concludes "success" leaves no sandbox:    *)
(* what the relay still answers for is on record as created or as failed,  *)
(* and is not on record as cleaned.                                        *)
THEOREM SuccessLeavesNothing == Spec => []SuccessMeansNoSandbox
<1>1. ASSUME IInv, RecordInv, ~Blind, CleanupStatus = "success"
      PROVE  Live = {}
  <2>1. Failed = {} /\ Cleaned # {} /\ Created \subseteq Cleaned
    BY <1>1 DEF CleanupStatus, Failed, Cleaned, Created
  <2>2. /\ guest # NoSandbox => guest \notin Cleaned
        /\ \A t \in Tasks : HeldBy(t) \cap Cleaned = {}
    BY <1>1 DEF IInv, OwnedAreNotCleaned, Cleaned
  <2>3. guest = NoSandbox /\ pending = {}
    BY <1>1, <2>1, <2>2 DEF RecordInv, HoldersInv
  <2>4. ASSUME NEW t \in Tasks PROVE HeldBy(t) = {}
    <3>1. HolderInv(t)
      BY <1>1 DEF RecordInv, HoldersInv
    <3>2. CASE pc[t] \in {"created", "polling"}
      BY <2>1, <2>2, <2>3, <3>1 DEF HolderInv, HeldBy
    <3>3. CASE pc[t] = "killing"
      BY <2>1, <2>2, <2>3, <3>1 DEF HolderInv, HeldBy
    <3>4. QED
      BY <3>2, <3>3 DEF HeldBy
  <2>5. QED
    BY <1>1, <2>3, <2>4, IdentityAssumption DEF IInv, EverySandboxIsOwned, Live
<1>2. IInv /\ (~Blind => RecordInv) => SuccessMeansNoSandbox
  BY <1>1 DEF SuccessMeansNoSandbox
<1>3. QED
  BY Invariance, RecordInvariance, <1>2, PTL

(* When /stop is answered, or the relay ends in order, every sandbox it    *)
(* made is gone or its failed cleanup is on record.                        *)
THEOREM StopAccountsForAll == Spec => []StopAccounts
<1>1. ASSUME IInv, RecordInv, ~Blind,
             \/ proc = "exited"
             \/ \E r \in Requests : call[r] = "stop" /\ pc[r] = "done"
      PROVE  Accounted
  <2>1. pending \subseteq Failed /\ LifeInv
    BY <1>1 DEF RecordInv, HoldersInv
  <2>2. CASE Over
    <3>1. guest = NoSandbox /\ \A t \in Tasks : HeldBy(t) \subseteq Failed
      BY <2>1, <2>2 DEF LifeInv, ShutInv, Over, Shut
    <3>2. QED
      BY <1>1, <2>1, <3>1, IdentityAssumption DEF IInv, EverySandboxIsOwned, Accounted, Live,
         Failed
  <2>3. CASE pc[Main] = "failed"
    <3>1. guest = NoSandbox /\ \A r \in Requests : pc[r] = "idle"
      BY <2>1, <2>3 DEF LifeInv, StartInv, Starting
    <3>2. \A t \in Tasks : HeldBy(t) = {}
      BY <2>3, <3>1 DEF HeldBy, Tasks
    <3>3. QED
      BY <1>1, <2>1, <3>1, <3>2, IdentityAssumption DEF IInv, EverySandboxIsOwned, Accounted,
         Live, Failed
  <2>4. QED
    BY <1>1, <2>1, <2>2, <2>3 DEF LifeInv, Over
<1>2. IInv /\ (~Blind => RecordInv) => StopAccounts
  BY <1>1 DEF StopAccounts
<1>3. QED
  BY Invariance, RecordInvariance, <1>2, PTL

(* A third sandbox exists only when its failed cleanup is on record: the   *)
(* others are the guest and one that the lock's holder works on.           *)
THEOREM NeverAThirdSandbox == Spec => []AtMostTwoSandboxes
<1>1. ASSUME IInv, RecordInv, ~Blind
      PROVE  Cardinality(Live \ Failed) <= 2
  <2>1. \E s : \A t \in Tasks : HeldBy(t) \subseteq {s} \cup Failed
    <3>1. CASE replace_lock \notin Tasks
      BY <1>1, <3>1, OnlyTheHolderHolds DEF IInv
    <3>2. CASE replace_lock \in Tasks
      <4>1. \A t \in Tasks \ {replace_lock} : HeldBy(t) = {}
        BY <1>1, OnlyTheHolderHolds DEF IInv
      <4>2. HolderInv(replace_lock)
        BY <1>1, <3>2 DEF RecordInv, HoldersInv
      <4>3. \E s : HeldBy(replace_lock) \subseteq {s} \cup Failed
        BY <4>2 DEF HolderInv, HeldBy
      <4>4. QED
        BY <4>1, <4>3
    <3>3. QED
      BY <3>1, <3>2
  <2>2. PICK s : \A t \in Tasks : HeldBy(t) \subseteq {s} \cup Failed
    BY <2>1
  <2>3. Live \ Failed \in SUBSET ({guest} \cup {s})
    BY <1>1, <2>2 DEF IInv, EverySandboxIsOwned, RecordInv, HoldersInv
  <2>4. IsFiniteSet({guest}) /\ Cardinality({guest}) = 1
    BY FS_Singleton
  <2>5. /\ IsFiniteSet({guest} \cup {s})
        /\ \/ Cardinality({guest} \cup {s}) = 1
           \/ Cardinality({guest} \cup {s}) = 2
    BY <2>4, FS_AddElement
  <2>6. /\ IsFiniteSet(Live \ Failed)
        /\ Cardinality(Live \ Failed) <= Cardinality({guest} \cup {s})
    BY <2>3, <2>5, FS_Subset
  <2>7. Cardinality(Live \ Failed) \in Nat
    BY <2>6, FS_CardinalityType
  <2>8. QED
    BY <2>5, <2>6, <2>7
<1>2. IInv /\ (~Blind => RecordInv) => AtMostTwoSandboxes
  BY <1>1 DEF AtMostTwoSandboxes, Failed
<1>3. QED
  BY Invariance, RecordInvariance, <1>2, PTL

-----------------------------------------------------------------------------
(* The relay implements SandboxLease.                                      *)

(* The mapped variables, as operators of this module.                      *)
Asked  == Underway({"creating"})
Making == IF Underway({"created", "polling"}) THEN candidate[replace_lock]
          ELSE NoSandbox
Doomed == pending \cup IF Underway({"killing"}) THEN HeldBy(replace_lock) ELSE {}

(* What t, the only task that may hold the lock, shows of the lease.       *)
LEMMA LeaseOfHolder ==
  ASSUME LockIsHeld, LockIsHeld', NEW t \in Tasks,
         replace_lock \in {t, NoTask}, replace_lock' \in {t, NoTask}
  PROVE  /\ Asked = (pc[t] = "creating")
         /\ Making = IF pc[t] \in {"created", "polling"} THEN candidate[t] ELSE NoSandbox
         /\ Doomed = pending \cup IF pc[t] = "killing" THEN HeldBy(t) ELSE {}
         /\ Asked' = (pc'[t] = "creating")
         /\ Making' = IF pc'[t] \in {"created", "polling"} THEN candidate'[t] ELSE NoSandbox
         /\ Doomed' = pending' \cup IF pc'[t] = "killing" THEN HeldBy(t)' ELSE {}
<1>1. /\ NoTask # t
      /\ replace_lock = t <=> pc[t] \in Holding
      /\ replace_lock' = t <=> pc'[t] \in Holding
  BY IdentityAssumption DEF LockIsHeld, Tasks
<1>2. /\ Asked = (pc[t] = "creating")
      /\ Making = IF pc[t] \in {"created", "polling"} THEN candidate[t] ELSE NoSandbox
      /\ Doomed = pending \cup IF pc[t] = "killing" THEN HeldBy(t) ELSE {}
  BY <1>1 DEF Asked, Making, Doomed, Underway, Holding, Replacing
<1>3. /\ Asked' = (pc'[t] = "creating")
      /\ Making' = IF pc'[t] \in {"created", "polling"} THEN candidate'[t] ELSE NoSandbox
      /\ Doomed' = pending' \cup IF pc'[t] = "killing" THEN HeldBy(t)' ELSE {}
  BY <1>1 DEF Asked, Making, Doomed, Underway, Holding, Replacing
<1>4. QED
  BY <1>2, <1>3

(* The lock's holder does nothing that shows.                              *)
LEMMA LeaseStays ==
  ASSUME UNCHANGED <<guest, stopped, pending, replace_lock>>, Cleaned' = Cleaned,
         replace_lock # NoTask =>
           /\ pc'[replace_lock] = pc[replace_lock]
           /\ candidate'[replace_lock] = candidate[replace_lock]
           /\ HeldBy(replace_lock)' = HeldBy(replace_lock)
  PROVE  UNCHANGED Lease!vars
<1>1. Asked' = Asked /\ Making' = Making /\ Doomed' = Doomed
  BY DEF Asked, Making, Doomed, Underway
<1>2. QED
  BY <1>1 DEF Lease!vars, Asked, Making, Doomed, Cleaned

(* A step of t, the only task that may hold the lock, as a step of the     *)
(* lease.                                                                  *)
LEMMA LeaseStep ==
  ASSUME IInv, LockIsHeld', TypeOK', TasksInv, ~Blind, NEW t \in Tasks,
         Acquire(t) \/ Creating(t) \/ CleaningUp(t) \/ LogWriteFails(t)
  PROVE  [Lease!Next]_(Lease!vars)
<1> USE IdentityAssumption
<1> USE DEF At, Goto, Release, Fault, Event
<1>1. /\ LockIsHeld /\ TypeOK /\ LocalsDefined /\ OwnedAreNotCleaned
  BY DEF IInv
<1>2. replace_lock \in {t, NoTask} /\ replace_lock' \in {t, NoTask}
  BY <1>1 DEF LockIsHeld, Holding, Replacing, Acquire, Creating, CleaningUp, LogWriteFails,
     AcquireReplace, AcquireStop, CloudCreates, CreateFails, CreateReturnsNoToken, CreateReturns,
     GuestReady, GuestNotReady, KillSucceeds, KillRetries, KillGivesUp, NextCleanup, StartCleanup,
     managerVars
<1>3. /\ Asked = (pc[t] = "creating")
      /\ Making = IF pc[t] \in {"created", "polling"} THEN candidate[t] ELSE NoSandbox
      /\ Doomed = pending \cup IF pc[t] = "killing" THEN HeldBy(t) ELSE {}
      /\ Asked' = (pc'[t] = "creating")
      /\ Making' = IF pc'[t] \in {"created", "polling"} THEN candidate'[t] ELSE NoSandbox
      /\ Doomed' = pending' \cup IF pc'[t] = "killing" THEN HeldBy(t)' ELSE {}
  BY <1>1, <1>2, LeaseOfHolder
<1>4. pc[t] \in {"created", "polling"} => candidate[t] \in Sandboxes
  BY <1>1 DEF LocalsDefined
<1>5. CASE AcquireReplace(t)
  <2>1. /\ pc[t] = "acquire" /\ replace_lock = NoTask
        /\ UNCHANGED <<guest, pending, stopped>> /\ Cleaned' = Cleaned
        /\ \/ stopped /\ pc'[t] = "failed"
           \/ ~stopped /\ pc'[t] = "creating"
    BY <1>5 DEF AcquireReplace, worldVars, TypeOK, Cleaned, Logged
  <2>2. CASE pc'[t] = "failed"
    BY <1>3, <2>1, <2>2 DEF Lease!vars, Asked, Making, Doomed, Cleaned
  <2>3. CASE pc'[t] = "creating"
    <3>1. Lease!Ask
      BY <1>3, <2>1, <2>3 DEF Lease!Ask, Asked, Making, Doomed, Cleaned
    <3>2. QED
      BY <3>1 DEF Lease!Next
  <2>4. QED
    BY <2>1, <2>2, <2>3
<1>6. CASE CloudCreates(t)
  <2>1. PICK s \in Sandboxes : cloud[s] = "unused" /\ candidate' = [candidate EXCEPT ![t] = s]
    BY <1>6 DEF CloudCreates
  <2>2. /\ pc[t] = "creating" /\ pc'[t] = "created" /\ candidate'[t] = s
        /\ UNCHANGED <<guest, pending, stopped>> /\ Cleaned' = Cleaned
    BY <1>6, <2>1 DEF CloudCreates, managerVars, TypeOK, Cleaned, Logged
  <2>3. s \notin {guest} \cup pending \cup Cleaned
    BY <1>1, <2>1 DEF OwnedAreNotCleaned, Cleaned
  <2>4. Lease!Deliver(s)
    BY <1>3, <2>2, <2>3 DEF Lease!Deliver, Lease!Known, Asked, Making, Doomed, Cleaned
  <2>5. QED
    BY <2>4 DEF Lease!Next
<1>7. CASE CreateFails(t) \/ LogWriteFails(t)
  <2>1. /\ pc[t] = "creating" /\ pc'[t] = "failed"
        /\ UNCHANGED <<guest, pending, stopped>> /\ Cleaned' = Cleaned
    BY <1>7 DEF CreateFails, LogWriteFails, worldVars, TypeOK, Cleaned, Logged, Blind
  <2>2. Lease!Refuse
    BY <1>3, <2>1 DEF Lease!Refuse, Asked, Making, Doomed, Cleaned
  <2>3. QED
    BY <2>2 DEF Lease!Next
<1>8. CASE CreateReturns(t)
  <2>1. /\ pc[t] = "created" /\ pc'[t] = "polling"
        /\ UNCHANGED <<guest, pending, stopped, candidate>> /\ Cleaned' = Cleaned
    BY <1>8 DEF CreateReturns, managerVars, requestVars, TypeOK, Cleaned, Logged
  <2>2. QED
    BY <1>3, <2>1 DEF Lease!vars, Asked, Making, Doomed, Cleaned
<1>9. CASE CreateReturnsNoToken(t) \/ GuestNotReady(t) \/ (GuestReady(t) /\ stopped)
  <2>1. /\ StartCleanup(t, {candidate[t]}, "failed")
        /\ UNCHANGED <<guest, pending, stopped, candidate>> /\ Cleaned' = Cleaned
        /\ pc[t] \in {"created", "polling"}
    BY <1>9 DEF CreateReturnsNoToken, GuestNotReady, GuestReady, requestVars, worldVars, Cleaned,
       Logged
  <2>2. pc'[t] = "killing" /\ HeldBy(t)' = {candidate[t]}
    BY <1>1, <1>4, <2>1, CleanupDoes DEF Outcomes
  <2>3. Lease!Discard
    BY <1>3, <1>4, <2>1, <2>2 DEF Lease!Discard, Asked, Making, Doomed, Cleaned
  <2>4. QED
    BY <2>3 DEF Lease!Next
<1>10. CASE GuestReady(t) /\ ~stopped
  <2> DEFINE todo == {guest} \ {NoSandbox}
  <2>1. /\ StartCleanup(t, todo, Replaced(t)) /\ guest' = candidate[t]
        /\ UNCHANGED <<pending, stopped, candidate>> /\ Cleaned' = Cleaned
        /\ pc[t] = "polling" /\ todo \in SUBSET Sandboxes /\ Replaced(t) \in {"binding", "done"}
    BY <1>1, <1>10 DEF GuestReady, requestVars, Cleaned, Logged, TypeOK, Replaced
  <2>2. /\ pc'[t] = IF todo = {} THEN Replaced(t) ELSE "killing"
        /\ HeldBy(t)' = todo
    <3> HIDE DEF todo
    <3>1. QED
      BY <1>1, <2>1, CleanupDoes DEF Outcomes
  <2>3. /\ pc'[t] \in {"killing", "binding", "done"}
        /\ Doomed' = pending \cup todo
    BY <1>3, <2>1, <2>2
  <2>4. Lease!Serve
    <3>1. /\ Doomed' = Doomed \cup ({guest} \ {NoSandbox})
          /\ Asked' = Asked /\ Making' = NoSandbox
          /\ Making # NoSandbox /\ guest' = Making
      BY <1>3, <1>4, <2>1, <2>3
    <3>2. QED
      BY <1>10, <2>1, <3>1 DEF Lease!Serve, Asked, Making, Doomed, Cleaned
  <2>5. QED
    BY <2>4 DEF Lease!Next
<1>11. CASE AcquireStop(t)
  <2> DEFINE todo == (pending \cup {guest}) \ {NoSandbox}
             outcome == IF t = Main THEN "closing" ELSE "done"
  <2>1. /\ StartCleanup(t, todo, outcome) /\ UNCHANGED <<candidate, stopped>>
        /\ outcome \in {"closing", "done"} /\ todo \in SUBSET Sandboxes
        /\ guest' = NoSandbox /\ pending' = {} /\ Cleaned' = Cleaned
        /\ pc[t] = "stop_acquire" /\ stopped
    BY <1>1, <1>11 DEF AcquireStop, requestVars, worldVars, TypeOK, TasksInv, Cleaned, Logged
  <2>2. /\ pc'[t] = IF todo = {} THEN outcome ELSE "killing"
        /\ HeldBy(t)' = todo
    <3> HIDE DEF todo, outcome
    <3>1. QED
      BY <1>1, <2>1, CleanupDoes DEF Outcomes
  <2>3. /\ pc'[t] \in {"killing", "closing", "done"}
        /\ Doomed' = pending \cup ({guest} \ {NoSandbox})
    BY <1>1, <1>3, <2>1, <2>2 DEF TypeOK
  <2>4. CASE guest = NoSandbox
    BY <1>3, <2>1, <2>3, <2>4 DEF Lease!vars, Asked, Making, Doomed, Cleaned
  <2>5. CASE guest # NoSandbox
    <3>1. Lease!Retire
      BY <1>3, <2>1, <2>3, <2>5 DEF Lease!Retire, Asked, Making, Doomed, Cleaned
    <3>2. QED
      BY <3>1 DEF Lease!Next
  <2>6. QED
    BY <2>4, <2>5
<1>12. CASE KillSucceeds(t) \/ KillGivesUp(t)
  <2> DEFINE todo == reap[t]
             outcome == after[t]
  <2>1. /\ StartCleanup(t, todo, outcome) /\ UNCHANGED <<guest, stopped, candidate>>
        /\ todo \in SUBSET Sandboxes /\ outcome \in Outcomes
        /\ pc[t] = "killing" /\ HeldBy(t) = {victim[t]} \cup todo
        /\ victim[t] \in Sandboxes \ todo /\ victim[t] \notin pending
    BY <1>12 DEF KillSucceeds, KillGivesUp, NextCleanup, requestVars, TypeOK, LocalsDefined,
       HeldBy, IInv, OwnersAreApart
  <2>2. /\ pc'[t] = IF todo = {} THEN outcome ELSE "killing"
        /\ HeldBy(t)' = todo
    <3> HIDE DEF todo, outcome
    <3>1. QED
      BY <1>1, <2>1, CleanupDoes
  <2>3. /\ pc'[t] \in {"killing"} \cup Outcomes
        /\ Doomed = pending \cup {victim[t]} \cup todo /\ Doomed' = pending' \cup todo
        /\ Asked = FALSE /\ Asked' = FALSE /\ Making = NoSandbox /\ Making' = NoSandbox
    BY <1>3, <2>1, <2>2 DEF Outcomes
  <2>4. CASE KillSucceeds(t)
    <3>1. pending' = pending \ {victim[t]} /\ Cleaned' = Cleaned \cup {victim[t]}
      BY <2>1, <2>4 DEF KillSucceeds, Cleaned, Logged
    <3>2. Lease!Reclaim(victim[t])
      <4>1. /\ victim[t] \in Doomed /\ Doomed' = Doomed \ {victim[t]}
            /\ Asked' = Asked /\ Making' = Making
        BY <2>1, <2>3, <3>1
      <4>2. QED
        BY <2>1, <3>1, <4>1 DEF Lease!Reclaim, Asked, Making, Doomed, Cleaned
    <3>3. QED
      BY <2>1, <3>2 DEF Lease!Next
  <2>5. CASE KillGivesUp(t)
    <3>1. pending' = pending \cup {victim[t]} /\ Cleaned' = Cleaned
      BY <2>5 DEF KillGivesUp, Cleaned, Logged
    <3>3. QED
      BY <2>1, <2>3, <3>1 DEF Lease!vars, Asked, Making, Doomed, Cleaned
  <2>6. QED
    BY <1>12, <2>4, <2>5
<1>13. CASE KillRetries(t)
  <2>1. /\ UNCHANGED <<guest, stopped, pending, replace_lock, pc, candidate, victim, reap>>
        /\ Cleaned' = Cleaned
    BY <1>13 DEF KillRetries, managerVars, requestVars, Cleaned, Logged
  <2>2. QED
    BY <2>1, LeaseStays DEF HeldBy
<1>14. QED
  BY <1>5, <1>6, <1>7, <1>8, <1>9, <1>10, <1>11, <1>12, <1>13 DEF Acquire, Creating, CleaningUp

(* A step of a handler that does not have the lock, of main() or of the    *)
(* world, as a step of the lease.                                          *)
LEMMA LeaseElsewhere ==
  ASSUME IInv, LockIsHeld', TypeOK',
         \/ \E r \in Requests : Request(r) \/ Saving(r)
         \/ MainLoop \/ Terminate \/ Kill
         \/ \E s \in Sandboxes : Expire(s)
         \/ UNCHANGED vars
  PROVE  [Lease!Next]_(Lease!vars)
<1> USE IdentityAssumption
<1> USE DEF At, Goto, Event
<1>1. LockIsHeld /\ TypeOK
  BY DEF IInv
<1> DEFINE Apart ==
      /\ UNCHANGED <<guest, pending, replace_lock>> /\ Cleaned' = Cleaned
      /\ stopped' = stopped \/ stopped'
      /\ \A u \in Tasks : pc[u] \in Holding =>
           pc'[u] = pc[u] /\ candidate'[u] = candidate[u] /\ HeldBy(u)' = HeldBy(u)
<1>2. Apart
  <2>1. ASSUME NEW r \in Requests, Request(r) \/ Saving(r) PROVE Apart
    <3>1. /\ UNCHANGED <<guest, pending, replace_lock, victim, reap>> /\ Cleaned' = Cleaned
          /\ stopped' = stopped \/ stopped'
          /\ pc[r] \notin Holding
          /\ \A u \in Tasks \ {r} : pc'[u] = pc[u] /\ candidate'[u] = candidate[u]
      BY <2>1 DEF Request, Saving, RequestReset, RequestSave, RequestStop, CaptureSnapshot,
         RegisterSnapshot, Arrives, managerVars, worldVars, cleanupVars, requestVars, TypeOK,
         Cleaned, Logged, Holding, Replacing
    <3>2. QED
      BY <3>1 DEF HeldBy
  <2>2. CASE \/ MainLoop \/ Terminate \/ Kill
             \/ \E s \in Sandboxes : Expire(s)
             \/ UNCHANGED vars
    <3>1. /\ UNCHANGED <<guest, pending, replace_lock, victim, reap, candidate>>
          /\ Cleaned' = Cleaned
          /\ stopped' = stopped \/ stopped'
          /\ \A u \in Tasks : pc'[u] = pc[u] \/ pc[u] \notin Holding
      BY <2>2 DEF MainLoop, BindServers, MainStops, ProcessExits, Terminate, Kill, Expire, vars,
         managerVars, worldVars, cleanupVars, requestVars, TypeOK, Cleaned, Logged, Holding,
         Replacing
    <3>2. QED
      BY <3>1 DEF HeldBy
  <2>3. QED
    BY <2>1, <2>2
<1>3. Asked' = Asked /\ Making' = Making /\ Doomed' = Doomed
  <2>1. replace_lock # NoTask => replace_lock \in Tasks /\ pc[replace_lock] \in Holding
    BY <1>1 DEF LockIsHeld, TypeOK
  <2>2. QED
    BY <1>2, <2>1 DEF Asked, Making, Doomed, Underway
<1>4. CASE stopped' = stopped
  BY <1>2, <1>3, <1>4 DEF Lease!vars, Asked, Making, Doomed, Cleaned
<1>5. CASE stopped'
  <2>1. stopped' = TRUE
    BY <1>5
  <2>2. Lease!Close
    BY <1>2, <1>3, <2>1 DEF Lease!Close, Asked, Making, Doomed, Cleaned
  <2>3. QED
    BY <2>2 DEF Lease!Next
<1>6. QED
  BY <1>2, <1>4, <1>5

(* relay.py 93-250: for every number of requests, sandboxes and attempts,  *)
(* the locks, tasks, retries and checks of the relay amount to             *)
(* SandboxLease, unless a fault makes the relay lose sight of a sandbox.   *)
THEOREM RefinesLease ==
  ASSUME ~Blind
  PROVE  Spec => ImplementsLease
<1>1. Init => Lease!Init
  BY DEF Init, Lease!Init, Underway, Logged
<1>2. ASSUME IInv, LockIsHeld', TypeOK', TasksInv, [Next]_vars
      PROVE  [Lease!Next]_(Lease!vars)
  BY <1>2, LeaseStep, LeaseElsewhere DEF Next
<1>3. IInv => LockIsHeld /\ TypeOK
  BY DEF IInv
<1>4. GuestsInv => TasksInv
  BY DEF GuestsInv
<1>5. QED
  BY Invariance, GuestsInvariance, <1>1, <1>2, <1>3, <1>4, PTL DEF Spec, ImplementsLease,
     Lease!Spec
=============================================================================
