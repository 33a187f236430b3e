------------------------- MODULE GuestManagerProofs -------------------------
(***************************************************************************)
(* Proofs about GuestManager, for every set of sandboxes and requests,     *)
(* every number of kill attempts and every combination of faults.          *)
(***************************************************************************)
EXTENDS GuestManager, TLAPS

(* What StartCleanup does: afterwards the task answers for exactly the     *)
(* sandboxes of todo, and holds the lock if there are any.                 *)
LEMMA CleanupStarts ==
  ASSUME NEW t \in Tasks, NEW todo \in SUBSET Sandboxes,
         NEW outcome \in Outcomes, TypeOK, StartCleanup(t, todo, outcome),
         UNCHANGED candidate
  PROVE  /\ pc' \in [Tasks -> PCs]
         /\ pc' = [pc EXCEPT ![t] = IF todo = {} THEN outcome ELSE "killing"]
         /\ replace_lock' \in Tasks \cup {NoTask}
         /\ replace_lock' = IF todo = {} THEN NoTask ELSE t
         /\ victim' \in [Tasks -> Sandboxes \cup {NoSandbox}]
         /\ attempt' \in [Tasks -> 1 .. KILL_ATTEMPTS]
         /\ reap' \in [Tasks -> SUBSET Sandboxes]
         /\ after' \in [Tasks -> Outcomes]
         /\ todo # {} => victim'[t] \in Sandboxes \ reap'[t]
         /\ HeldBy(t)' = todo
         /\ \A u \in Tasks \ {t} : /\ HeldBy(u)' = HeldBy(u)
                                   /\ victim'[u] = victim[u]
                                   /\ reap'[u] = reap[u]
<1> USE KillAttemptsAssumption DEF StartCleanup, TypeOK, cleanupVars, Release, Goto,
            Outcomes, HeldBy, PCs, Holding, Replacing
<1>3. QED
  OBVIOUS

(* A step keeps every variable's type.                                     *)
LEMMA Typing ==
  ASSUME TypeOK, LocalsDefined, [Next]_vars
  PROVE  TypeOK'
<1> USE KillAttemptsAssumption
<1> USE DEF At, Goto, Release, Fault, Event, LocalsDefined
<1>1. ASSUME NEW t \in Tasks, AcquireReplace(t) PROVE TypeOK'
  BY <1>1 DEF TypeOK, PCs, Holding, Replacing, Outcomes, AcquireReplace, NextGeneration,
     worldVars, cleanupVars
<1>2. ASSUME NEW t \in Tasks, AcquireStop(t) PROVE TypeOK'
  BY <1>2 DEF TypeOK, PCs, Holding, Outcomes, AcquireStop, StartCleanup, worldVars, cleanupVars,
     requestVars
<1>3. ASSUME NEW t \in Tasks, CloudCreates(t) PROVE TypeOK'
  BY <1>3 DEF TypeOK, PCs, Holding, Replacing, CloudCreates, managerVars, cleanupVars
<1>4. ASSUME NEW t \in Tasks, CreateFails(t) PROVE TypeOK'
  BY <1>4 DEF TypeOK, PCs, Outcomes, CreateFails, worldVars, cleanupVars, requestVars
<1>5. ASSUME NEW t \in Tasks, CreateReturnsNoToken(t) PROVE TypeOK'
  BY <1>5 DEF TypeOK, PCs, Holding, Outcomes, CreateReturnsNoToken, StartCleanup, worldVars,
     requestVars
<1>6. ASSUME NEW t \in Tasks, CreateReturns(t) PROVE TypeOK'
  BY <1>6 DEF TypeOK, PCs, Holding, Replacing, EventKinds, CreateReturns, managerVars,
     cleanupVars, requestVars
<1>7. ASSUME NEW t \in Tasks, GuestReady(t) PROVE TypeOK'
  BY <1>7 DEF TypeOK, PCs, Holding, Outcomes, EventKinds, GuestReady, StartCleanup, Replaced,
     cleanupVars, requestVars
<1>8. ASSUME NEW t \in Tasks, GuestNotReady(t) PROVE TypeOK'
  BY <1>8 DEF TypeOK, PCs, Holding, Outcomes, GuestNotReady, StartCleanup, worldVars, requestVars
<1>9. ASSUME NEW t \in Tasks, KillSucceeds(t) PROVE TypeOK'
  <2>1. /\ StartCleanup(t, reap[t], after[t])
        /\ UNCHANGED candidate
    BY <1>9 DEF KillSucceeds, NextCleanup, requestVars
  <2>2. reap[t] \in SUBSET Sandboxes /\ after[t] \in Outcomes
    BY DEF TypeOK
  <2>3. /\ pc' \in [Tasks -> PCs]
        /\ replace_lock' \in Tasks \cup {NoTask}
        /\ victim' \in [Tasks -> Sandboxes \cup {NoSandbox}]
        /\ attempt' \in [Tasks -> 1 .. KILL_ATTEMPTS]
        /\ reap' \in [Tasks -> SUBSET Sandboxes]
        /\ after' \in [Tasks -> Outcomes]
    BY <2>1, <2>2, CleanupStarts
  <2>5. QED
    BY <1>9, <2>3 DEF TypeOK, EventKinds, KillSucceeds, KillRaises, requestVars
<1>10. ASSUME NEW t \in Tasks, KillRetries(t) PROVE TypeOK'
  BY <1>10 DEF TypeOK, KillRetries, KillRaises, managerVars, requestVars
<1>11. ASSUME NEW t \in Tasks, KillGivesUp(t) PROVE TypeOK'
  <2>1. /\ StartCleanup(t, reap[t], after[t])
        /\ UNCHANGED candidate
    BY <1>11 DEF KillGivesUp, NextCleanup, requestVars
  <2>2. reap[t] \in SUBSET Sandboxes /\ after[t] \in Outcomes
    BY DEF TypeOK
  <2>3. /\ pc' \in [Tasks -> PCs]
        /\ replace_lock' \in Tasks \cup {NoTask}
        /\ victim' \in [Tasks -> Sandboxes \cup {NoSandbox}]
        /\ attempt' \in [Tasks -> 1 .. KILL_ATTEMPTS]
        /\ reap' \in [Tasks -> SUBSET Sandboxes]
        /\ after' \in [Tasks -> Outcomes]
    BY <2>1, <2>2, CleanupStarts
  <2>5. QED
    BY <1>11, <2>3 DEF TypeOK, EventKinds, KillGivesUp, KillRaises, requestVars
<1>12. ASSUME NEW t \in Tasks, LogWriteFails(t) PROVE TypeOK'
  BY <1>12 DEF TypeOK, PCs, Outcomes, LogWriteFails, KillRaises, cleanupVars, requestVars
<1>13. ASSUME NEW r \in Requests, RequestReset(r) PROVE TypeOK'
  BY <1>13 DEF TypeOK, PCs, Tasks, RequestReset, managerVars, worldVars, cleanupVars
<1>14. ASSUME NEW r \in Requests, RequestSave(r) PROVE TypeOK'
  BY <1>14 DEF TypeOK, PCs, Outcomes, RequestSave, managerVars, worldVars, cleanupVars
<1>15. ASSUME NEW r \in Requests, RequestStop(r) PROVE TypeOK'
  BY <1>15 DEF TypeOK, PCs, RequestStop, cleanupVars
<1>16. ASSUME NEW r \in Requests, CaptureSnapshot(r) PROVE TypeOK'
  BY <1>16 DEF TypeOK, PCs, Outcomes, CaptureSnapshot, managerVars, worldVars, cleanupVars,
     requestVars
<1>17. ASSUME NEW r \in Requests, RegisterSnapshot(r) PROVE TypeOK'
  BY <1>17 DEF TypeOK, PCs, Outcomes, Tasks, EventKinds, RegisterSnapshot, cleanupVars,
     requestVars
<1>18. ASSUME BindServers PROVE TypeOK'
  <2>1. Main \in Tasks /\ pc' \in [Tasks -> PCs]
    BY <1>18 DEF BindServers, TypeOK, PCs, Tasks
  <2>3. QED
    BY <1>18, <2>1 DEF BindServers, TypeOK, worldVars, cleanupVars, requestVars
<1>19. ASSUME MainStops PROVE TypeOK'
  BY <1>19 DEF TypeOK, PCs, EventKinds, MainStops, worldVars, cleanupVars, requestVars
<1>20. ASSUME ProcessExits PROVE TypeOK'
  BY <1>20 DEF TypeOK, ProcessExits, managerVars, cleanupVars, requestVars
<1>21. ASSUME Terminate PROVE TypeOK'
  BY <1>21 DEF TypeOK, Terminate, managerVars, cleanupVars, requestVars
<1>22. ASSUME Kill PROVE TypeOK'
  BY <1>22 DEF TypeOK, Kill, managerVars, cleanupVars, requestVars
<1>23. ASSUME NEW s \in Sandboxes, Expire(s) PROVE TypeOK'
  BY <1>23 DEF TypeOK, Expire, managerVars, cleanupVars, requestVars
<1>24. CASE UNCHANGED vars
  BY <1>24 DEF TypeOK, vars, managerVars, worldVars, cleanupVars, requestVars
<1>25. QED
  BY <1>1, <1>2, <1>3, <1>4, <1>5, <1>6, <1>7, <1>8, <1>9, <1>10, <1>11, <1>12, <1>13, <1>14,
     <1>15, <1>16, <1>17, <1>18, <1>19, <1>20, <1>21, <1>22, <1>23, <1>24 DEF Next, Acquire,
     Creating, CleaningUp, Request, Saving, MainLoop

-----------------------------------------------------------------------------
(* The invariant is kept by a step of t that leaves every other task, the  *)
(* guest and the tracked sandboxes alone, and after which t answers for    *)
(* the same sandboxes as before and holds the lock if it did before.       *)
LEMMA QuietStep ==
  ASSUME IInv, TypeOK', LocalsDefined', NEW t \in Tasks,
         UNCHANGED <<guest, pending, replace_lock>>,
         pc'[t] \in Holding <=> pc[t] \in Holding,
         \A u \in Tasks \ {t} : pc'[u] = pc[u],
         \A u \in Tasks : HeldBy(u)' = HeldBy(u),
         Logged("SANDBOX_CLEANED")' = Logged("SANDBOX_CLEANED"),
         \A s \in Sandboxes : \/ cloud'[s] = cloud[s]
                              \/ cloud[s] = "live" /\ cloud'[s] = "dead"
  PROVE  IInv'
<1> USE DEF IInv
<1>1. LockIsHeld'
  BY DEF LockIsHeld
<1>2. OwnersAreApart'
  BY DEF OwnersAreApart
<1>3. OwnedAreNotCleaned'
  BY DEF OwnedAreNotCleaned, TypeOK, HeldBy, LocalsDefined, Logged
<1>4. EverySandboxIsOwned'
  BY DEF EverySandboxIsOwned, Live
<1>5. QED
  BY <1>1, <1>2, <1>3, <1>4

(* A task that holds nothing outside the lock's blocks.                    *)
LEMMA OnlyTheHolderHolds ==
  ASSUME LockIsHeld, NEW t \in Tasks, replace_lock # t
  PROVE  HeldBy(t) = {}
BY DEF LockIsHeld, HeldBy, Holding, Replacing

(* The sandboxes that exist on t's account while it holds the lock.        *)
Mine(t) == ({guest} \cup pending \cup HeldBy(t)) \ {NoSandbox}

(* The invariant is kept by a step of t, the holder of the lock before or  *)
(* after it, that moves sandboxes between the guest, the tracked ones, and *)
(* the ones t answers for, and drops none that exists.                     *)
LEMMA HandOver ==
  ASSUME IInv, TypeOK', LocalsDefined', NEW t \in Tasks,
         replace_lock \in {t, NoTask}, replace_lock' \in {t, NoTask},
         pc'[t] \in Holding <=> replace_lock' = t,
         \A u \in Tasks \ {t} : pc'[u] = pc[u] /\ HeldBy(u)' = HeldBy(u),
         guest' \notin pending',
         HeldBy(t)' \cap ({guest'} \cup pending') = {},
         \A s \in Mine(t)' : \/ s \in Mine(t)
                             \/ cloud[s] = "unused" /\ cloud'[s] = "live",
         \A s \in Sandboxes : \/ cloud'[s] = cloud[s]
                              \/ cloud[s] = "live" /\ cloud'[s] = "dead"
                              \/ cloud[s] = "unused" /\ s \in Mine(t)',
         \A s \in Logged("SANDBOX_CLEANED")' :
            \/ s \in Logged("SANDBOX_CLEANED")
            \/ cloud'[s] = "dead" /\ s \notin Mine(t)',
         \A s \in Mine(t) : Blind \/ cloud'[s] # "live" \/ s \in Mine(t)'
  PROVE  IInv'
<1> USE IdentityAssumption DEF IInv
<1>1. \A u \in Tasks \ {t} : HeldBy(u) = {} /\ HeldBy(u)' = {}
  BY OnlyTheHolderHolds DEF Tasks
<1>2. LockIsHeld'
  BY DEF LockIsHeld, Tasks
<1>3. OwnersAreApart'
  BY <1>1 DEF OwnersAreApart
<1>4. \A s \in Mine(t) : /\ s \in Sandboxes
                         /\ cloud[s] # "unused"
                         /\ s \notin Logged("SANDBOX_CLEANED")
  BY DEF Mine, OwnedAreNotCleaned, TypeOK, HeldBy
<1>5. \A s \in Logged("SANDBOX_CLEANED") : s \in Sandboxes /\ cloud[s] = "dead"
  BY DEF OwnedAreNotCleaned, Logged
<1>6. \A s \in Mine(t)' : /\ s \in Sandboxes
                          /\ cloud'[s] # "unused"
                          /\ s \notin Logged("SANDBOX_CLEANED")'
  <2> SUFFICES ASSUME NEW s \in Mine(t)'
               PROVE  /\ s \in Sandboxes
                      /\ cloud'[s] # "unused"
                      /\ s \notin Logged("SANDBOX_CLEANED")'
    OBVIOUS
  <2>1. s \in Sandboxes
    BY DEF Mine, TypeOK, HeldBy
  <2>2. CASE s \in Mine(t)
    BY <1>4, <2>2
  <2>3. CASE cloud[s] = "unused" /\ cloud'[s] = "live"
    BY <1>5, <2>1, <2>3
  <2>4. QED
    BY <2>2, <2>3
<1>7. \A s \in Logged("SANDBOX_CLEANED")' : cloud'[s] = "dead"
  <2> SUFFICES ASSUME NEW s \in Logged("SANDBOX_CLEANED")',
                      s \in Logged("SANDBOX_CLEANED")
               PROVE  cloud'[s] = "dead"
    OBVIOUS
  <2>1. QED
    BY <1>5
<1>8. OwnedAreNotCleaned'
  <2>1. \A s \in {guest'} \cup pending' :
          s # NoSandbox => /\ cloud'[s] # "unused"
                           /\ s \notin Logged("SANDBOX_CLEANED")'
    BY <1>6 DEF Mine
  <2>2. \A u \in Tasks : \A s \in HeldBy(u)' :
          cloud'[s] # "unused" /\ s \notin Logged("SANDBOX_CLEANED")'
    <3>1. NoSandbox \notin HeldBy(t)'
      BY DEF HeldBy, LocalsDefined, TypeOK
    <3>2. QED
      BY <1>1, <1>6, <3>1 DEF Mine
  <2>3. QED
    BY <1>7, <2>1, <2>2 DEF OwnedAreNotCleaned
<1>9. EverySandboxIsOwned'
  <2> SUFFICES ASSUME ~Blind, NEW s \in Sandboxes, cloud'[s] = "live"
               PROVE  s \in {guest'} \cup pending' \cup HeldBy(t)'
    BY DEF EverySandboxIsOwned, Live
  <2>1. CASE cloud[s] = "unused"
    BY <2>1 DEF Mine
  <2>2. CASE cloud[s] # "unused"
    <3>1. s \in Live /\ s # NoSandbox
      BY <2>2 DEF Live
    <3>2. s \in Mine(t)
      BY <1>1, <3>1 DEF EverySandboxIsOwned, Mine
    <3>3. QED
      BY <3>2 DEF Mine
  <2>3. QED
    BY <2>1, <2>2
<1>10. QED
  BY <1>2, <1>3, <1>8, <1>9

(* A step of the lock's holder that ends in StartCleanup: todo takes over  *)
(* what neither the guest nor the tracked sandboxes are to be.             *)
LEMMA CleanupStep ==
  ASSUME IInv, TypeOK', NEW t \in Tasks, NEW todo \in SUBSET Sandboxes,
         NEW outcome \in Outcomes,
         StartCleanup(t, todo, outcome), UNCHANGED <<candidate, name>>,
         replace_lock \in {t, NoTask},
         guest' \notin pending',
         todo \cap ({guest'} \cup pending') = {},
         ({guest'} \cup pending' \cup todo) \ {NoSandbox} \subseteq Mine(t),
         \A s \in Sandboxes : \/ cloud'[s] = cloud[s]
                              \/ cloud[s] = "live" /\ cloud'[s] = "dead",
         \A s \in Logged("SANDBOX_CLEANED")' :
            \/ s \in Logged("SANDBOX_CLEANED")
            \/ cloud'[s] = "dead" /\ s \notin {guest'} \cup pending' \cup todo,
         \A s \in Mine(t) : \/ Blind
                            \/ cloud'[s] # "live"
                            \/ s \in {guest'} \cup pending' \cup todo
  PROVE  IInv'
<1> USE IdentityAssumption
<1>1. /\ pc' = [pc EXCEPT ![t] = IF todo = {} THEN outcome ELSE "killing"]
      /\ replace_lock' = IF todo = {} THEN NoTask ELSE t
      /\ todo # {} => victim'[t] \in Sandboxes \ reap'[t]
      /\ HeldBy(t)' = todo
      /\ \A u \in Tasks \ {t} : /\ HeldBy(u)' = HeldBy(u)
                                /\ victim'[u] = victim[u]
                                /\ reap'[u] = reap[u]
  BY CleanupStarts DEF IInv
<1>2. pc \in [Tasks -> PCs] /\ outcome \notin Holding
  BY DEF IInv, TypeOK, Outcomes, Holding, Replacing
<1>4. pc'[t] \in Holding <=> replace_lock' = t
  BY <1>1, <1>2 DEF Tasks, Holding
<1>5. LocalsDefined'
  BY <1>1, <1>2 DEF IInv, LocalsDefined, Outcomes
<1>6. Mine(t)' = ({guest'} \cup pending' \cup todo) \ {NoSandbox}
  BY <1>1 DEF Mine
<1>9. \A s \in Mine(t) : Blind \/ cloud'[s] # "live" \/ s \in Mine(t)'
  BY <1>6 DEF Mine
<1>10. QED
  BY <1>1, <1>4, <1>5, <1>6, <1>9, HandOver

(* Every step keeps the inductive invariant.                               *)
LEMMA InvariantStep ==
  ASSUME IInv, [Next]_vars
  PROVE  IInv'
<1> USE KillAttemptsAssumption, IdentityAssumption
<1> USE DEF At, Goto, Release, Fault, Event
<1>0. TypeOK'
  BY Typing DEF IInv
<1>1. ASSUME NEW t \in Tasks, AcquireReplace(t) PROVE IInv'
  <2> USE <1>1 DEF AcquireReplace, worldVars, cleanupVars
  <2>1. LocalsDefined'
    BY DEF IInv, LocalsDefined, TypeOK
  <2>2. \A u \in Tasks : HeldBy(u)' = HeldBy(u)
    BY DEF HeldBy, IInv, TypeOK
  <2>3. /\ replace_lock \in {t, NoTask} /\ replace_lock' \in {t, NoTask}
        /\ pc'[t] \in Holding <=> replace_lock' = t
        /\ \A u \in Tasks \ {t} : pc'[u] = pc[u]
    BY DEF IInv, TypeOK, Holding, Replacing, Tasks
  <2>4. Mine(t)' = Mine(t)
    BY <2>2 DEF Mine
  <2>5. /\ guest' \notin pending'
        /\ HeldBy(t)' \cap ({guest'} \cup pending') = {}
    BY <2>2 DEF IInv, OwnersAreApart
  <2>6. Logged("SANDBOX_CLEANED")' = Logged("SANDBOX_CLEANED") /\ UNCHANGED cloud
    BY DEF Logged
  <2>7. QED
    BY <1>0, <2>1, <2>2, <2>3, <2>4, <2>5, <2>6, HandOver
<1>2. ASSUME NEW t \in Tasks, AcquireStop(t) PROVE IInv'
  <2> USE <1>2 DEF AcquireStop, worldVars, requestVars
  <2> DEFINE todo == (pending \cup {guest}) \ {NoSandbox}
             outcome == IF t = Main THEN "closing" ELSE "done"
  <2>1. todo \in SUBSET Sandboxes /\ outcome \in Outcomes
    BY DEF IInv, TypeOK, Outcomes
  <2>2. HeldBy(t) = {}
    BY DEF HeldBy
  <2>3. ({guest'} \cup pending' \cup todo) \ {NoSandbox} = Mine(t)
    BY <2>2 DEF Mine
  <2>4. NoSandbox \notin todo /\ StartCleanup(t, todo, outcome)
    OBVIOUS
  <2>5. /\ UNCHANGED <<cloud, candidate, name>>
        /\ Logged("SANDBOX_CLEANED")' = Logged("SANDBOX_CLEANED")
        /\ replace_lock \in {t, NoTask} /\ guest' = NoSandbox /\ pending' = {}
    BY DEF Logged
  <2> HIDE DEF todo, outcome, AcquireStop
  <2>6. QED
    BY <1>0, <2>1, <2>3, <2>4, <2>5, CleanupStep
<1>3. ASSUME NEW t \in Tasks, CloudCreates(t) PROVE IInv'
  <2> USE <1>3 DEF CloudCreates, managerVars, cleanupVars
  <2>1. PICK s \in Sandboxes :
          /\ cloud[s] = "unused"
          /\ cloud' = [cloud EXCEPT ![s] = "live"]
          /\ candidate' = [candidate EXCEPT ![t] = s]
    OBVIOUS
  <2>2. LocalsDefined'
    BY DEF IInv, LocalsDefined, TypeOK
  <2>3. /\ HeldBy(t) = {} /\ HeldBy(t)' = {s}
        /\ \A u \in Tasks \ {t} : pc'[u] = pc[u] /\ HeldBy(u)' = HeldBy(u)
    BY <2>1 DEF IInv, TypeOK, HeldBy
  <2>4. /\ replace_lock = t /\ replace_lock' = t
        /\ pc'[t] \in Holding
    BY DEF IInv, LockIsHeld, Holding, Replacing
  <2>5. guest \notin pending /\ s \notin {guest} \cup pending
    BY <2>1 DEF IInv, OwnersAreApart, OwnedAreNotCleaned
  <2>6. Mine(t)' = Mine(t) \cup {s}
    BY <2>3 DEF Mine
  <2>7. /\ UNCHANGED <<guest, pending>>
        /\ Logged("SANDBOX_CLEANED")' = Logged("SANDBOX_CLEANED")
    BY DEF Logged
  <2>8. /\ cloud'[s] = "live"
        /\ \A x \in Sandboxes \ {s} : cloud'[x] = cloud[x]
    BY <2>1 DEF IInv, TypeOK
  <2> HIDE DEF CloudCreates
  <2>9. QED
    BY <1>0, <2>1, <2>2, <2>3, <2>4, <2>5, <2>6, <2>7, <2>8, HandOver
<1>4. ASSUME NEW t \in Tasks, CreateFails(t) PROVE IInv'
  <2> USE <1>4 DEF CreateFails, worldVars, cleanupVars, requestVars
  <2>1. LocalsDefined'
    BY DEF IInv, LocalsDefined
  <2>2. /\ HeldBy(t)' = {}
        /\ \A u \in Tasks \ {t} : pc'[u] = pc[u] /\ HeldBy(u)' = HeldBy(u)
    BY DEF IInv, TypeOK, HeldBy
  <2>3. /\ replace_lock = t /\ replace_lock' = NoTask /\ t # NoTask
        /\ pc'[t] \notin Holding
    BY DEF IInv, TypeOK, LockIsHeld, Holding, Replacing, Tasks
  <2>4. Mine(t)' \subseteq Mine(t)
    BY <2>2 DEF Mine
  <2>5. \A s \in Mine(t) : Blind \/ s \in Mine(t)'
    <3>1. HeldBy(t) = {} \/ Blind
      BY DEF HeldBy, Blind
    <3>2. QED
      BY <3>1 DEF Mine
  <2>6. /\ UNCHANGED <<guest, pending>>
        /\ guest \notin pending
        /\ Logged("SANDBOX_CLEANED")' = Logged("SANDBOX_CLEANED")
    BY DEF Logged, IInv, OwnersAreApart
  <2>7. \A s \in Sandboxes : \/ cloud'[s] = cloud[s]
                             \/ cloud[s] = "live" /\ cloud'[s] = "dead"
    OBVIOUS
  <2> HIDE DEF CreateFails
  <2>8. QED
    BY <1>0, <2>1, <2>2, <2>3, <2>4, <2>5, <2>6, <2>7, HandOver
<1>5. ASSUME NEW t \in Tasks, CreateReturnsNoToken(t) PROVE IInv'
  <2> USE <1>5 DEF CreateReturnsNoToken, worldVars, requestVars
  <2>1. candidate[t] \in Sandboxes /\ HeldBy(t) = {candidate[t]}
    BY DEF IInv, LocalsDefined, HeldBy
  <2>2. replace_lock = t
    BY DEF IInv, LockIsHeld, Holding, Replacing
  <2>3. /\ UNCHANGED <<cloud, candidate, name, guest, pending>>
        /\ Logged("SANDBOX_CLEANED")' = Logged("SANDBOX_CLEANED")
        /\ StartCleanup(t, {candidate[t]}, "failed")
    BY DEF Logged
  <2>4. /\ guest \notin pending
        /\ {candidate[t]} \cap ({guest} \cup pending) = {}
        /\ ({guest} \cup pending \cup {candidate[t]}) \ {NoSandbox} = Mine(t)
    BY <2>1 DEF IInv, OwnersAreApart, Mine
  <2>5. "failed" \in Outcomes
    BY DEF Outcomes
  <2> HIDE DEF CreateReturnsNoToken
  <2>6. QED
    BY <1>0, <2>1, <2>2, <2>3, <2>4, <2>5, CleanupStep
<1>6. ASSUME NEW t \in Tasks, CreateReturns(t) PROVE IInv'
  <2> USE <1>6 DEF CreateReturns, managerVars, cleanupVars, requestVars
  <2>1. LocalsDefined'
    BY DEF IInv, LocalsDefined
  <2>2. \A u \in Tasks : HeldBy(u)' = HeldBy(u)
    BY DEF HeldBy
  <2>3. /\ t \in Tasks
        /\ UNCHANGED <<guest, pending, replace_lock>>
        /\ pc'[t] \in Holding <=> pc[t] \in Holding
        /\ \A u \in Tasks \ {t} : pc'[u] = pc[u]
        /\ Logged("SANDBOX_CLEANED")' = Logged("SANDBOX_CLEANED")
        /\ UNCHANGED cloud
    BY DEF Holding, Replacing, Logged
  <2>4. QED
    BY <1>0, <2>1, <2>2, <2>3, QuietStep
<1>7. ASSUME NEW t \in Tasks, GuestReady(t) PROVE IInv'
  <2> USE <1>7 DEF GuestReady, requestVars
  <2>1. candidate[t] \in Sandboxes /\ HeldBy(t) = {candidate[t]}
    BY DEF IInv, LocalsDefined, HeldBy
  <2>2. replace_lock = t
    BY DEF IInv, LockIsHeld, Holding, Replacing
  <2>3. /\ UNCHANGED <<cloud, candidate, name, pending>>
        /\ Logged("SANDBOX_CLEANED")' = Logged("SANDBOX_CLEANED")
    BY DEF Logged
  <2>4. /\ guest \notin pending
        /\ {candidate[t]} \cap ({guest} \cup pending) = {}
        /\ ({guest} \cup pending \cup {candidate[t]}) \ {NoSandbox} = Mine(t)
    BY <2>1 DEF IInv, OwnersAreApart, Mine
  <2>5. Replaced(t) \in Outcomes /\ "failed" \in Outcomes
    BY DEF Outcomes, Replaced
  <2>6. CASE stopped
    <3>1. StartCleanup(t, {candidate[t]}, "failed") /\ UNCHANGED guest
      BY <2>6
    <3> HIDE DEF GuestReady
    <3>2. QED
      BY <1>0, <2>1, <2>2, <2>3, <2>4, <2>5, <3>1, CleanupStep
  <2>7. CASE ~stopped
    <3>1. /\ StartCleanup(t, {guest} \ {NoSandbox}, Replaced(t))
          /\ guest' = candidate[t]
      BY <2>7
    <3>2. {guest} \ {NoSandbox} \in SUBSET Sandboxes
      BY DEF IInv, TypeOK
    <3> HIDE DEF GuestReady
    <3>3. QED
      BY <1>0, <2>2, <2>3, <2>4, <2>5, <3>1, <3>2, CleanupStep
  <2>8. QED
    BY <2>6, <2>7
<1>8. ASSUME NEW t \in Tasks, GuestNotReady(t) PROVE IInv'
  <2> USE <1>8 DEF GuestNotReady, worldVars, requestVars
  <2>1. candidate[t] \in Sandboxes /\ HeldBy(t) = {candidate[t]}
    BY DEF IInv, LocalsDefined, HeldBy
  <2>2. replace_lock = t
    BY DEF IInv, LockIsHeld, Holding, Replacing
  <2>3. /\ UNCHANGED <<cloud, candidate, name, guest, pending>>
        /\ Logged("SANDBOX_CLEANED")' = Logged("SANDBOX_CLEANED")
        /\ StartCleanup(t, {candidate[t]}, "failed")
    BY DEF Logged
  <2>4. /\ guest \notin pending
        /\ {candidate[t]} \cap ({guest} \cup pending) = {}
        /\ ({guest} \cup pending \cup {candidate[t]}) \ {NoSandbox} = Mine(t)
    BY <2>1 DEF IInv, OwnersAreApart, Mine
  <2>5. "failed" \in Outcomes
    BY DEF Outcomes
  <2> HIDE DEF GuestNotReady
  <2>6. QED
    BY <1>0, <2>1, <2>2, <2>3, <2>4, <2>5, CleanupStep
<1>9. ASSUME NEW t \in Tasks, KillSucceeds(t) PROVE IInv'
  <2> USE <1>9 DEF KillSucceeds, NextCleanup, requestVars
  <2>1. /\ victim[t] \in Sandboxes /\ victim[t] \notin reap[t]
        /\ HeldBy(t) = {victim[t]} \cup reap[t]
    BY DEF IInv, LocalsDefined, HeldBy
  <2>2. replace_lock = t
    BY DEF IInv, LockIsHeld, Holding
  <2>3. /\ UNCHANGED <<candidate, name, guest>>
        /\ pending' = pending \ {victim[t]}
        /\ cloud' = [cloud EXCEPT ![victim[t]] = "dead"]
        /\ events' = events \cup {Event("SANDBOX_CLEANED", victim[t])}
        /\ StartCleanup(t, reap[t], after[t])
    BY DEF Logged
  <2>4. /\ guest \notin pending
        /\ ({victim[t]} \cup reap[t]) \cap ({guest} \cup pending) = {}
        /\ ({guest} \cup pending \cup {victim[t]} \cup reap[t]) \ {NoSandbox} = Mine(t)
    BY <2>1 DEF IInv, OwnersAreApart, Mine
  <2>5. \A s \in Sandboxes : \/ cloud'[s] = cloud[s]
                             \/ cloud[s] = "live" /\ cloud'[s] = "dead"
    BY <2>1 DEF IInv, TypeOK, OwnedAreNotCleaned
  <2>6. reap[t] \in SUBSET Sandboxes /\ after[t] \in Outcomes
    BY DEF IInv, TypeOK
  <2>7. cloud \in [Sandboxes -> {"unused", "live", "dead"}]
    BY DEF IInv, TypeOK
  <2>8. Logged("SANDBOX_CLEANED")' = Logged("SANDBOX_CLEANED") \cup {victim[t]}
    BY <2>1 DEF Logged
  <2> HIDE DEF KillSucceeds, NextCleanup
  <2>9. QED
    BY <1>0, <2>1, <2>2, <2>3, <2>4, <2>5, <2>6, <2>7, <2>8, CleanupStep
<1>10. ASSUME NEW t \in Tasks, KillRetries(t) PROVE IInv'
  <2> USE <1>10 DEF KillRetries, KillRaises, managerVars, requestVars
  <2>1. LocalsDefined'
    BY DEF IInv, LocalsDefined
  <2>2. \A u \in Tasks : HeldBy(u)' = HeldBy(u)
    BY DEF HeldBy
  <2>3. /\ t \in Tasks
        /\ UNCHANGED <<guest, pending, replace_lock>>
        /\ pc'[t] \in Holding <=> pc[t] \in Holding
        /\ \A u \in Tasks \ {t} : pc'[u] = pc[u]
        /\ Logged("SANDBOX_CLEANED")' = Logged("SANDBOX_CLEANED")
    BY DEF Logged
  <2>4. \A s \in Sandboxes : \/ cloud'[s] = cloud[s]
                             \/ cloud[s] = "live" /\ cloud'[s] = "dead"
    BY DEF IInv, TypeOK, OwnedAreNotCleaned, HeldBy
  <2>5. QED
    BY <1>0, <2>1, <2>2, <2>3, <2>4, QuietStep
<1>11. ASSUME NEW t \in Tasks, KillGivesUp(t) PROVE IInv'
  <2> USE <1>11 DEF KillGivesUp, NextCleanup, requestVars
  <2>1. /\ victim[t] \in Sandboxes /\ victim[t] \notin reap[t]
        /\ HeldBy(t) = {victim[t]} \cup reap[t]
    BY DEF IInv, LocalsDefined, HeldBy
  <2>2. replace_lock = t
    BY DEF IInv, LockIsHeld, Holding
  <2>3. /\ UNCHANGED <<candidate, name, guest>>
        /\ pending' = pending \cup {victim[t]}
        /\ Logged("SANDBOX_CLEANED")' = Logged("SANDBOX_CLEANED")
        /\ StartCleanup(t, reap[t], after[t])
    BY DEF Logged
  <2>4. /\ guest \notin pending
        /\ ({victim[t]} \cup reap[t]) \cap ({guest} \cup pending) = {}
        /\ ({guest} \cup pending \cup {victim[t]} \cup reap[t]) \ {NoSandbox} = Mine(t)
    BY <2>1 DEF IInv, OwnersAreApart, Mine
  <2>5. \A s \in Sandboxes : \/ cloud'[s] = cloud[s]
                             \/ cloud[s] = "live" /\ cloud'[s] = "dead"
    BY <2>1 DEF IInv, TypeOK, OwnedAreNotCleaned, KillRaises
  <2>6. reap[t] \in SUBSET Sandboxes /\ after[t] \in Outcomes
    BY DEF IInv, TypeOK
  <2> HIDE DEF KillGivesUp, NextCleanup
  <2>8. QED
    BY <1>0, <2>1, <2>2, <2>3, <2>4, <2>5, <2>6, CleanupStep
<1>12. ASSUME NEW t \in Tasks, LogWriteFails(t) PROVE IInv'
  <2> USE <1>12 DEF LogWriteFails, KillRaises, cleanupVars, requestVars
  <2>1. LocalsDefined'
    BY DEF IInv, LocalsDefined
  <2>2. /\ HeldBy(t)' = {}
        /\ \A u \in Tasks \ {t} : pc'[u] = pc[u] /\ HeldBy(u)' = HeldBy(u)
    BY DEF IInv, TypeOK, HeldBy
  <2>3. /\ replace_lock = t /\ replace_lock' = NoTask /\ t # NoTask
        /\ pc'[t] \notin Holding
    BY DEF IInv, TypeOK, LockIsHeld, Holding, Replacing, Tasks
  <2>4. Mine(t)' \subseteq Mine(t)
    BY <2>2 DEF Mine
  <2>5. \A s \in Mine(t) : Blind \/ s \in Mine(t)'
    <3>1. HeldBy(t) = {} \/ Blind
      BY DEF Blind
    <3>2. QED
      BY <3>1 DEF Mine
  <2>6. /\ UNCHANGED <<guest, pending>>
        /\ guest \notin pending
        /\ Logged("SANDBOX_CLEANED")' = Logged("SANDBOX_CLEANED")
    BY DEF Logged, IInv, OwnersAreApart
  <2>7. \A s \in Sandboxes : \/ cloud'[s] = cloud[s]
                             \/ cloud[s] = "live" /\ cloud'[s] = "dead"
    BY DEF IInv, TypeOK, OwnedAreNotCleaned, HeldBy
  <2> HIDE DEF LogWriteFails
  <2>8. QED
    BY <1>0, <2>1, <2>2, <2>3, <2>4, <2>5, <2>6, <2>7, HandOver
<1>13. ASSUME NEW r \in Requests, RequestReset(r) PROVE IInv'
  <2> USE <1>13 DEF RequestReset, Arrives, managerVars, worldVars, cleanupVars
  <2>1. LocalsDefined'
    BY DEF IInv, LocalsDefined
  <2>2. \A u \in Tasks : HeldBy(u)' = HeldBy(u)
    BY DEF HeldBy
  <2>3. /\ r \in Tasks
        /\ UNCHANGED <<guest, pending, replace_lock>>
        /\ pc'[r] \in Holding <=> pc[r] \in Holding
        /\ \A u \in Tasks \ {r} : pc'[u] = pc[u]
        /\ Logged("SANDBOX_CLEANED")' = Logged("SANDBOX_CLEANED")
        /\ UNCHANGED cloud
    BY DEF Holding, Replacing, Tasks, Logged
  <2>4. QED
    BY <1>0, <2>1, <2>2, <2>3, QuietStep
<1>14. ASSUME NEW r \in Requests, RequestSave(r) PROVE IInv'
  <2> USE <1>14 DEF RequestSave, Arrives, managerVars, worldVars, cleanupVars
  <2>1. LocalsDefined'
    BY DEF IInv, LocalsDefined, TypeOK
  <2>2. \A u \in Tasks : HeldBy(u)' = HeldBy(u)
    BY DEF HeldBy
  <2>3. /\ r \in Tasks
        /\ UNCHANGED <<guest, pending, replace_lock>>
        /\ pc'[r] \in Holding <=> pc[r] \in Holding
        /\ \A u \in Tasks \ {r} : pc'[u] = pc[u]
        /\ Logged("SANDBOX_CLEANED")' = Logged("SANDBOX_CLEANED")
        /\ UNCHANGED cloud
    BY DEF Holding, Replacing, Tasks, Logged
  <2>4. QED
    BY <1>0, <2>1, <2>2, <2>3, QuietStep
<1>15. ASSUME NEW r \in Requests, RequestStop(r) PROVE IInv'
  <2> USE <1>15 DEF RequestStop, Arrives, cleanupVars
  <2>1. LocalsDefined'
    BY DEF IInv, LocalsDefined
  <2>2. \A u \in Tasks : HeldBy(u)' = HeldBy(u)
    BY DEF HeldBy
  <2>3. /\ r \in Tasks
        /\ UNCHANGED <<guest, pending, replace_lock>>
        /\ pc'[r] \in Holding <=> pc[r] \in Holding
        /\ \A u \in Tasks \ {r} : pc'[u] = pc[u]
        /\ Logged("SANDBOX_CLEANED")' = Logged("SANDBOX_CLEANED")
        /\ UNCHANGED cloud
    BY DEF Holding, Replacing, Tasks, Logged
  <2>4. QED
    BY <1>0, <2>1, <2>2, <2>3, QuietStep
<1>16. ASSUME NEW r \in Requests, CaptureSnapshot(r) PROVE IInv'
  <2> USE <1>16 DEF CaptureSnapshot, managerVars, worldVars, cleanupVars, requestVars
  <2>1. LocalsDefined'
    BY DEF IInv, LocalsDefined, TypeOK
  <2>2. \A u \in Tasks : HeldBy(u)' = HeldBy(u)
    BY DEF HeldBy, IInv, TypeOK
  <2>3. /\ r \in Tasks
        /\ UNCHANGED <<guest, pending, replace_lock>>
        /\ pc'[r] \in Holding <=> pc[r] \in Holding
        /\ \A u \in Tasks \ {r} : pc'[u] = pc[u]
        /\ Logged("SANDBOX_CLEANED")' = Logged("SANDBOX_CLEANED")
        /\ UNCHANGED cloud
    BY DEF IInv, TypeOK, Holding, Replacing, Tasks, Logged
  <2>4. QED
    BY <1>0, <2>1, <2>2, <2>3, QuietStep
<1>17. ASSUME NEW r \in Requests, RegisterSnapshot(r) PROVE IInv'
  <2> USE <1>17 DEF RegisterSnapshot, cleanupVars, requestVars
  <2>1. LocalsDefined'
    BY DEF IInv, LocalsDefined, TypeOK
  <2>2. \A u \in Tasks : HeldBy(u)' = HeldBy(u)
    BY DEF HeldBy, IInv, TypeOK
  <2>3. /\ r \in Tasks
        /\ UNCHANGED <<guest, pending, replace_lock>>
        /\ pc'[r] \in Holding <=> pc[r] \in Holding
        /\ \A u \in Tasks \ {r} : pc'[u] = pc[u]
        /\ Logged("SANDBOX_CLEANED")' = Logged("SANDBOX_CLEANED")
        /\ UNCHANGED cloud
    BY DEF IInv, TypeOK, Holding, Replacing, Tasks, Logged
  <2>4. QED
    BY <1>0, <2>1, <2>2, <2>3, QuietStep
<1>18. ASSUME BindServers PROVE IInv'
  <2> USE <1>18 DEF BindServers, worldVars, cleanupVars, requestVars
  <2>1. LocalsDefined'
    BY DEF IInv, LocalsDefined, TypeOK
  <2>2. \A u \in Tasks : HeldBy(u)' = HeldBy(u)
    BY DEF HeldBy, IInv, TypeOK
  <2>3. /\ Main \in Tasks
        /\ UNCHANGED <<guest, pending, replace_lock>>
        /\ pc'[Main] \in Holding <=> pc[Main] \in Holding
        /\ \A u \in Tasks \ {Main} : pc'[u] = pc[u]
        /\ Logged("SANDBOX_CLEANED")' = Logged("SANDBOX_CLEANED")
        /\ UNCHANGED cloud
    BY DEF IInv, TypeOK, Holding, Replacing, Tasks, Logged
  <2>4. QED
    BY <1>0, <2>1, <2>2, <2>3, QuietStep
<1>19. ASSUME MainStops PROVE IInv'
  <2> USE <1>19 DEF MainStops, worldVars, cleanupVars, requestVars
  <2>1. LocalsDefined'
    BY DEF IInv, LocalsDefined
  <2>2. \A u \in Tasks : HeldBy(u)' = HeldBy(u)
    BY DEF HeldBy
  <2>3. /\ Main \in Tasks
        /\ UNCHANGED <<guest, pending, replace_lock>>
        /\ pc'[Main] \in Holding <=> pc[Main] \in Holding
        /\ \A u \in Tasks \ {Main} : pc'[u] = pc[u]
        /\ Logged("SANDBOX_CLEANED")' = Logged("SANDBOX_CLEANED")
        /\ UNCHANGED cloud
    BY DEF Holding, Replacing, Tasks, Logged
  <2>4. QED
    BY <1>0, <2>1, <2>2, <2>3, QuietStep
<1>20. ASSUME ProcessExits \/ Terminate \/ Kill PROVE IInv'
  <2> USE <1>20 DEF ProcessExits, Terminate, Kill, managerVars, cleanupVars,
             requestVars
  <2>1. LocalsDefined'
    BY DEF IInv, LocalsDefined
  <2>2. \A u \in Tasks : HeldBy(u)' = HeldBy(u)
    BY DEF HeldBy
  <2>3. /\ Main \in Tasks
        /\ UNCHANGED <<guest, pending, replace_lock>>
        /\ pc'[Main] \in Holding <=> pc[Main] \in Holding
        /\ \A u \in Tasks \ {Main} : pc'[u] = pc[u]
        /\ Logged("SANDBOX_CLEANED")' = Logged("SANDBOX_CLEANED")
        /\ UNCHANGED cloud
    BY DEF Tasks, Logged
  <2>4. QED
    BY <1>0, <2>1, <2>2, <2>3, QuietStep
<1>21. ASSUME NEW s \in Sandboxes, Expire(s) PROVE IInv'
  <2> USE <1>21 DEF Expire, managerVars, cleanupVars, requestVars
  <2>1. LocalsDefined'
    BY DEF IInv, LocalsDefined
  <2>2. \A u \in Tasks : HeldBy(u)' = HeldBy(u)
    BY DEF HeldBy
  <2>3. /\ Main \in Tasks
        /\ UNCHANGED <<guest, pending, replace_lock>>
        /\ pc'[Main] \in Holding <=> pc[Main] \in Holding
        /\ \A u \in Tasks \ {Main} : pc'[u] = pc[u]
        /\ Logged("SANDBOX_CLEANED")' = Logged("SANDBOX_CLEANED")
    BY DEF Tasks, Logged
  <2>5. QED
    BY <1>0, <2>1, <2>2, <2>3, QuietStep
<1>22. CASE UNCHANGED vars
  BY <1>22 DEF vars, managerVars, worldVars, cleanupVars, requestVars, IInv, TypeOK,
     LocalsDefined, LockIsHeld, OwnersAreApart, OwnedAreNotCleaned, EverySandboxIsOwned, HeldBy,
     Logged, Live
<1>23. QED
  BY <1>1, <1>2, <1>3, <1>4, <1>5, <1>6, <1>7, <1>8, <1>9, <1>10, <1>11, <1>12, <1>13, <1>14,
     <1>15, <1>16, <1>17, <1>18, <1>19, <1>20, <1>21, <1>22 DEF Next, Acquire, Creating,
     CleaningUp, Request, Saving, MainLoop

(* The relay starts with nobody in the lock's block and no sandbox.        *)
LEMMA InvariantInit == Init => IInv
<1> SUFFICES ASSUME Init PROVE IInv
  OBVIOUS
<1> USE KillAttemptsAssumption, IdentityAssumption DEF Init, Tasks
<1>1. TypeOK
  <2>2. pc \in [Tasks -> PCs]
    BY DEF PCs
  <2>4. /\ number \in [Tasks -> Nat]
        /\ origin \in [Tasks -> Sandboxes \cup {Template}]
        /\ name \in [Tasks -> Names \cup {"none"}]
        /\ candidate \in [Tasks -> Sandboxes \cup {NoSandbox}]
        /\ victim \in [Tasks -> Sandboxes \cup {NoSandbox}]
        /\ attempt \in [Tasks -> 1 .. KILL_ATTEMPTS]
        /\ reap \in [Tasks -> SUBSET Sandboxes]
        /\ after \in [Tasks -> Outcomes]
    BY DEF Outcomes
  <2>5. QED
    BY <2>2, <2>4 DEF TypeOK
<1>2. LocalsDefined /\ LockIsHeld
  BY DEF LocalsDefined, LockIsHeld, Holding, Replacing
<1>3. \A t \in Tasks : HeldBy(t) = {}
  BY DEF HeldBy
<1>4. OwnersAreApart /\ OwnedAreNotCleaned /\ EverySandboxIsOwned
  BY <1>3 DEF OwnersAreApart, OwnedAreNotCleaned, EverySandboxIsOwned, Live, Logged
<1>5. QED
  BY <1>1, <1>2, <1>4 DEF IInv

-----------------------------------------------------------------------------
(* The results.                                                            *)

(* The inductive invariant holds in every reachable state of the relay.    *)
THEOREM Invariance == Spec => []IInv
<1>1. IInv /\ [Next]_vars => IInv'
  BY InvariantStep
<1>2. QED
  BY InvariantInit, <1>1, PTL DEF Spec

(* Every variable keeps its type.                                          *)
THEOREM TypeCorrectness == Spec => []TypeOK
<1>1. IInv => TypeOK
  BY DEF IInv
<1>2. QED
  BY Invariance, <1>1, PTL

(* The relay never loses sight of a sandbox it made, unless a reply of E2B *)
(* or a line of the event log is lost.                                     *)
THEOREM NoSandboxIsForgotten == Spec => []EverySandboxIsOwned
<1>1. IInv => EverySandboxIsOwned
  BY DEF IInv
<1>2. QED
  BY Invariance, <1>1, PTL

(* No cleanup is ever aimed at the guest that requests are sent to.        *)
THEOREM ServedGuestIsSafe == Spec => []GuestIsNotCleanedUp
<1>1. IInv => GuestIsNotCleanedUp
  BY DEF IInv, OwnersAreApart, GuestIsNotCleanedUp
<1>2. QED
  BY Invariance, <1>1, PTL

(* A sandbox that is on record as cleaned is gone for good.                *)
THEOREM CleanedStaysGone == Spec => []CleanedIsGone
<1>1. IInv => CleanedIsGone
  BY DEF IInv, OwnedAreNotCleaned, CleanedIsGone, Live
<1>2. QED
  BY Invariance, <1>1, PTL
=============================================================================
