--------------------------- MODULE E2BProviderProofs ---------------------------
(***************************************************************************)
(* Theorems about E2BProvider, for any sandboxes and any number of relays. *)
(***************************************************************************)
EXTENDS E2BProvider, TLAPS

\* A relay process that runs is one the provider has a handle of.
HandleInv == Up => handle

\* A relay that does not run has no sandboxes; those of one that does are
\* each in one place.
LeaseInv ==
    /\ ~Up => ~asked /\ making = NoSandbox /\ serving = NoSandbox /\ doomed = {}
    /\ asked => making = NoSandbox
    /\ making # NoSandbox => making \notin doomed \cup gone \cup {serving}
    /\ serving # NoSandbox => serving \notin doomed \cup gone
    /\ doomed \cap gone = {}
    /\ relay = "serving" => serving # NoSandbox

\* An answered /stop leaves the relay nothing that is not on record.
StopInv ==
    /\ request = "stop" => relay = "stopping"
    /\ outcome = "stopped" => relay \in {"stopping", "dead"} /\ Settled

\* What exists and is not in the log of the first relay does not make that
\* log say "success": the guest before it is there, or nothing is gone yet.
Unlogged == Held \ created
LogInv ==
    /\ relays = 0 => relay = "none" /\ gone = {}
    /\ relays <= 1 /\ relay # "dead" => lost = {}
    /\ serving # NoSandbox => serving \in created
    /\ failed = {} /\ serving = NoSandbox /\ doomed # {} =>
         ~asked /\ making = NoSandbox /\ \E s \in Sandboxes : doomed = {s}
    /\ relays <= 1 /\ failed = {} /\ (asked \/ Unlogged # {}) =>
         serving # NoSandbox \/ gone = {}

ProviderInv ==
    TypeOK /\ HandleInv /\ LeaseInv /\ StopInv /\ LogInv /\ SuccessMeansNothingLost

-----------------------------------------------------------------------------
LEMMA ProviderInitially == Init => ProviderInv
<1> SUFFICES ASSUME Init PROVE ProviderInv
  OBVIOUS
<1> USE DEF Init, Lease!Init
<1>1. TypeOK
  <2>1. relays \in 0 .. MAX_RELAYS
    BY MaxRelaysAssumption
  <2> QED
    BY <2>1 DEF TypeOK
<1>2. HandleInv /\ LeaseInv /\ StopInv
  BY DEF HandleInv, LeaseInv, StopInv, Up
<1>3. LogInv
  BY DEF LogInv
<1>4. SuccessMeansNothingLost
  BY DEF SuccessMeansNothingLost
<1> QED
  BY <1>1, <1>2, <1>3, <1>4 DEF ProviderInv

\* The part of TypeOK that the death of a relay touches.
RelayTypes ==
    /\ asked \in BOOLEAN /\ closed \in BOOLEAN
    /\ making \in Sandboxes \cup {NoSandbox}
    /\ serving \in Sandboxes \cup {NoSandbox}
    /\ doomed \subseteq Sandboxes
    /\ gone \subseteq Sandboxes
    /\ lost \subseteq Sandboxes
    /\ relay \in {"none", "booting", "serving", "stopping", "dead"}
    /\ request \in {"none", "reset", "replacing", "stop"}

LEMMA DyingKeepsTypes ==
    ASSUME TypeOK, RelayDies
    PROVE  RelayTypes'
<1>1. Held \subseteq Sandboxes
  BY DEF Held, TypeOK
<1>2. lost' \subseteq Sandboxes
  BY <1>1 DEF RelayDies, TypeOK
<1>3. gone' \subseteq Sandboxes
  BY DEF RelayDies, TypeOK
<1> QED
  BY <1>2, <1>3 DEF RelayDies, RelayTypes

LEMMA DeliversKeeps ==
    ASSUME ProviderInv, Delivers
    PROVE  ProviderInv'
<1> USE NoSandboxAssumption DEF ProviderInv
<1>1. TypeOK'
  <2>1. TypeOK
    OBVIOUS
  <2>2. PICK s \in Sandboxes : Lease!Deliver(s)
    BY DEF Delivers
  <2>3. /\ asked' \in BOOLEAN /\ making' \in Sandboxes
        /\ UNCHANGED <<serving, doomed, gone, closed>>
    BY <2>2 DEF Lease!Deliver
  <2>4. UNCHANGED <<created, failed, lost, relay, relays, handle, client, outcome, request>>
    BY DEF Delivers, logVars, clientVars
  <2> HIDE DEF ProviderInv
  <2> QED
    BY <2>1, <2>3, <2>4 DEF TypeOK
<1>2. HandleInv'
  BY DEF Delivers, clientVars, HandleInv
<1>3. LeaseInv'
  BY DEF Delivers, Lease!Deliver, Lease!Known, Up, LeaseInv
<1>4. StopInv'
  BY DEF Delivers, clientVars, Lease!Deliver, StopInv, Settled
<1>5. LogInv'
  BY DEF Delivers, logVars, Lease!Deliver, LogInv
<1>6. SuccessMeansNothingLost'
  BY DEF Delivers, Up, SuccessMeansNothingLost
<1> QED
  BY <1>1, <1>2, <1>3, <1>4, <1>5, <1>6

LEMMA LogsCreationKeeps ==
    ASSUME ProviderInv, LogsCreation
    PROVE  ProviderInv'
<1> USE NoSandboxAssumption DEF ProviderInv
<1>1. TypeOK'
  BY DEF LogsCreation, leaseVars, clientVars, TypeOK
<1>2. HandleInv'
  BY DEF LogsCreation, clientVars, HandleInv
<1>3. LeaseInv'
  BY DEF LogsCreation, leaseVars, Up, LeaseInv
<1>4. StopInv'
  BY DEF LogsCreation, clientVars, StopInv, Settled
<1>5. LogInv'
  BY DEF LogsCreation, leaseVars, Held, Unlogged, LogInv
<1>6. SuccessMeansNothingLost'
  BY DEF LogsCreation, leaseVars, SuccessMeansNothingLost, CleanupStatus
<1> QED
  BY <1>1, <1>2, <1>3, <1>4, <1>5, <1>6

LEMMA ReplaceFailsKeeps ==
    ASSUME ProviderInv, ReplaceFails
    PROVE  ProviderInv'
<1> USE NoSandboxAssumption DEF ProviderInv
<1>1. TypeOK'
  BY DEF ReplaceFails, logVars, clientVars, Lease!Refuse, Lease!Discard, TypeOK
<1>2. HandleInv'
  BY DEF ReplaceFails, clientVars, HandleInv
<1>3. LeaseInv'
  BY DEF ReplaceFails, Lease!Refuse, Lease!Discard, Up, LeaseInv
<1>4. StopInv'
  BY DEF ReplaceFails, clientVars, Lease!Refuse, Lease!Discard, StopInv, Settled
<1>5. LogInv'
  BY DEF ReplaceFails, logVars, Lease!Refuse, Lease!Discard, Held, Unlogged, TypeOK, LeaseInv,
     LogInv
<1>6. SuccessMeansNothingLost'
  BY DEF ReplaceFails, Up, SuccessMeansNothingLost
<1> QED
  BY <1>1, <1>2, <1>3, <1>4, <1>5, <1>6

LEMMA PublishesKeeps ==
    ASSUME ProviderInv, Publishes
    PROVE  ProviderInv'
<1> USE NoSandboxAssumption DEF ProviderInv
<1>1. TypeOK'
  BY DEF Publishes, logVars, clientVars, Lease!Serve, TypeOK
<1>2. HandleInv'
  BY DEF Publishes, clientVars, HandleInv
<1>3. LeaseInv'
  BY DEF Publishes, Lease!Serve, Up, LeaseInv
<1>4. StopInv'
  BY DEF Publishes, clientVars, TypeOK, StopInv, Settled
<1>5. LogInv'
  BY DEF Publishes, logVars, Lease!Serve, LogInv
<1>6. SuccessMeansNothingLost'
  BY DEF Publishes, Up, SuccessMeansNothingLost
<1> QED
  BY <1>1, <1>2, <1>3, <1>4, <1>5, <1>6

LEMMA ReplacesKeeps ==
    ASSUME ProviderInv, Replaces
    PROVE  ProviderInv'
<1> USE NoSandboxAssumption DEF ProviderInv
<1>1. TypeOK'
  BY DEF Replaces, logVars, clientVars, Lease!Ask, TypeOK
<1>2. HandleInv'
  BY DEF Replaces, clientVars, Up, HandleInv
<1>3. LeaseInv'
  BY DEF Replaces, Lease!Ask, Up, LeaseInv
<1>4. StopInv'
  BY DEF Replaces, clientVars, StopInv
<1>5. LogInv'
  BY DEF Replaces, logVars, Lease!Ask, LeaseInv, LogInv
<1>6. SuccessMeansNothingLost'
  BY DEF Replaces, SuccessMeansNothingLost
<1> QED
  BY <1>1, <1>2, <1>3, <1>4, <1>5, <1>6

LEMMA ReclaimsKeeps ==
    ASSUME ProviderInv, Reclaims
    PROVE  ProviderInv'
<1> USE NoSandboxAssumption DEF ProviderInv
<1>1. TypeOK'
  BY DEF Reclaims, logVars, clientVars, Lease!Reclaim, TypeOK
<1>2. HandleInv'
  BY DEF Reclaims, clientVars, HandleInv
<1>3. LeaseInv'
  BY DEF Reclaims, Lease!Reclaim, Up, LeaseInv
<1>4. StopInv'
  BY DEF Reclaims, logVars, clientVars, Lease!Reclaim, StopInv, Settled
<1>5. LogInv'
  BY DEF Reclaims, logVars, Lease!Reclaim, Up, Held, Unlogged, LogInv
<1>6. SuccessMeansNothingLost'
  BY DEF Reclaims, Up, SuccessMeansNothingLost
<1> QED
  BY <1>1, <1>2, <1>3, <1>4, <1>5, <1>6

LEMMA RecordsFailureKeeps ==
    ASSUME ProviderInv, RecordsFailure
    PROVE  ProviderInv'
<1> USE NoSandboxAssumption DEF ProviderInv
<1>1. TypeOK'
  BY DEF RecordsFailure, leaseVars, clientVars, TypeOK
<1>2. HandleInv'
  BY DEF RecordsFailure, clientVars, HandleInv
<1>3. LeaseInv'
  BY DEF RecordsFailure, leaseVars, Up, LeaseInv
<1>4. StopInv'
  BY DEF RecordsFailure, clientVars, StopInv, Settled
<1>5. LogInv'
  BY DEF RecordsFailure, leaseVars, LogInv
<1>6. SuccessMeansNothingLost'
  BY DEF RecordsFailure, SuccessMeansNothingLost, CleanupStatus
<1> QED
  BY <1>1, <1>2, <1>3, <1>4, <1>5, <1>6

LEMMA RetiresKeeps ==
    ASSUME ProviderInv, Retires
    PROVE  ProviderInv'
<1> USE NoSandboxAssumption DEF ProviderInv
<1>1. TypeOK'
  BY DEF Retires, logVars, clientVars, Lease!Retire, TypeOK
<1>2. HandleInv'
  BY DEF Retires, clientVars, Up, HandleInv
<1>3. LeaseInv'
  BY DEF Retires, Lease!Retire, Up, LeaseInv
<1>4. StopInv'
  BY DEF Retires, clientVars, Lease!Retire, StopInv, Settled
<1>5. LogInv'
  BY DEF Retires, logVars, Lease!Retire, Held, Unlogged, TypeOK, LogInv
<1>6. SuccessMeansNothingLost'
  BY DEF Retires, SuccessMeansNothingLost
<1> QED
  BY <1>1, <1>2, <1>3, <1>4, <1>5, <1>6

LEMMA RelayExitsKeeps ==
    ASSUME ProviderInv, RelayExits
    PROVE  ProviderInv'
<1> USE NoSandboxAssumption DEF ProviderInv
<1>1. TypeOK'
  <2>1. RelayTypes'
    BY DyingKeepsTypes DEF RelayExits
  <2> QED
    BY <2>1 DEF RelayExits, logVars, clientVars, TypeOK, RelayTypes
<1>2. HandleInv'
  BY DEF RelayExits, RelayDies, Up, HandleInv
<1>3. LeaseInv'
  BY DEF RelayExits, RelayDies, TypeOK, LeaseInv
<1>4. StopInv'
  BY DEF RelayExits, RelayDies, Settled, StopInv, Settled
<1>5. LogInv'
  BY DEF RelayExits, RelayDies, Held, Unlogged, LogInv
<1>6. SuccessMeansNothingLost'
  BY DEF RelayExits, logVars, RelayDies, Held, Unlogged, TypeOK, LeaseInv, LogInv,
     SuccessMeansNothingLost, CleanupStatus
<1> QED
  BY <1>1, <1>2, <1>3, <1>4, <1>5, <1>6

LEMMA StartAgainKeeps ==
    ASSUME ProviderInv, StartAgain
    PROVE  ProviderInv'
<1> USE NoSandboxAssumption DEF ProviderInv
<1>1. TypeOK'
  BY DEF StartAgain, leaseVars, logVars, TypeOK
<1>2. HandleInv'
  BY DEF StartAgain, HandleInv
<1>3. LeaseInv'
  BY DEF StartAgain, leaseVars, Up, LeaseInv
<1>4. StopInv'
  BY DEF StartAgain, StopInv
<1>5. LogInv'
  BY DEF StartAgain, leaseVars, logVars, Held, Unlogged, LogInv
<1>6. SuccessMeansNothingLost'
  BY DEF StartAgain, Up, SuccessMeansNothingLost
<1> QED
  BY <1>1, <1>2, <1>3, <1>4, <1>5, <1>6

LEMMA LaunchKeeps ==
    ASSUME ProviderInv, Launch
    PROVE  ProviderInv'
<1> USE NoSandboxAssumption DEF ProviderInv
<1>1. TypeOK'
  BY MaxRelaysAssumption DEF Launch, logVars, TypeOK
<1>2. HandleInv'
  BY DEF Launch, HandleInv
<1>3. LeaseInv'
  BY DEF Launch, Up, HandleInv, LeaseInv
<1>4. StopInv'
  BY DEF Launch, Up, HandleInv, StopInv
<1>5. LogInv'
  BY DEF Launch, TypeOK, HandleInv, LeaseInv, LogInv
<1>6. SuccessMeansNothingLost'
  BY DEF Launch, SuccessMeansNothingLost
<1> QED
  BY <1>1, <1>2, <1>3, <1>4, <1>5, <1>6

LEMMA RevertKeeps ==
    ASSUME ProviderInv, Revert
    PROVE  ProviderInv'
<1> USE NoSandboxAssumption DEF ProviderInv
<1>1. TypeOK'
  BY DEF Revert, leaseVars, logVars, TypeOK
<1>2. HandleInv'
  BY DEF Revert, Up, HandleInv
<1>3. LeaseInv'
  BY DEF Revert, leaseVars, Up, LeaseInv
<1>4. StopInv'
  BY DEF Revert, StopInv
<1>5. LogInv'
  BY DEF Revert, leaseVars, logVars, LeaseInv, LogInv
<1>6. SuccessMeansNothingLost'
  BY DEF Revert, leaseVars, SuccessMeansNothingLost
<1> QED
  BY <1>1, <1>2, <1>3, <1>4, <1>5, <1>6

LEMMA StopKeeps ==
    ASSUME ProviderInv, Stop
    PROVE  ProviderInv'
<1> USE NoSandboxAssumption DEF ProviderInv
<1>1. TypeOK'
  BY DEF Stop, leaseVars, logVars, Lease!Close, TypeOK
<1>2. HandleInv'
  BY DEF Stop, HandleInv
<1>3. LeaseInv'
  BY DEF Stop, leaseVars, Lease!Close, Up, LeaseInv
<1>4. StopInv'
  BY DEF Stop, leaseVars, StopInv
<1>5. LogInv'
  BY DEF Stop, leaseVars, logVars, Lease!Close, Held, Unlogged, TypeOK, LogInv
<1>6. SuccessMeansNothingLost'
  BY DEF Stop, leaseVars, logVars, SuccessMeansNothingLost, CleanupStatus
<1> QED
  BY <1>1, <1>2, <1>3, <1>4, <1>5, <1>6

LEMMA BecomesReadyKeeps ==
    ASSUME ProviderInv, BecomesReady
    PROVE  ProviderInv'
<1> USE NoSandboxAssumption DEF ProviderInv
<1>1. TypeOK'
  BY DEF BecomesReady, leaseVars, logVars, TypeOK
<1>2. HandleInv'
  BY DEF BecomesReady, Up, HandleInv
<1>3. LeaseInv'
  BY DEF BecomesReady, leaseVars, Up, LeaseInv
<1>4. StopInv'
  BY DEF BecomesReady, StopInv
<1>5. LogInv'
  BY DEF BecomesReady, leaseVars, logVars, LogInv
<1>6. SuccessMeansNothingLost'
  BY DEF BecomesReady, SuccessMeansNothingLost
<1> QED
  BY <1>1, <1>2, <1>3, <1>4, <1>5, <1>6

LEMMA GivesUpStartingKeeps ==
    ASSUME ProviderInv, GivesUpStarting
    PROVE  ProviderInv'
<1> USE NoSandboxAssumption DEF ProviderInv
<1>1. TypeOK'
  BY DEF GivesUpStarting, leaseVars, logVars, TypeOK
<1>2. HandleInv'
  BY DEF GivesUpStarting, Up, HandleInv
<1>3. LeaseInv'
  BY DEF GivesUpStarting, leaseVars, Up, LeaseInv
<1>4. StopInv'
  BY DEF GivesUpStarting, StopInv
<1>5. LogInv'
  BY DEF GivesUpStarting, leaseVars, logVars, Held, Unlogged, LogInv
<1>6. SuccessMeansNothingLost'
  BY DEF GivesUpStarting, leaseVars, logVars, SuccessMeansNothingLost, CleanupStatus
<1> QED
  BY <1>1, <1>2, <1>3, <1>4, <1>5, <1>6

LEMMA RevertEndsKeeps ==
    ASSUME ProviderInv, RevertEnds
    PROVE  ProviderInv'
<1> USE NoSandboxAssumption DEF ProviderInv
<1>1. TypeOK'
  BY DEF RevertEnds, leaseVars, logVars, TypeOK
<1>2. HandleInv'
  BY DEF RevertEnds, Up, HandleInv
<1>3. LeaseInv'
  BY DEF RevertEnds, leaseVars, Up, LeaseInv
<1>4. StopInv'
  BY DEF RevertEnds, StopInv
<1>5. LogInv'
  BY DEF RevertEnds, leaseVars, logVars, Held, Unlogged, LogInv
<1>6. SuccessMeansNothingLost'
  BY DEF RevertEnds, leaseVars, logVars, SuccessMeansNothingLost, CleanupStatus
<1> QED
  BY <1>1, <1>2, <1>3, <1>4, <1>5, <1>6

LEMMA StopAnsweredKeeps ==
    ASSUME ProviderInv, StopAnswered
    PROVE  ProviderInv'
<1> USE NoSandboxAssumption DEF ProviderInv
<1>1. TypeOK'
  BY DEF StopAnswered, leaseVars, logVars, TypeOK
<1>2. HandleInv'
  BY DEF StopAnswered, Up, HandleInv
<1>3. LeaseInv'
  BY DEF StopAnswered, leaseVars, Up, LeaseInv
<1>4. StopInv'
  BY DEF StopAnswered, leaseVars, logVars, Answered, Settled, StopInv, Settled
<1>5. LogInv'
  BY DEF StopAnswered, leaseVars, logVars, Held, Unlogged, LogInv
<1>6. SuccessMeansNothingLost'
  BY DEF StopAnswered, leaseVars, logVars, SuccessMeansNothingLost, CleanupStatus
<1> QED
  BY <1>1, <1>2, <1>3, <1>4, <1>5, <1>6

LEMMA StopTimesOutKeeps ==
    ASSUME ProviderInv, StopTimesOut
    PROVE  ProviderInv'
<1> USE NoSandboxAssumption DEF ProviderInv
<1>1. TypeOK'
  BY DEF StopTimesOut, leaseVars, logVars, TypeOK
<1>2. HandleInv'
  BY DEF StopTimesOut, Up, HandleInv
<1>3. LeaseInv'
  BY DEF StopTimesOut, leaseVars, Up, LeaseInv
<1>4. StopInv'
  BY DEF StopTimesOut, leaseVars, logVars, StopInv, Settled
<1>5. LogInv'
  BY DEF StopTimesOut, leaseVars, logVars, Held, Unlogged, LogInv
<1>6. SuccessMeansNothingLost'
  BY DEF StopTimesOut, leaseVars, logVars, SuccessMeansNothingLost, CleanupStatus
<1> QED
  BY <1>1, <1>2, <1>3, <1>4, <1>5, <1>6

LEMMA TerminatesKeeps ==
    ASSUME ProviderInv, Terminates
    PROVE  ProviderInv'
<1> USE NoSandboxAssumption DEF ProviderInv
<1>1. TypeOK'
  <2>1. RelayTypes'
    <3>1. CASE relay = "booting"
      <4>1. RelayDies
        BY <3>1 DEF Terminates
      <4> QED
        BY <4>1, DyingKeepsTypes
    <3>2. CASE relay = "serving"
      BY <3>2 DEF Terminates, Lease!Close, TypeOK, RelayTypes
    <3>3. CASE relay \notin {"booting", "serving"}
      BY <3>3 DEF Terminates, leaseVars, TypeOK, RelayTypes
    <3> QED
      BY <3>1, <3>2, <3>3
  <2> QED
    BY <2>1 DEF Terminates, logVars, TypeOK, RelayTypes
<1>2. HandleInv'
  BY DEF Terminates, Up, HandleInv
<1>3. LeaseInv'
  BY DEF Terminates, leaseVars, RelayDies, Lease!Close, Up, LeaseInv
<1>4. StopInv'
  BY DEF Terminates, leaseVars, logVars, RelayDies, StopInv, Settled
<1>5. LogInv'
  BY DEF Terminates, leaseVars, logVars, RelayDies, Lease!Close, Held, Unlogged, LogInv
<1>6. SuccessMeansNothingLost'
  BY DEF Terminates, leaseVars, logVars, RelayDies, Held, Unlogged, LeaseInv, LogInv,
     SuccessMeansNothingLost, CleanupStatus
<1> QED
  BY <1>1, <1>2, <1>3, <1>4, <1>5, <1>6

LEMMA KillsKeeps ==
    ASSUME ProviderInv, Kills
    PROVE  ProviderInv'
<1> USE NoSandboxAssumption DEF ProviderInv
<1>1. TypeOK'
  <2>1. RelayTypes'
    BY DyingKeepsTypes DEF Kills
  <2> QED
    BY <2>1 DEF Kills, logVars, clientVars, TypeOK, RelayTypes
<1>2. HandleInv'
  BY DEF Kills, RelayDies, Up, HandleInv
<1>3. LeaseInv'
  BY DEF Kills, RelayDies, LeaseInv
<1>4. StopInv'
  BY DEF Kills, RelayDies, StopInv, Settled
<1>5. LogInv'
  BY DEF Kills, RelayDies, Up, Held, Unlogged, LogInv
<1>6. SuccessMeansNothingLost'
  BY DEF Kills, logVars, RelayDies, Held, Unlogged, LeaseInv, LogInv, SuccessMeansNothingLost,
     CleanupStatus
<1> QED
  BY <1>1, <1>2, <1>3, <1>4, <1>5, <1>6

LEMMA CallEndsKeeps ==
    ASSUME ProviderInv, CallEnds
    PROVE  ProviderInv'
<1> USE NoSandboxAssumption DEF ProviderInv
<1>1. TypeOK'
  BY DEF CallEnds, leaseVars, logVars, TypeOK
<1>2. HandleInv'
  BY DEF CallEnds, Up, HandleInv
<1>3. LeaseInv'
  BY DEF CallEnds, leaseVars, LeaseInv
<1>4. StopInv'
  BY DEF CallEnds, leaseVars, StopInv, Settled, LeaseInv
<1>5. LogInv'
  BY DEF CallEnds, leaseVars, Held, Unlogged, LeaseInv, LogInv
<1>6. SuccessMeansNothingLost'
  BY DEF CallEnds, leaseVars, logVars, SuccessMeansNothingLost, CleanupStatus
<1> QED
  BY <1>1, <1>2, <1>3, <1>4, <1>5, <1>6

-----------------------------------------------------------------------------
LEMMA ProviderStepKeeps ==
    ASSUME ProviderInv, [Next]_vars
    PROVE  ProviderInv'
<1>1. CASE Relay
  BY <1>1, DeliversKeeps, LogsCreationKeeps, ReplaceFailsKeeps, PublishesKeeps, ReplacesKeeps,
     ReclaimsKeeps, RecordsFailureKeeps, RetiresKeeps, RelayExitsKeeps DEF Relay
<1>2. CASE Call
  BY <1>2, StartAgainKeeps, LaunchKeeps, RevertKeeps, StopKeeps DEF Call
<1>3. CASE Client
  BY <1>3, BecomesReadyKeeps, GivesUpStartingKeeps, RevertEndsKeeps, StopAnsweredKeeps,
     StopTimesOutKeeps, TerminatesKeeps, KillsKeeps, CallEndsKeeps DEF Client
<1>4. CASE UNCHANGED vars
  BY <1>4 DEF vars, leaseVars, logVars, clientVars, ProviderInv, TypeOK, Up, HandleInv, LeaseInv,
     StopInv, Settled, LogInv, Unlogged, Held, SuccessMeansNothingLost, CleanupStatus
<1> QED
  BY <1>1, <1>2, <1>3, <1>4 DEF Next

\* ProviderInv holds of a provider, its relays and their sandboxes, however
\* many relays it starts and whenever it gives up on one.
THEOREM ProviderInvariance == Spec => []ProviderInv
<1>1. Init => ProviderInv
  BY ProviderInitially
<1>2. ProviderInv /\ [Next]_vars => ProviderInv'
  BY ProviderStepKeeps
<1> QED
  BY <1>1, <1>2, PTL DEF Spec

\* Every variable of the provider and its relay keeps its type.
THEOREM ProviderTypeCorrectness == Spec => []TypeOK
<1>1. ProviderInv => TypeOK
  BY DEF ProviderInv
<1> QED
  BY <1>1, ProviderInvariance, PTL

\* A provider that gave up its handle (provider.py 119-142, 161-183) has no
\* relay process running.
THEOREM HandleCoversRelay == Spec => []NoRelayIsLeft
<1>1. ProviderInv => NoRelayIsLeft
  BY DEF ProviderInv, HandleInv, NoRelayIsLeft
<1> QED
  BY <1>1, ProviderInvariance, PTL

\* "success" in the log of a relay (campaign.py 48-69) means that no sandbox
\* of it is left, at whichever moment it was killed.
THEOREM SuccessIsTrue == Spec => []SuccessMeansNothingLost
<1>1. ProviderInv => SuccessMeansNothingLost
  BY DEF ProviderInv
<1> QED
  BY <1>1, ProviderInvariance, PTL

\* After the answer to /stop (provider.py 177-183) no sandbox is lost whose
\* failed cleanup is not on record.
THEOREM AnswerIsSafe == Spec => AnsweredLosesNothing
<1>1. ProviderInv /\ [Next]_vars =>
        [outcome = "stopped" => lost' \ lost \subseteq failed']_vars
  <2> SUFFICES ASSUME ProviderInv, Next, outcome = "stopped"
               PROVE  lost' \ lost \subseteq failed'
    OBVIOUS
  <2>1. Held \subseteq failed
    BY DEF ProviderInv, StopInv, Settled, Held
  <2>2. CASE RelayDies /\ UNCHANGED logVars
    BY <2>1, <2>2 DEF RelayDies, logVars
  <2> QED
    BY <2>2 DEF Next, Relay, Call, Client, Delivers, LogsCreation, ReplaceFails, Publishes,
       Replaces, Reclaims, RecordsFailure, Retires, RelayExits, StartAgain, Launch, Revert, Stop,
       BecomesReady, GivesUpStarting, RevertEnds, StopAnswered, StopTimesOut, Terminates, Kills,
       CallEnds
<1> QED
  BY <1>1, ProviderInvariance, PTL DEF Spec, AnsweredLosesNothing
=============================================================================
