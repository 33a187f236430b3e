--------------------------- MODULE CampaignProofs ---------------------------
(***************************************************************************)
(* Theorems about Campaign, for any tasks, any limit of attempts, any      *)
(* number of sessions, any results and any combination of faults.          *)
(***************************************************************************)
EXTENDS Campaign, SequenceTheorems, FiniteSetTheorems, TLAPS

\* The lines an attempt can have.
Planned == <<"PLANNED">>
Begun == <<"PLANNED", "STARTED">>
Judged(v) == <<"PLANNED", "STARTED", v>>
Lines == {<<>>, Planned, Begun} \cup {Judged(v) : v \in Terminals}

\* Those of an attempt that another one may follow.
Superseded == {Begun} \cup {Judged(v) : v \in InvalidReasons}

LEMMA LinesGrow ==
  /\ Append(<<>>, "PLANNED") = Planned
  /\ Append(Planned, "STARTED") = Begun
  /\ \A v \in Terminals : Append(Begun, v) = Judged(v)
<1>1. Append(<<>>, "PLANNED") = Planned
  BY DEF Planned
<1>2. Append(Planned, "STARTED") = Begun
  <2>1. Planned \in Seq(Events) /\ Begun \in Seq(Events) /\ "STARTED" \in Events
    BY DEF Planned, Begun, Events
  <2>2. Len(Planned) = 1 /\ Len(Begun) = 2 /\ Planned[1] = Begun[1] /\ Begun[2] = "STARTED"
    BY DEF Planned, Begun
  <2>3. Len(Begun) = Len(Planned) + 1 /\ Begun[Len(Begun)] = "STARTED"
    BY <2>2
  <2>4. \A i \in 1..Len(Planned) : Begun[i] = Planned[i]
    BY <2>2
  <2> QED
    BY <2>1, <2>3, <2>4
<1>3. ASSUME NEW v \in Terminals
      PROVE  Append(Begun, v) = Judged(v)
  <2>1. Begun \in Seq(Events) /\ Judged(v) \in Seq(Events) /\ v \in Events
    BY DEF Begun, Judged, Events
  <2>2. /\ Len(Begun) = 2 /\ Len(Judged(v)) = 3
        /\ Begun[1] = Judged(v)[1] /\ Begun[2] = Judged(v)[2] /\ Judged(v)[3] = v
    BY DEF Begun, Judged
  <2>3. Len(Judged(v)) = Len(Begun) + 1 /\ Judged(v)[Len(Judged(v))] = v
    BY <2>2
  <2>4. \A i \in 1..Len(Begun) : Judged(v)[i] = Begun[i]
    BY <2>2
  <2> QED
    BY <2>1, <2>3, <2>4
<1> QED
  BY <1>1, <1>2, <1>3

LEMMA LinesDiffer ==
  /\ Planned # <<>> /\ Begun # <<>> /\ Begun # Planned
  /\ \A v : Judged(v) \notin {<<>>, Planned, Begun}
  /\ \A v, w : Judged(v) = Judged(w) => v = w
<1>1. Planned # <<>> /\ Begun # <<>> /\ Begun # Planned
  BY DEF Planned, Begun
<1>2. \A v : Judged(v) \notin {<<>>, Planned, Begun}
  BY DEF Planned, Begun, Judged
<1>3. ASSUME NEW v, NEW w, Judged(v) = Judged(w)
      PROVE  v = w
  BY <1>3 DEF Judged
<1> QED
  BY <1>1, <1>2, <1>3

LEMMA LinesEnd ==
  /\ \A e : ~EndsWith(<<>>, e)
  /\ \A e : EndsWith(Planned, e) <=> e = "PLANNED"
  /\ \A e : EndsWith(Begun, e) <=> e = "STARTED"
  /\ \A v, e : EndsWith(Judged(v), e) <=> e = v
<1>1. \A e : ~EndsWith(<<>>, e)
  BY DEF EndsWith
<1>2. \A e : EndsWith(Planned, e) <=> e = "PLANNED"
  BY DEF EndsWith, Planned
<1>3. \A e : EndsWith(Begun, e) <=> e = "STARTED"
  BY DEF EndsWith, Begun
<1>4. \A v, e : EndsWith(Judged(v), e) <=> e = v
  BY DEF EndsWith, Judged
<1> QED
  BY <1>1, <1>2, <1>3, <1>4

\* What a reader of the file finds in the lines of an attempt.
LEMMA LinesRead ==
  ASSUME NEW f, NEW t, NEW a, NEW e
  PROVE  /\ f[t][a] = <<>> => ~Wrote(f, t, a, e)
         /\ f[t][a] = Planned => (Wrote(f, t, a, e) <=> e = "PLANNED")
         /\ f[t][a] = Begun => (Wrote(f, t, a, e) <=> e \in {"PLANNED", "STARTED"})
         /\ \A v : f[t][a] = Judged(v) =>
              (Wrote(f, t, a, e) <=> e \in {"PLANNED", "STARTED", v})
<1>1. f[t][a] = <<>> => ~Wrote(f, t, a, e)
  BY DEF Wrote
<1>2. f[t][a] = Planned => (Wrote(f, t, a, e) <=> e = "PLANNED")
  BY DEF Wrote, Planned
<1>3. f[t][a] = Begun => (Wrote(f, t, a, e) <=> e \in {"PLANNED", "STARTED"})
  BY DEF Wrote, Begun
<1>4. ASSUME NEW v, f[t][a] = Judged(v)
      PROVE  Wrote(f, t, a, e) <=> e \in {"PLANNED", "STARTED", v}
  <2>1. DOMAIN Judged(v) = 1..3 /\ Judged(v)[1] = "PLANNED" /\ Judged(v)[2] = "STARTED"
        /\ Judged(v)[3] = v
    BY DEF Judged
  <2> QED
    BY <1>4, <2>1 DEF Wrote
<1> QED
  BY <1>1, <1>2, <1>3, <1>4

-----------------------------------------------------------------------------
(* The file.                                                               *)

\* m is the latest attempt of the task, 0 before the first.
IsLatest(t, m) ==
  /\ m # 0 => file[t][m] # <<>>
  /\ \A a \in Attempts : a > m => file[t][a] = <<>>

\* Every attempt before one with lines was begun and is not valid.
LedgerInv ==
  /\ file \in [Tasks -> [Attempts -> Lines]]
  /\ \A t \in Tasks : \A a, b \in Attempts :
       b < a /\ file[t][a] # <<>> => file[t][b] \in Superseded
  /\ \A t \in Tasks : \E m \in 0 .. MAX_ATTEMPTS : IsLatest(t, m)

\* An attempt the task may make next.
Offered(t, a) ==
  /\ file[t][a] = <<>> /\ IsLatest(t, a - 1)
  /\ a > 1 => file[t][a - 1] \in Superseded

IsValid(t) == \E a \in Attempts : file[t][a] = Judged("valid")

\* Attempt a of t has the lines h now, and is its latest; nothing else changed.
Grown(t, a, h) ==
  /\ file' \in [Tasks -> [Attempts -> Lines]]
  /\ file'[t][a] = h /\ IsLatest(t, a)'
  /\ \A b \in Attempts : b # a => file'[t][b] = file[t][b]
  /\ \A u \in Tasks : u # t => file'[u] = file[u]

\* What a step may do to the file.
LedgerStep ==
  \/ file' = file
  \/ \E t \in Tasks, a \in Attempts :
       \/ Offered(t, a) /\ ~IsValid(t) /\ Grown(t, a, Planned)
       \/ file[t][a] = Planned /\ IsLatest(t, a) /\ Grown(t, a, Begun)
       \/ /\ file[t][a] = Begun /\ IsLatest(t, a)
          /\ \E v \in Terminals : Grown(t, a, Judged(v))

LEMMA TerminalTasksAre ==
  ASSUME LedgerInv, NEW t \in Tasks
  PROVE  t \in TerminalTasks(file) <=> IsValid(t)
<1>1. ASSUME NEW a \in Attempts
      PROVE  Wrote(file, t, a, "valid") <=> file[t][a] = Judged("valid")
  <2>1. file[t][a] \in Lines
    BY DEF LedgerInv
  <2>2. CASE file[t][a] \in {<<>>, Planned, Begun}
    BY <2>2, LinesRead
  <2>3. CASE \E v \in Terminals : file[t][a] = Judged(v)
    BY <2>3, LinesRead
  <2> QED
    BY <2>1, <2>2, <2>3 DEF Lines
<1> QED
  BY <1>1 DEF TerminalTasks, IsValid

LEMMA LatestIs ==
  ASSUME NEW t \in Tasks, NEW m \in 0 .. MAX_ATTEMPTS, IsLatest(t, m)
  PROVE  LatestAttempt(file, t) = m
<1> DEFINE S == {0} \cup {a \in Attempts : file[t][a] # <<>>}
<1>1. m \in S /\ \A a \in S : a \in Nat /\ m >= a
  BY DEF IsLatest, Attempts
<1>2. \A x \in S : (\A y \in S : x >= y) => x = m
  BY <1>1
<1> HIDE DEF S
<1>3. Max(S) = m
  BY <1>2 DEF Max
<1> QED
  BY <1>3 DEF LatestAttempt, S

\* append() of what it accepts, for an attempt the children make, keeps the
\* file in order.
LEMMA LedgerGrows ==
  ASSUME LedgerInv, NEW t \in Tasks, NEW a \in Attempts, NEW h \in Lines,
         IF h = Planned THEN Offered(t, a) ELSE file[t][a] # <<>> /\ IsLatest(t, a),
         h # <<>>, file' = [file EXCEPT ![t][a] = h]
  PROVE  LedgerInv' /\ Grown(t, a, h)
<1> USE MaxAttemptsAssumption DEF Attempts
<1>1. /\ file' \in [Tasks -> [Attempts -> Lines]] /\ file'[t][a] = h
      /\ \A b \in Attempts : b # a => file'[t][b] = file[t][b]
      /\ \A u \in Tasks : u # t => file'[u] = file[u]
  BY DEF LedgerInv
<1>2. IsLatest(t, a)'
  BY <1>1 DEF IsLatest, Offered
<1>3. ASSUME NEW b \in Attempts, NEW c \in Attempts, c < b, file'[t][b] # <<>>
      PROVE  file'[t][c] \in Superseded
  <2>1. b <= a
    BY <1>2, <1>3 DEF IsLatest
  <2>2. CASE b = a /\ h = Planned
    <3>1. a - 1 \in Attempts /\ file[t][a - 1] # <<>> /\ file[t][a - 1] \in Superseded
      BY <1>3, <2>2 DEF Offered, IsLatest
    <3>2. c = a - 1 \/ c < a - 1
      BY <1>3, <2>2
    <3> QED
      BY <3>1, <3>2 DEF LedgerInv
  <2>3. CASE b = a /\ h # Planned
    BY <1>3, <2>3 DEF LedgerInv
  <2>4. CASE b < a
    BY <1>3, <2>4 DEF LedgerInv
  <2> QED
    BY <2>1, <2>2, <2>3, <2>4
<1>4. ASSUME NEW u \in Tasks
      PROVE  \E m \in 0 .. MAX_ATTEMPTS : IsLatest(u, m)'
  BY <1>2 DEF LedgerInv, IsLatest
<1> QED
  BY <1>2, <1>3, <1>4 DEF LedgerInv, Grown

-----------------------------------------------------------------------------
(* The children.                                                           *)

Labels == {"idle", "queued"} \cup Inside \cup Finished

ChildTypes ==
  /\ pc \in [Tasks -> Labels]
  /\ attempt \in [Tasks -> 0 .. MAX_ATTEMPTS]
  /\ runner \in [Tasks -> {"none", "up", "zero", "nonzero"}]
  /\ result \in [Tasks -> ResultKinds]
  /\ sandbox \in [Tasks -> {"none", "success", "failed", "left"}]

\* The lines of its attempt tell where a child is.
ChildInv(t) ==
  /\ pc[t] = "queued" =>
       attempt[t] \in Attempts /\ (file[t][attempt[t]] # <<>> \/ Offered(t, attempt[t]))
  /\ pc[t] = "spawning" =>
       /\ attempt[t] \in Attempts /\ IsLatest(t, attempt[t])
       /\ file[t][attempt[t]] = Planned
  /\ pc[t] \in {"waiting", "terminating", "killing"} =>
       /\ attempt[t] \in Attempts /\ IsLatest(t, attempt[t])
       /\ file[t][attempt[t]] = Begun

\* The evidence of a verdict is as it was when the verdict was written.
EvidenceInv(t) ==
  /\ IsValid(t) => runner[t] = "zero" /\ result[t] = "finite" /\ sandbox[t] = "success"
  /\ \A a \in Attempts : \A v \in Terminals :
       IsLatest(t, a) /\ file[t][a] = Judged(v) => runner[t] # "up"

CampaignInv ==
  ChildTypes /\ LedgerInv /\ \A t \in Tasks : ChildInv(t) /\ EvidenceInv(t)

\* A task whose lines and evidence did not change, and whose child is where it
\* was or is over, is as before.
LEMMA Untouched ==
  ASSUME NEW u \in Tasks, ChildInv(u), EvidenceInv(u), ChildTypes,
         file'[u] = file[u],
         \/ pc'[u] = pc[u] /\ attempt'[u] = attempt[u]
         \/ pc'[u] \in {"idle"} \cup Finished
         \/ pc'[u] \in {"terminating", "killing"} /\ pc[u] \in {"waiting", "terminating"}
            /\ attempt'[u] = attempt[u],
         \/ runner'[u] = runner[u] /\ result'[u] = result[u] /\ sandbox'[u] = sandbox[u]
         \/ ~IsValid(u) /\ runner'[u] # "up"
         \/ ~IsValid(u) /\ \A a \in Attempts : \A v \in Terminals :
                              ~(IsLatest(u, a) /\ file[u][a] = Judged(v))
  PROVE  ChildInv(u)' /\ EvidenceInv(u)'
<1>1. ChildInv(u)'
  BY DEF ChildInv, IsLatest, Offered, Inside, Finished
<1>2. EvidenceInv(u)'
  BY DEF EvidenceInv, IsLatest, IsValid
<1> QED
  BY <1>1, <1>2

\* A child inside the semaphore works on an attempt that has no verdict yet.
LEMMA Unjudged ==
  ASSUME CampaignInv, NEW t \in Tasks, pc[t] \in Inside
  PROVE  /\ ~IsValid(t)
         /\ \A a \in Attempts : \A v \in Terminals :
              ~(IsLatest(t, a) /\ file[t][a] = Judged(v))
<1> DEFINE m == attempt[t]
<1>1. /\ m \in Attempts /\ IsLatest(t, m) /\ file[t][m] \in {Planned, Begun}
  BY DEF CampaignInv, ChildInv, Inside
<1> HIDE DEF m
<1>2. file[t][m] # <<>> /\ \A v : file[t][m] # Judged(v)
  BY <1>1, LinesDiffer
<1>3. ASSUME NEW a \in Attempts, file[t][a] = Judged("valid")
      PROVE  FALSE
  <2>1. a < m \/ a = m \/ a > m
    BY <1>1 DEF Attempts
  <2>2. CASE a < m
    <3>1. Judged("valid") \in Superseded
      BY <1>1, <1>2, <1>3, <2>2 DEF CampaignInv, LedgerInv
    <3> QED
      BY <3>1, LinesDiffer DEF Superseded, InvalidReasons
  <2>3. CASE a > m
    BY <1>1, <1>3, <2>3, LinesDiffer DEF IsLatest
  <2> QED
    BY <1>2, <1>3, <2>1, <2>2, <2>3
<1>4. ASSUME NEW a \in Attempts, NEW v \in Terminals, IsLatest(t, a), file[t][a] = Judged(v)
      PROVE  FALSE
  <2>1. file[t][a] # <<>> /\ a # m
    BY <1>2, <1>4, LinesDiffer
  <2>2. a < m \/ a > m
    BY <1>1, <2>1 DEF Attempts
  <2> QED
    BY <1>1, <1>2, <1>4, <2>1, <2>2 DEF IsLatest
<1> QED
  BY <1>3, <1>4 DEF IsValid

\* A step of one child: the others are as before.
LEMMA OneChild ==
  ASSUME CampaignInv, NEW t \in Tasks, ChildTypes', LedgerInv',
         ChildInv(t)' /\ EvidenceInv(t)',
         \A u \in Tasks : u # t =>
           /\ file'[u] = file[u] /\ pc'[u] = pc[u] /\ attempt'[u] = attempt[u]
           /\ runner'[u] = runner[u] /\ result'[u] = result[u] /\ sandbox'[u] = sandbox[u]
  PROVE  CampaignInv'
<1>1. ASSUME NEW u \in Tasks, u # t
      PROVE  ChildInv(u)' /\ EvidenceInv(u)'
  BY Untouched DEF CampaignInv
<1> QED
  BY <1>1 DEF CampaignInv

\* What append() of a child does.
LEMMA AppendEventDoes ==
  ASSUME CampaignInv, NEW t \in Tasks, NEW event \in Events, NEW next \in Labels,
         AppendEvent(t, event, next), pc[t] \in {"queued"} \cup Inside,
         event = "PLANNED" => pc[t] = "queued",
         event # "PLANNED" => pc[t] # "queued"
  PROVE  /\ pc' \in [Tasks -> Labels] /\ \A u \in Tasks : u # t => pc'[u] = pc[u]
         /\ \/ file' = file /\ pc'[t] \in {"failed", "refused"}
            \/ LET a == attempt[t] IN
                 /\ a \in Attempts /\ LedgerInv' /\ LedgerStep /\ pc'[t] \in {next, "failed"}
                 /\ event = "PLANNED" => ~IsValid(t) /\ Grown(t, a, Planned)
                 /\ event = "STARTED" => Grown(t, a, Begun)
                 /\ event \in Terminals => file[t][a] = Begun /\ Grown(t, a, Judged(event))
<1> USE DEF CampaignInv
<1> DEFINE a == attempt[t]
<1>1. a \in Attempts
  BY DEF ChildInv, Inside
<1>2. pc' \in [Tasks -> Labels] /\ \A u \in Tasks : u # t => pc'[u] = pc[u]
  BY DEF AppendEvent, Goto, ChildTypes, Labels, Finished
<1>3. CASE file' = file /\ pc'[t] \in {"failed", "refused"}
  BY <1>2, <1>3
<1>4. CASE /\ Accepts(file, t, a, event) /\ file' = Appended(file, t, a, event)
           /\ pc'[t] \in {next, "failed"}
  <2>1. CASE event = "PLANNED"
    <3>1. file[t][a] = <<>> /\ ~IsValid(t)
      BY <1>4, <2>1, TerminalTasksAre DEF Accepts
    <3>2. Offered(t, a)
      BY <2>1, <3>1 DEF ChildInv
    <3>3. file' = [file EXCEPT ![t][a] = Planned]
      BY <1>4, <2>1, <3>1, LinesGrow DEF Appended
    <3>4. LedgerInv' /\ Grown(t, a, Planned)
      BY <1>1, <3>2, <3>3, LedgerGrows, LinesDiffer DEF Lines
    <3> QED
      BY <1>1, <1>2, <1>4, <2>1, <3>1, <3>2, <3>4 DEF LedgerStep, Terminals, InvalidReasons
  <2>2. CASE event = "STARTED"
    <3>1. file[t][a] = Planned
      <4>1. EndsWith(file[t][a], "PLANNED")
        BY <1>4, <2>2 DEF Accepts
      <4> QED
        BY <2>2, <4>1, LinesEnd DEF ChildInv, Inside
    <3>2. IsLatest(t, a)
      BY <2>2 DEF ChildInv, Inside
    <3>3. file' = [file EXCEPT ![t][a] = Begun]
      BY <1>4, <2>2, <3>1, LinesGrow DEF Appended
    <3>4. LedgerInv' /\ Grown(t, a, Begun)
      BY <1>1, <3>1, <3>2, <3>3, LedgerGrows, LinesDiffer DEF Lines
    <3> QED
      BY <1>1, <1>2, <1>4, <2>2, <3>1, <3>2, <3>4 DEF LedgerStep, Terminals, InvalidReasons
  <2>3. CASE event \in Terminals
    <3>1. file[t][a] = Begun
      <4>1. EndsWith(file[t][a], "STARTED")
        BY <1>4, <2>3 DEF Accepts, Terminals, InvalidReasons
      <4> QED
        BY <2>3, <4>1, LinesEnd DEF ChildInv, Inside, Terminals, InvalidReasons
    <3>2. IsLatest(t, a)
      BY <2>3 DEF ChildInv, Inside, Terminals, InvalidReasons
    <3>3. file' = [file EXCEPT ![t][a] = Judged(event)]
      BY <1>4, <2>3, <3>1, LinesGrow DEF Appended
    <3>4. LedgerInv' /\ Grown(t, a, Judged(event))
      BY <1>1, <2>3, <3>1, <3>2, <3>3, LedgerGrows, LinesDiffer DEF Lines
    <3> QED
      BY <1>1, <1>2, <1>4, <2>3, <3>1, <3>2, <3>4 DEF LedgerStep, Terminals, InvalidReasons
  <2> QED
    BY <2>1, <2>2, <2>3 DEF Events
<1> QED
  BY <1>3, <1>4 DEF AppendEvent, Goto, ChildTypes

-----------------------------------------------------------------------------
(* The steps of the children.                                              *)

LEMMA CampaignInitially == Init => CampaignInv
<1> SUFFICES ASSUME Init PROVE CampaignInv
  OBVIOUS
<1> USE MaxAttemptsAssumption DEF Init
<1>1. ChildTypes
  BY DEF ChildTypes, Labels, ResultKinds
<1>2. \A t \in Tasks : \A a \in Attempts : file[t][a] = <<>>
  BY DEF EmptyFile
<1>3. LedgerInv
  <2>1. file \in [Tasks -> [Attempts -> Lines]]
    BY DEF EmptyFile, Lines
  <2>2. \A t \in Tasks : IsLatest(t, 0)
    BY <1>2 DEF IsLatest
  <2> QED
    BY <1>2, <2>1, <2>2 DEF LedgerInv
<1>4. ASSUME NEW t \in Tasks
      PROVE  ChildInv(t) /\ EvidenceInv(t)
  <2>1. ChildInv(t)
    BY DEF ChildInv
  <2>2. EvidenceInv(t)
    BY <1>2, LinesDiffer DEF EvidenceInv, IsValid
  <2> QED
    BY <2>1, <2>2
<1> QED
  BY <1>1, <1>3, <1>4 DEF CampaignInv

\* The lines of every task stay, and so does what they say of the children.
LEMMA SameFile ==
  ASSUME CampaignInv, file' = file, ChildTypes',
         \A u \in Tasks :
           /\ \/ pc'[u] = pc[u] /\ attempt'[u] = attempt[u]
              \/ pc'[u] \in {"idle"} \cup Finished
              \/ pc'[u] \in {"terminating", "killing"} /\ pc[u] \in {"waiting", "terminating"}
                 /\ attempt'[u] = attempt[u]
           /\ \/ runner'[u] = runner[u] /\ result'[u] = result[u] /\ sandbox'[u] = sandbox[u]
              \/ ~IsValid(u) /\ runner'[u] # "up"
              \/ ~IsValid(u) /\ \A a \in Attempts : \A v \in Terminals :
                                   ~(IsLatest(u, a) /\ file[u][a] = Judged(v))
  PROVE  CampaignInv' /\ LedgerStep
<1>1. LedgerInv'
  BY DEF CampaignInv, LedgerInv, IsLatest
<1>2. ASSUME NEW u \in Tasks
      PROVE  ChildInv(u)' /\ EvidenceInv(u)'
  BY Untouched DEF CampaignInv
<1> QED
  BY <1>1, <1>2 DEF CampaignInv, LedgerStep

\* A runner that is up has no verdict to lose.
LEMMA UpIsUnjudged ==
  ASSUME CampaignInv, NEW t \in Tasks, runner[t] = "up"
  PROVE  /\ ~IsValid(t)
         /\ \A a \in Attempts : \A v \in Terminals :
              ~(IsLatest(t, a) /\ file[t][a] = Judged(v))
BY DEF CampaignInv, EvidenceInv

LEMMA VerdictIs ==
  ASSUME CampaignInv, NEW t \in Tasks, NEW cause
  PROVE  /\ Verdict(t, cause) \in Terminals
         /\ Verdict(t, cause) = "valid" =>
              runner[t] = "zero" /\ result[t] = "finite" /\ sandbox[t] = "success"
<1>1. result[t] \in ResultKinds
  BY DEF CampaignInv, ChildTypes
<1> QED
  BY <1>1 DEF Verdict, Terminals, InvalidReasons, ResultKinds

\* The end of a child whose runner is over.
LEMMA Concludes ==
  ASSUME CampaignInv, NEW t \in Tasks, NEW cause,
         pc[t] \in {"waiting", "terminating", "killing"}, runner[t] # "up",
         Conclude(t, cause), attempt' = attempt, UNCHANGED worldVars
  PROVE  CampaignInv' /\ LedgerStep
<1> DEFINE verdict == Verdict(t, cause)
           next == IF cause = "interrupted" THEN "cancelled" ELSE "done"
           a == attempt[t]
<1>0. /\ runner' = runner /\ result' = result /\ sandbox' = sandbox
      /\ pc[t] \in Inside /\ t \in DOMAIN pc
  BY DEF worldVars, Inside, CampaignInv, ChildTypes
<1>1. verdict \in Terminals /\ verdict \in Events /\ next \in Labels /\ next \in Finished
  BY VerdictIs DEF Events, Labels, Finished
<1>2. CASE file' = file /\ Goto(t, "failed")
  <2>1. ChildTypes' /\ pc'[t] = "failed" /\ \A u \in Tasks : u # t => pc'[u] = pc[u]
    BY <1>0, <1>2 DEF CampaignInv, ChildTypes, Goto, Labels, Finished
  <2> QED
    BY <1>0, <1>2, <2>1, SameFile DEF Finished
<1>3. CASE AppendEvent(t, verdict, next)
  <2> HIDE DEF verdict, next
  <2>0. verdict # "PLANNED" /\ pc[t] # "queued" /\ verdict # "STARTED"
    BY <1>1 DEF Terminals, InvalidReasons
  <2>1. /\ pc' \in [Tasks -> Labels] /\ \A u \in Tasks : u # t => pc'[u] = pc[u]
        /\ \/ file' = file /\ pc'[t] \in {"failed", "refused"}
           \/ /\ a \in Attempts /\ LedgerInv' /\ LedgerStep /\ pc'[t] \in {next, "failed"}
              /\ file[t][a] = Begun /\ Grown(t, a, Judged(verdict))
    BY <1>0, <1>1, <1>3, <2>0, AppendEventDoes
  <2>2. ChildTypes'
    BY <1>0, <2>1 DEF CampaignInv, ChildTypes
  <2>3. CASE file' = file /\ pc'[t] \in {"failed", "refused"}
    BY <1>0, <2>1, <2>2, <2>3, SameFile DEF Finished
  <2>4. CASE /\ a \in Attempts /\ LedgerInv' /\ LedgerStep /\ pc'[t] \in {next, "failed"}
             /\ file[t][a] = Begun /\ Grown(t, a, Judged(verdict))
    <3>1. ChildInv(t)'
      BY <1>1, <2>4 DEF ChildInv, Finished
    <3>2. ASSUME NEW b \in Attempts, file'[t][b] = Judged("valid")
          PROVE  runner[t] = "zero" /\ result[t] = "finite" /\ sandbox[t] = "success"
      <4>1. b = a
        BY <1>0, <2>4, <3>2, Unjudged DEF Grown, IsValid
      <4>2. verdict = "valid"
        BY <2>4, <3>2, <4>1, LinesDiffer DEF Grown
      <4> QED
        BY <4>2, VerdictIs DEF verdict
    <3>3. EvidenceInv(t)'
      BY <1>0, <3>2 DEF EvidenceInv, IsValid
    <3> QED
      BY <1>0, <2>1, <2>2, <2>4, <3>1, <3>3, OneChild DEF Grown
  <2> QED
    BY <2>1, <2>3, <2>4
<1> QED
  BY <1>2, <1>3 DEF Conclude

\* A task whose latest attempt was just planned or begun, and was not valid
\* before, has no evidence to keep.
LEMMA NoEvidence ==
  ASSUME NEW t \in Tasks, NEW a \in Attempts, ~IsValid(t), NEW h \in {Planned, Begun},
         Grown(t, a, h)
  PROVE  EvidenceInv(t)'
<1>1. file'[t][a] = h /\ h # <<>> /\ \A v : h # Judged(v)
  BY LinesDiffer DEF Grown
<1>2. ~IsValid(t)'
  BY <1>1 DEF IsValid, Grown
<1>3. ASSUME NEW b \in Attempts, NEW v \in Terminals, IsLatest(t, b)', file'[t][b] = Judged(v)
      PROVE  FALSE
  <2>1. file'[t][b] # <<>>
    BY <1>1, <1>3, LinesDiffer
  <2>2. b # a
    BY <1>1, <1>3
  <2>3. b < a \/ b > a
    BY <2>2, MaxAttemptsAssumption DEF Attempts
  <2> QED
    BY <1>1, <1>3, <2>1, <2>3 DEF Grown, IsLatest
<1> QED
  BY <1>2, <1>3 DEF EvidenceInv

LEMMA AcquireKeeps ==
  ASSUME CampaignInv, NEW t \in Tasks, Acquire(t)
  PROVE  CampaignInv' /\ LedgerStep
<1> DEFINE a == attempt[t]
           grown == /\ a \in Attempts /\ LedgerInv' /\ LedgerStep
                    /\ pc'[t] \in {"spawning", "failed"} /\ ~IsValid(t) /\ Grown(t, a, Planned)
<1>1. /\ pc[t] = "queued" /\ attempt' = attempt
      /\ \A u \in Tasks : u # t =>
           runner'[u] = runner[u] /\ result'[u] = result[u] /\ sandbox'[u] = sandbox[u]
  BY DEF Acquire, At
<1>2. /\ runner' \in [Tasks -> {"none", "up", "zero", "nonzero"}]
      /\ result' \in [Tasks -> ResultKinds]
      /\ sandbox' \in [Tasks -> {"none", "success", "failed", "left"}]
      /\ file' = file => runner' = runner /\ result' = result /\ sandbox' = sandbox
  BY DEF Acquire, CampaignInv, ChildTypes, ResultKinds
<1>3. /\ pc' \in [Tasks -> Labels] /\ \A u \in Tasks : u # t => pc'[u] = pc[u]
      /\ (file' = file /\ pc'[t] \in {"failed", "refused"}) \/ grown
  <2>1. "PLANNED" \in Events /\ {"spawning", "failed"} \subseteq Labels
    BY DEF Events, Labels, Inside, Finished
  <2>3. ASSUME NEW next \in {"spawning", "failed"}, AppendEvent(t, "PLANNED", next)
        PROVE  /\ pc' \in [Tasks -> Labels] /\ \A u \in Tasks : u # t => pc'[u] = pc[u]
               /\ (file' = file /\ pc'[t] \in {"failed", "refused"}) \/ grown
    <3>2. /\ pc' \in [Tasks -> Labels] /\ \A u \in Tasks : u # t => pc'[u] = pc[u]
          /\ \/ file' = file /\ pc'[t] \in {"failed", "refused"}
             \/ /\ a \in Attempts /\ LedgerInv' /\ LedgerStep /\ pc'[t] \in {next, "failed"}
                /\ ~IsValid(t) /\ Grown(t, a, Planned)
      BY <1>1, <2>1, <2>3, AppendEventDoes
    <3> QED
      BY <3>2
  <2> QED
    BY <2>3 DEF Acquire
<1>4. ChildTypes'
  BY <1>1, <1>2, <1>3 DEF CampaignInv, ChildTypes
<1>5. CASE file' = file /\ pc'[t] \in {"failed", "refused"}
  BY <1>1, <1>2, <1>3, <1>4, <1>5, SameFile DEF Finished
<1>6. CASE grown
  <2>1. ChildInv(t)'
    BY <1>1, <1>6 DEF ChildInv, Grown
  <2>2. EvidenceInv(t)'
    BY <1>6, NoEvidence
  <2> QED
    BY <1>1, <1>3, <1>4, <1>6, <2>1, <2>2, OneChild DEF Grown
<1> QED
  BY <1>3, <1>5, <1>6

LEMMA SpawnSucceedsKeeps ==
  ASSUME CampaignInv, NEW t \in Tasks, SpawnSucceeds(t)
  PROVE  CampaignInv' /\ LedgerStep
<1> DEFINE a == attempt[t]
           grown == /\ a \in Attempts /\ LedgerInv' /\ LedgerStep
                    /\ pc'[t] \in {"waiting", "failed"} /\ Grown(t, a, Begun)
<1>1. /\ pc[t] = "spawning" /\ pc[t] \in Inside /\ attempt' = attempt
      /\ result' = result /\ sandbox' = sandbox
      /\ runner' \in [Tasks -> {"none", "up", "zero", "nonzero"}]
      /\ \A u \in Tasks : u # t => runner'[u] = runner[u]
  BY DEF SpawnSucceeds, At, Inside, CampaignInv, ChildTypes
<1>2. /\ ~IsValid(t)
      /\ \A b \in Attempts : \A v \in Terminals : ~(IsLatest(t, b) /\ file[t][b] = Judged(v))
  BY <1>1, Unjudged
<1>3. /\ pc' \in [Tasks -> Labels] /\ \A u \in Tasks : u # t => pc'[u] = pc[u]
      /\ (file' = file /\ pc'[t] \in {"failed", "refused"}) \/ grown
  <2>1. "STARTED" \in Events /\ "waiting" \in Labels /\ AppendEvent(t, "STARTED", "waiting")
    BY DEF Events, Labels, Inside, SpawnSucceeds
  <2>2. /\ pc' \in [Tasks -> Labels] /\ \A u \in Tasks : u # t => pc'[u] = pc[u]
        /\ \/ file' = file /\ pc'[t] \in {"failed", "refused"}
           \/ /\ a \in Attempts /\ LedgerInv' /\ LedgerStep /\ pc'[t] \in {"waiting", "failed"}
              /\ Grown(t, a, Begun)
    BY <1>1, <2>1, AppendEventDoes
  <2> QED
    BY <2>2
<1>4. ChildTypes'
  BY <1>1, <1>3 DEF CampaignInv, ChildTypes
<1>5. CASE file' = file /\ pc'[t] \in {"failed", "refused"}
  BY <1>1, <1>2, <1>3, <1>4, <1>5, SameFile DEF Finished
<1>6. CASE grown
  <2>1. ChildInv(t)'
    BY <1>1, <1>6 DEF ChildInv, Grown
  <2>2. EvidenceInv(t)'
    BY <1>2, <1>6, NoEvidence
  <2> QED
    BY <1>1, <1>3, <1>4, <1>6, <2>1, <2>2, OneChild DEF Grown
<1> QED
  BY <1>3, <1>5, <1>6

\* The steps of a child that leave the file alone.
LEMMA QuietKeeps ==
  ASSUME CampaignInv, NEW t \in Tasks,
         SpawnFails(t) \/ TimesOut(t) \/ TerminateTimesOut(t)
  PROVE  CampaignInv' /\ LedgerStep
<1>1. /\ file' = file /\ attempt' = attempt /\ result' = result
      /\ \A u \in Tasks : u # t =>
           pc'[u] = pc[u] /\ runner'[u] = runner[u] /\ sandbox'[u] = sandbox[u]
  BY DEF SpawnFails, TimesOut, TerminateTimesOut, Goto, diskVars, worldVars, CampaignInv,
     ChildTypes
<1>2. ChildTypes'
  BY DEF SpawnFails, TimesOut, TerminateTimesOut, Goto, worldVars, CampaignInv, ChildTypes,
     Labels, Inside, Finished
<1>3. CASE SpawnFails(t)
  <2>1. pc'[t] \in Finished /\ runner' = runner /\ sandbox' = sandbox
    BY <1>3 DEF SpawnFails, Goto, worldVars, CampaignInv, ChildTypes, Finished
  <2> QED
    BY <1>1, <1>2, <2>1, SameFile
<1>4. CASE TimesOut(t)
  <2>1. /\ pc'[t] = "terminating" /\ pc[t] = "waiting"
        /\ runner' = runner /\ sandbox' = sandbox
    BY <1>4 DEF TimesOut, At, Goto, worldVars, CampaignInv, ChildTypes
  <2> QED
    BY <1>1, <1>2, <2>1, SameFile
<1>5. CASE TerminateTimesOut(t)
  <2>1. pc'[t] = "killing" /\ pc[t] = "terminating" /\ runner'[t] = "nonzero"
    BY <1>5 DEF TerminateTimesOut, At, Goto, CampaignInv, ChildTypes
  <2>2. ~IsValid(t)
    BY <1>5, UpIsUnjudged DEF TerminateTimesOut
  <2> QED
    BY <1>1, <1>2, <2>1, <2>2, SameFile
<1> QED
  BY <1>3, <1>4, <1>5

LEMMA EndsKeep ==
  ASSUME CampaignInv, NEW t \in Tasks, RunnerEnds(t) \/ TerminateEnds(t)
  PROVE  CampaignInv' /\ LedgerStep
<1>1. /\ pc[t] \in {"waiting", "terminating", "killing"} /\ runner[t] # "up"
      /\ attempt' = attempt /\ UNCHANGED worldVars
  BY DEF RunnerEnds, TerminateEnds, At
<1>2. CASE RunnerEnds(t)
  BY <1>1, <1>2, Concludes DEF RunnerEnds
<1>3. CASE TerminateEnds(t)
  BY <1>1, <1>3, Concludes DEF TerminateEnds
<1> QED
  BY <1>2, <1>3

LEMMA CancelArrivesKeeps ==
  ASSUME CampaignInv, NEW t \in Tasks, CancelArrives(t)
  PROVE  CampaignInv' /\ LedgerStep
<1>1. /\ attempt' = attempt /\ UNCHANGED worldVars
      /\ runner' = runner /\ result' = result /\ sandbox' = sandbox
  BY DEF CancelArrives, worldVars
<1>2. CASE pc[t] = "waiting" /\ runner[t] # "up" /\ Conclude(t, "interrupted")
  BY <1>1, <1>2, Concludes
<1>3. CASE /\ file' = file
           /\ \/ Goto(t, "cancelled")
              \/ pc[t] = "waiting" /\ Goto(t, "terminating")
  <2>1. ChildTypes' /\ \A u \in Tasks : u # t => pc'[u] = pc[u]
    BY <1>1, <1>3 DEF Goto, CampaignInv, ChildTypes, Labels, Inside, Finished
  <2>2. pc'[t] \in Finished \/ (pc[t] = "waiting" /\ pc'[t] = "terminating")
    <3>1. t \in DOMAIN pc
      BY DEF CampaignInv, ChildTypes
    <3> QED
      BY <1>3, <3>1 DEF Goto, Finished
  <2> QED
    BY <1>1, <1>3, <2>1, <2>2, SameFile
<1> QED
  BY <1>2, <1>3 DEF CancelArrives

LEMMA RunnerExitsKeeps ==
  ASSUME CampaignInv, NEW t \in Tasks, RunnerExits(t)
  PROVE  CampaignInv' /\ LedgerStep
<1>1. /\ file' = file /\ attempt' = attempt /\ pc' = pc
      /\ \A u \in Tasks : u # t =>
           runner'[u] = runner[u] /\ result'[u] = result[u] /\ sandbox'[u] = sandbox[u]
      /\ runner'[t] # "up"
  BY DEF RunnerExits, diskVars, taskVars, CampaignInv, ChildTypes
<1>2. ChildTypes'
  BY ResultsAssumption DEF RunnerExits, taskVars, CampaignInv, ChildTypes
<1>3. ~IsValid(t)
  BY UpIsUnjudged DEF RunnerExits
<1> QED
  BY <1>1, <1>2, <1>3, SameFile

-----------------------------------------------------------------------------
(* The steps of execute_campaign().                                        *)

\* What resume_candidates() offers is new, or was planned and not begun.
LEMMA CandidateIs ==
  ASSUME LedgerInv, NEW t \in Tasks
  PROVE  LET a == Candidate(file, t) IN
           a = 0 \/ (a \in Attempts /\ (file[t][a] # <<>> \/ Offered(t, a)))
<1> PICK m \in 0 .. MAX_ATTEMPTS : IsLatest(t, m)
  BY DEF LedgerInv
<1>0. m \in Nat /\ m <= MAX_ATTEMPTS /\ MAX_ATTEMPTS \in Nat /\ 1 \in Attempts
  BY MaxAttemptsAssumption DEF Attempts
<1>1. LatestAttempt(file, t) = m
  BY LatestIs
<1>2. CASE t \in TerminalTasks(file)
  BY <1>2 DEF Candidate
<1>3. CASE t \notin TerminalTasks(file) /\ m = 0
  <2>1. Candidate(file, t) = 1
    BY <1>1, <1>3 DEF Candidate
  <2>2. file[t][1] = <<>> /\ IsLatest(t, 1 - 1)
    BY <1>0, <1>3 DEF IsLatest
  <2> QED
    BY <1>0, <2>1, <2>2 DEF Offered
<1>4. CASE t \notin TerminalTasks(file) /\ m # 0
  <2>1. m \in Attempts /\ file[t][m] # <<>>
    BY <1>4 DEF IsLatest, Attempts
  <2>2. CASE EndsWith(file[t][m], "PLANNED")
    BY <1>1, <1>4, <2>1, <2>2 DEF Candidate
  <2>3. CASE ~EndsWith(file[t][m], "PLANNED") /\ m < MAX_ATTEMPTS
    <3>1. Candidate(file, t) = m + 1
      BY <1>1, <1>4, <2>3 DEF Candidate
    <3>2. m + 1 \in Attempts /\ file[t][m + 1] = <<>> /\ m + 1 - 1 = m
      BY <1>0, <2>3 DEF Attempts, IsLatest
    <3>3. file[t][m] \in Superseded
      <4>1. file[t][m] \in Lines /\ file[t][m] # Judged("valid")
        BY <1>4, <2>1, TerminalTasksAre DEF LedgerInv, IsValid
      <4>2. file[t][m] # Planned
        BY <2>3, LinesEnd
      <4> QED
        BY <2>1, <4>1, <4>2 DEF Lines, Superseded, Terminals
    <3> QED
      BY <3>1, <3>2, <3>3 DEF Offered
  <2>4. CASE ~EndsWith(file[t][m], "PLANNED") /\ ~(m < MAX_ATTEMPTS)
    BY <1>1, <1>4, <2>4 DEF Candidate
  <2> QED
    BY <2>2, <2>3, <2>4
<1> QED
  BY <1>2, <1>3, <1>4

LEMMA StartKeeps ==
  ASSUME CampaignInv, Start
  PROVE  CampaignInv' /\ LedgerStep
<1>1. /\ file' = file /\ runner' = runner /\ result' = result /\ sandbox' = sandbox
      /\ attempt' = [t \in Tasks |-> Candidate(file, t)]
      /\ pc' = [t \in Tasks |-> IF Candidate(file, t) = 0 THEN "idle" ELSE "queued"]
  BY DEF Start, worldVars
<1>2. LedgerInv'
  BY <1>1 DEF CampaignInv, LedgerInv, IsLatest
<1>3. ASSUME NEW t \in Tasks
      PROVE  ChildInv(t)' /\ EvidenceInv(t)'
  <2>1. LET a == Candidate(file, t) IN
          a = 0 \/ (a \in Attempts /\ (file[t][a] # <<>> \/ Offered(t, a)))
    BY CandidateIs DEF CampaignInv
  <2>2. Offered(t, Candidate(file, t)) => Offered(t, attempt[t])'
    BY <1>1 DEF Offered, IsLatest
  <2>3. ChildInv(t)'
    BY <1>1, <2>1, <2>2 DEF ChildInv
  <2>4. EvidenceInv(t)'
    BY <1>1 DEF CampaignInv, EvidenceInv, IsValid, IsLatest
  <2> QED
    BY <2>3, <2>4
<1>4. ChildTypes'
  <2>1. \A t \in Tasks : Candidate(file, t) \in 0 .. MAX_ATTEMPTS
    BY CandidateIs, MaxAttemptsAssumption DEF CampaignInv, Attempts
  <2> QED
    BY <1>1, <2>1 DEF CampaignInv, ChildTypes, Labels
<1> QED
  BY <1>1, <1>2, <1>3, <1>4 DEF CampaignInv, LedgerStep

LEMMA SessionKeeps ==
  ASSUME CampaignInv,
         StartRaises \/ CrashInCreate \/ Gather \/ Interrupt \/ UNCHANGED vars
  PROVE  CampaignInv' /\ LedgerStep
<1>1. /\ file' = file /\ UNCHANGED worldVars
      /\ (pc' = pc /\ attempt' = attempt) \/ LocalsGone
  BY DEF StartRaises, CrashInCreate, Gather, GatherRaises, GatherReturns, DrainEnds, Interrupt,
     vars, diskVars, taskVars
<1>2. runner' = runner /\ result' = result /\ sandbox' = sandbox
  BY <1>1 DEF worldVars
<1>3. ChildTypes' /\ \A u \in Tasks : (pc'[u] = pc[u] /\ attempt'[u] = attempt[u]) \/ pc'[u] = "idle"
  BY <1>1, <1>2, MaxAttemptsAssumption DEF CampaignInv, ChildTypes, LocalsGone, Labels
<1> QED
  BY <1>1, <1>2, <1>3, SameFile

\* A runner that a crash leaves behind, just launched, belongs to an attempt
\* without a verdict.
LEMMA CrashKeeps ==
  ASSUME CampaignInv, Crash
  PROVE  CampaignInv' /\ LedgerStep
<1>1. /\ file' = file /\ result' = result /\ sandbox' = sandbox
      /\ pc' = [t \in Tasks |-> "idle"] /\ attempt' = [t \in Tasks |-> 0]
  BY DEF Crash, LocalsGone
<1> PICK launched \in SUBSET {t \in Tasks : pc[t] = "spawning"} :
      runner' = [t \in Tasks |-> IF t \in launched THEN "up" ELSE runner[t]]
  BY DEF Crash
<1>2. ChildTypes'
  BY <1>1, MaxAttemptsAssumption DEF CampaignInv, ChildTypes, Labels
<1>3. ASSUME NEW u \in Tasks
      PROVE  \/ runner'[u] = runner[u] /\ result'[u] = result[u] /\ sandbox'[u] = sandbox[u]
             \/ ~IsValid(u) /\ \A a \in Attempts : \A v \in Terminals :
                                  ~(IsLatest(u, a) /\ file[u][a] = Judged(v))
  <2>1. CASE u \in launched
    BY <2>1, Unjudged DEF Inside
  <2>2. CASE u \notin launched
    BY <1>1, <2>2
  <2> QED
    BY <2>1, <2>2
<1> QED
  BY <1>1, <1>2, <1>3, SameFile

LEMMA CampaignStep ==
  ASSUME CampaignInv, [Next]_vars
  PROVE  CampaignInv' /\ LedgerStep
<1>1. CASE Start
  BY <1>1, StartKeeps
<1>2. CASE StartRaises \/ CrashInCreate \/ Gather \/ Interrupt \/ UNCHANGED vars
  BY <1>2, SessionKeeps
<1>3. CASE \E t \in Tasks : Attempt(t)
  BY <1>3, AcquireKeeps, SpawnSucceedsKeeps, QuietKeeps, EndsKeep, CancelArrivesKeeps DEF Attempt
<1>4. CASE Crash
  BY <1>4, CrashKeeps
<1>5. CASE \E t \in Tasks : RunnerExits(t)
  BY <1>5, RunnerExitsKeeps
<1> QED
  BY <1>1, <1>2, <1>3, <1>4, <1>5 DEF Next

-----------------------------------------------------------------------------
(* The theorems.                                                           *)

\* The lines of attempts.jsonl, the place of every child and the evidence of
\* every verdict fit together, whatever happens (campaign.py 187-331,
\* results.py 218-286).
THEOREM CampaignInvariance == Spec => []CampaignInv
<1>1. Init => CampaignInv
  BY CampaignInitially
<1>2. CampaignInv /\ [Next]_vars => CampaignInv'
  BY CampaignStep
<1> QED
  BY <1>1, <1>2, PTL DEF Spec

\* A valid line stands for a runner that exited with 0, one finite result and
\* a sandbox that was cleaned up, for ever (campaign.py 264-309).
THEOREM ValidStaysEarned == Spec => []ValidIsEarned
<1>1. CampaignInv => ValidIsEarned
  <2> SUFFICES ASSUME CampaignInv, NEW t \in TerminalTasks(file)
      PROVE  runner[t] = "zero" /\ result[t] = "finite" /\ sandbox[t] = "success"
    BY DEF ValidIsEarned
  <2>1. t \in Tasks
    BY DEF TerminalTasks
  <2> QED
    BY <2>1, TerminalTasksAre DEF CampaignInv, EvidenceInv
<1> QED
  BY <1>1, CampaignInvariance, PTL

\* The lines of an attempt are PLANNED, STARTED and one verdict; a further
\* attempt follows one that was begun and is not valid (results.py 228-239,
\* 263-286).
THEOREM AttemptsStayInOrder == Spec => []AttemptsInOrder
<1>1. CampaignInv => AttemptsInOrder
  <2> SUFFICES ASSUME CampaignInv, NEW t \in Tasks, NEW a \in Attempts
      PROVE  /\ \/ file[t][a] \in {<<>>, Planned, Begun}
                \/ \E v \in Terminals : file[t][a] = Judged(v)
             /\ a > 1 /\ file[t][a] # <<>> =>
                   Wrote(file, t, a - 1, "STARTED") /\ ~Wrote(file, t, a - 1, "valid")
    BY DEF AttemptsInOrder, Planned, Begun, Judged
  <2>1. file[t][a] \in Lines
    BY DEF CampaignInv, LedgerInv
  <2>2. ASSUME a > 1, file[t][a] # <<>>
        PROVE  Wrote(file, t, a - 1, "STARTED") /\ ~Wrote(file, t, a - 1, "valid")
    <3>1. a - 1 \in Attempts /\ a - 1 < a
      BY <2>2, MaxAttemptsAssumption DEF Attempts
    <3>2. file[t][a - 1] \in Superseded
      BY <2>2, <3>1 DEF CampaignInv, LedgerInv
    <3>3. CASE file[t][a - 1] = Begun
      BY <3>3, LinesRead
    <3>4. ASSUME NEW v \in InvalidReasons, file[t][a - 1] = Judged(v)
          PROVE  Wrote(file, t, a - 1, "STARTED") /\ ~Wrote(file, t, a - 1, "valid")
      <4>1. v # "valid"
        BY DEF InvalidReasons
      <4> QED
        BY <3>4, <4>1, LinesRead
    <3> QED
      BY <3>2, <3>3, <3>4 DEF Superseded
  <2> QED
    BY <2>1, <2>2 DEF Lines
<1> QED
  BY <1>1, CampaignInvariance, PTL

\* What the lines of the latest attempt, m, tell of a task.
Tells(t, m) ==
  /\ LatestAttempt(file, t) = m
  /\ m = 0 => Status(t) = "none" /\ LatestLines(t) = <<>>
  /\ m # 0 => LatestLines(t) = file[t][m]
  /\ m # 0 /\ file[t][m] = Planned => Status(t) = "planned"
  /\ m # 0 /\ file[t][m] = Begun => Status(t) = "started"
  /\ \A v \in Terminals : m # 0 /\ file[t][m] = Judged(v) =>
       Status(t) = IF v = "valid" THEN "valid" ELSE "invalid"

LEMMA StatusIs ==
  \A t \in Tasks, m \in 0 .. MAX_ATTEMPTS : LedgerInv /\ IsLatest(t, m) => Tells(t, m)
<1> SUFFICES ASSUME NEW t \in Tasks, NEW m \in 0 .. MAX_ATTEMPTS, LedgerInv, IsLatest(t, m)
    PROVE  Tells(t, m)
  OBVIOUS
<1>1. LatestAttempt(file, t) = m
  BY LatestIs
<1>2. m = 0 => LatestLines(t) = <<>>
  BY <1>1 DEF LatestLines
<1>3. m # 0 => LatestLines(t) = file[t][m]
  BY <1>1 DEF LatestLines
<1>4. m = 0 => Status(t) = "none"
  BY <1>1 DEF Status
<1>5. m # 0 /\ file[t][m] = Planned => Status(t) = "planned"
  BY <1>1, <1>3, LinesEnd DEF Status
<1>6. m # 0 /\ file[t][m] = Begun => Status(t) = "started"
  BY <1>1, <1>3, LinesEnd DEF Status
<1>7. ASSUME NEW v \in Terminals, m # 0, file[t][m] = Judged(v)
      PROVE  Status(t) = IF v = "valid" THEN "valid" ELSE "invalid"
  <2>1. v # "PLANNED" /\ v # "STARTED"
    BY DEF Terminals, InvalidReasons
  <2>2. \A e : EndsWith(LatestLines(t), e) <=> e = v
    BY <1>3, <1>7, LinesEnd
  <2> QED
    BY <1>1, <1>7, <2>1, <2>2 DEF Status
<1> QED
  BY <1>1, <1>2, <1>3, <1>4, <1>5, <1>6, <1>7 DEF Tells

LEMMA StatusIsNext ==
  (\A t \in Tasks, m \in 0 .. MAX_ATTEMPTS : LedgerInv /\ IsLatest(t, m) => Tells(t, m))'
BY StatusIs, PTL

\* No verdict is written while the runner it is about can still change the
\* evidence (campaign.py 252-309).
THEOREM VerdictsComeLast == Spec => []VerdictAfterTheEnd
<1>1. CampaignInv => VerdictAfterTheEnd
  <2> SUFFICES ASSUME CampaignInv, NEW t \in Tasks, NEW v \in Terminals,
                      EndsWith(LatestLines(t), v)
      PROVE  runner[t] # "up"
    BY DEF VerdictAfterTheEnd
  <2> PICK m \in 0 .. MAX_ATTEMPTS : IsLatest(t, m)
    BY DEF CampaignInv, LedgerInv
  <2>1. m # 0 /\ EndsWith(file[t][m], v)
    BY StatusIs, LinesEnd DEF CampaignInv, Tells
  <2>2. m \in Attempts
    BY <2>1 DEF Attempts
  <2>3. v # "PLANNED" /\ v # "STARTED"
    BY DEF Terminals, InvalidReasons
  <2>4. file[t][m] = Judged(v)
    BY <2>1, <2>2, <2>3, LinesEnd DEF CampaignInv, LedgerInv, Lines
  <2> QED
    BY <2>2, <2>4 DEF CampaignInv, EvidenceInv
<1> QED
  BY <1>1, CampaignInvariance, PTL

-----------------------------------------------------------------------------
(* The refinement.                                                         *)

LEMMA LifecycleStep ==
  ASSUME CampaignInv, CampaignInv', LedgerStep
  PROVE  [Lifecycle!Next]_<<[t \in Tasks |-> LatestAttempt(file, t)], [t \in Tasks |-> Status(t)]>>
<1> DEFINE current == [t \in Tasks |-> LatestAttempt(file, t)]
           status == [t \in Tasks |-> Status(t)]
\* A task whose lines did not change has the status it had.
<1>1. ASSUME NEW u \in Tasks, file'[u] = file[u]
      PROVE  current'[u] = current[u] /\ status'[u] = status[u]
  <2> PICK m \in 0 .. MAX_ATTEMPTS : IsLatest(u, m)
    BY DEF CampaignInv, LedgerInv
  <2>1. IsLatest(u, m)'
    BY <1>1 DEF IsLatest
  <2>2. Tells(u, m) /\ Tells(u, m)'
    BY <2>1, StatusIs, StatusIsNext DEF CampaignInv
  <2>3. m # 0 => file[u][m] \in Lines \ {<<>>}
    BY MaxAttemptsAssumption DEF CampaignInv, LedgerInv, IsLatest, Attempts
  <2>4. CASE m = 0
    BY <2>2, <2>4 DEF Tells
  <2>5. CASE m # 0
    BY <1>1, <2>2, <2>3 DEF Tells, Lines
  <2> QED
    BY <2>4, <2>5
<1>2. CASE file' = file
  <2>1. \A u \in Tasks : current'[u] = current[u] /\ status'[u] = status[u]
    BY <1>1, <1>2
  <2>2. current' = current /\ status' = status
    BY <2>1
  <2> QED
    BY <2>2
<1>3. ASSUME NEW t \in Tasks, NEW a \in Attempts, NEW h, Grown(t, a, h)
      PROVE  /\ Tells(t, a)'
             /\ current' = [current EXCEPT ![t] = a]
             /\ status' = [status EXCEPT ![t] = Status(t)']
  <2>1. Tells(t, a)'
    BY <1>3, StatusIsNext DEF CampaignInv, Grown, Attempts
  <2>2. \A u \in Tasks : u # t => current'[u] = current[u] /\ status'[u] = status[u]
    BY <1>1, <1>3 DEF Grown
  <2>3. current'[t] = a /\ status'[t] = Status(t)'
    BY <2>1 DEF Tells
  <2> QED
    BY <2>1, <2>2, <2>3
<1>4. ASSUME NEW t \in Tasks, NEW a \in Attempts,
             Offered(t, a), ~IsValid(t), Grown(t, a, Planned)
      PROVE  Lifecycle!Plan(t)
  <2>1. a - 1 \in 0 .. MAX_ATTEMPTS /\ IsLatest(t, a - 1) /\ a \in Nat
    BY <1>4, MaxAttemptsAssumption DEF Offered, Attempts
  <2>2. Tells(t, a - 1)
    BY <2>1, StatusIs DEF CampaignInv
  <2>3. current[t] = a - 1 /\ a - 1 < MAX_ATTEMPTS /\ a = current[t] + 1
    BY <2>2, MaxAttemptsAssumption DEF Tells, Attempts
  <2>4. status[t] \in {"none", "started", "invalid"}
    <3>1. CASE a = 1
      BY <2>2, <3>1 DEF Tells
    <3>2. CASE a > 1
      <4>1. a - 1 # 0 /\ file[t][a - 1] \in Superseded
        BY <1>4, <3>2 DEF Offered
      <4>2. \A v \in InvalidReasons : v \in Terminals /\ v # "valid"
        BY DEF Terminals, InvalidReasons
      <4> QED
        BY <2>2, <4>1, <4>2 DEF Tells, Superseded
    <3> QED
      BY <2>1, <3>1, <3>2
  <2>5. Status(t)' = "planned"
    <3>1. Tells(t, a)'
      BY <1>3, <1>4
    <3>2. file'[t][a] = Planned /\ a # 0
      BY <1>4 DEF Grown, Attempts
    <3> QED
      BY <3>1, <3>2 DEF Tells
  <2> QED
    BY <1>3, <1>4, <2>3, <2>4, <2>5 DEF Lifecycle!Plan
<1>5. ASSUME NEW t \in Tasks, NEW a \in Attempts,
             file[t][a] = Planned, IsLatest(t, a), Grown(t, a, Begun)
      PROVE  Lifecycle!Begin(t)
  <2>1. Tells(t, a) /\ a # 0
    BY <1>5, StatusIs DEF CampaignInv, Attempts
  <2>2. status[t] = "planned" /\ current[t] = a
    BY <1>5, <2>1 DEF Tells
  <2>3. Status(t)' = "started"
    BY <1>3, <1>5, <2>1 DEF Tells, Grown
  <2>4. current' = current
    <3>1. current' = [current EXCEPT ![t] = a]
      BY <1>3, <1>5
    <3>2. current = [current EXCEPT ![t] = a]
      BY <2>2
    <3> QED
      BY <3>1, <3>2
  <2> QED
    BY <1>3, <1>5, <2>2, <2>3, <2>4 DEF Lifecycle!Begin
<1>6. ASSUME NEW t \in Tasks, NEW a \in Attempts, NEW v \in Terminals,
             file[t][a] = Begun, IsLatest(t, a), Grown(t, a, Judged(v))
      PROVE  Lifecycle!Judge(t)
  <2>1. Tells(t, a) /\ a # 0
    BY <1>6, StatusIs DEF CampaignInv, Attempts
  <2>2. status[t] = "started" /\ current[t] = a
    BY <1>6, <2>1 DEF Tells
  <2>3. Status(t)' \in {"valid", "invalid"}
    <3>1. Tells(t, a)'
      BY <1>3, <1>6
    <3>2. file'[t][a] = Judged(v)
      BY <1>6 DEF Grown
    <3> QED
      BY <2>1, <3>1, <3>2 DEF Tells
  <2>4. current' = current
    <3>1. current' = [current EXCEPT ![t] = a]
      BY <1>3, <1>6
    <3>2. current = [current EXCEPT ![t] = a]
      BY <2>2
    <3> QED
      BY <3>1, <3>2
  <2> QED
    BY <1>3, <1>6, <2>2, <2>3, <2>4 DEF Lifecycle!Judge
<1> QED
  BY <1>2, <1>4, <1>5, <1>6 DEF LedgerStep, Lifecycle!Next

\* Sessions, children, the semaphore, cancellation and the readers of the
\* ledger amount to AttemptLifecycle, whatever fault happens (results.py
\* 218-286, campaign.py 187-331).
THEOREM RefinesLifecycle == Spec => ImplementsLifecycle
<1>1. Init => Lifecycle!Init
  <2> SUFFICES ASSUME Init, NEW t \in Tasks
      PROVE  LatestAttempt(file, t) = 0 /\ Status(t) = "none"
    BY DEF Lifecycle!Init
  <2>1. LedgerInv /\ IsLatest(t, 0) /\ 0 \in 0 .. MAX_ATTEMPTS
    BY CampaignInitially, MaxAttemptsAssumption DEF CampaignInv, IsLatest, Init, EmptyFile
  <2> QED
    BY <2>1, StatusIs DEF Tells
<1>2. CampaignInv /\ CampaignInv' /\ [Next]_vars =>
        [Lifecycle!Next]_<<[t \in Tasks |-> LatestAttempt(file, t)], [t \in Tasks |-> Status(t)]>>
  BY CampaignStep, LifecycleStep
<1> QED
  BY <1>1, <1>2, CampaignInvariance, PTL DEF Spec, ImplementsLifecycle, Lifecycle!Spec
-----------------------------------------------------------------------------
(* Counting.                                                               *)

LEMMA MaxOfTwo ==
  ASSUME NEW a \in Nat, NEW b \in Nat
  PROVE  Max({a, b}) = IF a >= b THEN a ELSE b
<1> DEFINE m == IF a >= b THEN a ELSE b
<1>1. m \in {a, b} /\ \A y \in {a, b} : m >= y
  OBVIOUS
<1>2. \A x \in {a, b} : (\A y \in {a, b} : x >= y) => x = m
  OBVIOUS
<1> QED
  BY <1>1, <1>2 DEF Max

\* Two sets that differ in one element at most.
LEMMA OneApart ==
  ASSUME NEW S, NEW T, NEW t, IsFiniteSet(S), T \ {t} = S \ {t}
  PROVE  /\ IsFiniteSet(T)
         /\ Cardinality(T) = Cardinality(S) + (IF t \in T THEN 1 ELSE 0)
                                            - (IF t \in S THEN 1 ELSE 0)
<1> DEFINE R == S \ {t}
<1>1. IsFiniteSet(R) /\ Cardinality(R) = IF t \in S THEN Cardinality(S) - 1 ELSE Cardinality(S)
  BY FS_RemoveElement
<1>2. Cardinality(S) \in Nat /\ Cardinality(R) \in Nat
  BY <1>1, FS_CardinalityType
<1>3. CASE t \in T
  <2>1. T = R \cup {t} /\ t \notin R
    BY <1>3
  <2>2. IsFiniteSet(T) /\ Cardinality(T) = Cardinality(R) + 1
    BY <1>1, <2>1, FS_AddElement
  <2> QED
    BY <1>1, <1>2, <1>3, <2>2
<1>4. CASE t \notin T
  <2>1. T = R
    BY <1>4
  <2> QED
    BY <1>1, <1>2, <1>4, <2>1
<1> QED
  BY <1>3, <1>4

\* The children, and those among them that hold a place of the semaphore.
Held == {u \in Tasks : pc[u] \in Inside}

LEMMA ChildrenCount ==
  ASSUME NEW S \in SUBSET Tasks
  PROVE  IsFiniteSet(S) /\ Cardinality(S) \in Nat
BY TasksAssumption, FS_Subset, FS_CardinalityType

\* The counts of aggregate() are counts.
LEMMA AggregateIs ==
  ASSUME NEW f, NEW n \in Nat
  PROVE  /\ Aggregate(f, n) \in
              [planned : Nat, started : Nat, terminal : Nat, missing : Nat,
               remaining : Nat, max_observed_children : Nat]
         /\ Aggregate(f, n).max_observed_children = n
<1>1. IsFiniteSet(Tasks \X Attempts)
  <2>1. IsFiniteSet(Attempts)
    BY MaxAttemptsAssumption, FS_Interval DEF Attempts
  <2> QED
    BY <2>1, TasksAssumption, FS_Product
<1>2. ASSUME NEW S \in SUBSET (Tasks \X Attempts)
      PROVE  Cardinality(S) \in Nat
  BY <1>1, FS_Subset, FS_CardinalityType
<1>3. \A events : Having(f, events) \in SUBSET (Tasks \X Attempts)
  BY DEF Having
<1>4. /\ Cardinality(Having(f, {"PLANNED"})) \in Nat
      /\ Cardinality(Having(f, {"STARTED"})) \in Nat
      /\ Cardinality(Having(f, Terminals)) \in Nat
      /\ Cardinality(Having(f, {"STARTED"}) \ Having(f, Terminals)) \in Nat
  BY <1>2, <1>3
<1>5. Cardinality(Tasks \ TerminalTasks(f)) \in Nat
  BY ChildrenCount
<1> QED
  BY <1>4, <1>5 DEF Aggregate

-----------------------------------------------------------------------------
(* What the steps of a child do to the counts, the flags and its runner.   *)

Watched == Inside \ {"spawning"}

\* t got a place, its runner not up yet; or could not be planned.
Entered(t) ==
  /\ pc[t] = "queued" /\ ~cancelled[t] /\ SemaphoreFree
  /\ pc'[t] \in {"spawning", "failed", "refused"}
  /\ runner'[t] \in {runner[t], "none"} /\ UNCHANGED <<cancelled, why, countVars>>

\* t launched its runner; it is watched unless STARTED could not be written.
Launched(t) ==
  /\ pc[t] = "spawning" /\ ~cancelled[t] /\ pc'[t] \in {"waiting", "failed"}
  /\ active' = IF pc'[t] = "waiting" THEN active + 1 ELSE active
  /\ max_seen' = Max({max_seen, active'})
  /\ peak' = Max({peak, Cardinality(Watching')})
  /\ UNCHANGED <<cancelled, why>>

\* t ended before it had a runner.
GaveUp(t) ==
  /\ pc[t] \in {"queued", "spawning"}
  /\ pc'[t] = "failed" \/ (pc'[t] = "cancelled" /\ cancelled[t])
  /\ runner' = runner /\ UNCHANGED <<why, countVars>>
  /\ cancelled'[t] \in {cancelled[t], FALSE}

\* t goes on watching its runner, which it may have killed.
WentOn(t) ==
  /\ pc[t] \in Watched /\ pc'[t] \in Watched
  /\ runner'[t] \in {runner[t], "nonzero"} /\ UNCHANGED countVars
  /\ cancelled'[t] \in {cancelled[t], FALSE}
  /\ why'[t] \in {"timeout", "interrupted"} \cup {why[t]}

\* t stopped watching its runner, which is gone unless t was cancelled.
Left(t) ==
  /\ pc[t] \in Watched /\ pc'[t] \in Finished /\ runner' = runner
  /\ runner[t] # "up" \/ cancelled[t]
  /\ active' = active - 1 /\ UNCHANGED <<max_seen, peak>>
  /\ ~cancelled'[t] /\ why'[t] = "none"

\* Its latest attempt has a verdict, or was begun and is the last allowed.
Settled(t) == \E a \in Attempts :
  /\ IsLatest(t, a)
  /\ \/ \E v \in Terminals : file[t][a] = Judged(v)
     \/ a = MAX_ATTEMPTS /\ file[t][a] = Begun

\* A step of t: one of these, for t alone.  The file, if it changed, is what
\* append() made of it, and a child that is done has its verdict.
Stepped(t) ==
  /\ ~Idle /\ UNCHANGED <<disk, coordVars>>
  /\ pc' \in [Tasks -> Labels] /\ cancelled' \in [Tasks -> BOOLEAN]
  /\ why' \in [Tasks -> {"none", "timeout", "interrupted"}]
  /\ torn' \in BOOLEAN
  /\ aggregate' = aggregate \/ aggregate' = Aggregate(file', 0)
  /\ \A u \in Tasks : u # t =>
       /\ pc'[u] = pc[u] /\ cancelled'[u] = cancelled[u] /\ runner'[u] = runner[u]
       /\ file'[u] = file[u]
  /\ pc'[t] = "done" => Settled(t)'
  /\ Entered(t) \/ Launched(t) \/ GaveUp(t) \/ WentOn(t) \/ Left(t)

\* The rest of the types.
OtherTypes ==
  /\ disk \in {"empty", "temporary", "document", "ready"}
  /\ torn \in BOOLEAN
  /\ aggregate \in [planned : Nat, started : Nat, terminal : Nat,
                    missing : Nat, remaining : Nat, max_observed_children : Nat]
  /\ coordinator \in {"down"} \cup Running \cup Ended
  /\ sessions \in 0 .. MAX_SESSIONS
  /\ interrupted \in BOOLEAN
  /\ cancelled \in [Tasks -> BOOLEAN]
  /\ why \in [Tasks -> {"none", "timeout", "interrupted"}]
  /\ active \in Nat /\ max_seen \in Nat /\ peak \in Nat

\* What append() may do to the disk, whichever way it goes.
LEMMA AppendEventLeaves ==
  ASSUME NEW t \in Tasks, NEW event, NEW next, AppendEvent(t, event, next), OtherTypes
  PROVE  /\ torn' \in BOOLEAN
         /\ aggregate' = aggregate \/ aggregate' = Aggregate(file', 0)
BY DEF AppendEvent, OtherTypes

LEMMA AcquireIsStep ==
  ASSUME CampaignInv, OtherTypes, NEW t \in Tasks, Acquire(t)
  PROVE  Stepped(t)
<1>1. /\ pc[t] = "queued" /\ ~cancelled[t] /\ SemaphoreFree /\ ~Idle
      /\ UNCHANGED <<disk, coordVars, attempt, cancelled, why, countVars>>
      /\ runner' = [runner EXCEPT ![t] = IF file' = file THEN @ ELSE "none"]
  BY DEF Acquire, At, Idle
<1>2. /\ torn' \in BOOLEAN
      /\ aggregate' = aggregate \/ aggregate' = Aggregate(file', 0)
  BY AppendEventLeaves DEF Acquire, OtherTypes
<1>3. /\ pc' \in [Tasks -> Labels] /\ pc'[t] \in {"spawning", "failed", "refused"}
      /\ \A u \in Tasks : u # t => pc'[u] = pc[u] /\ file'[u] = file[u]
  <2>1. "PLANNED" \in Events /\ {"spawning", "failed"} \subseteq Labels
    BY DEF Events, Labels, Inside, Finished
  <2>3. ASSUME NEW next \in {"spawning", "failed"}, AppendEvent(t, "PLANNED", next)
        PROVE  /\ pc' \in [Tasks -> Labels] /\ pc'[t] \in {"spawning", "failed", "refused"}
               /\ \A u \in Tasks : u # t => pc'[u] = pc[u] /\ file'[u] = file[u]
    <3>1. next \in Labels
      BY <2>1
    <3>2. /\ pc' \in [Tasks -> Labels] /\ \A u \in Tasks : u # t => pc'[u] = pc[u]
          /\ \/ file' = file /\ pc'[t] \in {"failed", "refused"}
             \/ pc'[t] \in {next, "failed"} /\ Grown(t, attempt[t], Planned)
      BY <1>1, <2>1, <2>3, <3>1, AppendEventDoes
    <3> QED
      BY <3>2 DEF Grown
  <2> QED
    BY <2>3 DEF Acquire
<1>4. Entered(t) /\ \A u \in Tasks : u # t => runner'[u] = runner[u]
  BY <1>1, <1>3 DEF Entered, CampaignInv, ChildTypes
<1> QED
  BY <1>1, <1>2, <1>3, <1>4 DEF Stepped, OtherTypes

\* STARTED follows PLANNED: append() does not refuse it.
LEMMA SpawnIsStep ==
  ASSUME CampaignInv, OtherTypes, NEW t \in Tasks, SpawnSucceeds(t)
  PROVE  Stepped(t)
<1>1. /\ pc[t] = "spawning" /\ ~cancelled[t] /\ ~Idle
      /\ UNCHANGED <<disk, coordVars, cancelled, why>>
      /\ runner' = [runner EXCEPT ![t] = "up"]
      /\ AppendEvent(t, "STARTED", "waiting")
      /\ active' = IF pc'[t] = "waiting" THEN active + 1 ELSE active
      /\ max_seen' = Max({max_seen, active'})
      /\ peak' = Max({peak, Cardinality(Watching')})
  BY DEF SpawnSucceeds, At, Idle
<1>2. /\ torn' \in BOOLEAN
      /\ aggregate' = aggregate \/ aggregate' = Aggregate(file', 0)
  BY <1>1, AppendEventLeaves
<1>3. /\ pc' \in [Tasks -> Labels]
      /\ \A u \in Tasks : u # t => pc'[u] = pc[u] /\ file'[u] = file[u]
  <2>1. "STARTED" \in Events /\ "waiting" \in Labels /\ pc[t] \in Inside
    BY <1>1 DEF Events, Labels, Inside
  <2>2. /\ pc' \in [Tasks -> Labels] /\ \A u \in Tasks : u # t => pc'[u] = pc[u]
        /\ file' = file \/ Grown(t, attempt[t], Begun)
    BY <1>1, <2>1, AppendEventDoes
  <2> QED
    BY <2>2 DEF Grown
<1>4. pc'[t] \in {"waiting", "failed"}
  <2>1. file[t][attempt[t]] = Planned
    BY <1>1 DEF CampaignInv, ChildInv
  <2>2. Accepts(file, t, attempt[t], "STARTED")
    BY <2>1, LinesEnd DEF Accepts
  <2>3. t \in DOMAIN pc
    BY DEF CampaignInv, ChildTypes
  <2> QED
    BY <1>1, <2>2, <2>3 DEF AppendEvent, Goto
<1>5. Launched(t) /\ \A u \in Tasks : u # t => runner'[u] = runner[u]
  BY <1>1, <1>4 DEF Launched, CampaignInv, ChildTypes
<1> QED
  BY <1>1, <1>2, <1>3, <1>4, <1>5 DEF Stepped, OtherTypes

LEMMA QuietIsStep ==
  ASSUME CampaignInv, OtherTypes, NEW t \in Tasks,
         SpawnFails(t) \/ TimesOut(t) \/ TerminateTimesOut(t)
  PROVE  Stepped(t)
<1>1. /\ ~Idle /\ UNCHANGED <<disk, coordVars, torn, aggregate, file, cancelled, countVars>>
      /\ \A u \in Tasks : u # t =>
           /\ pc'[u] = pc[u] /\ cancelled'[u] = cancelled[u] /\ runner'[u] = runner[u]
           /\ file'[u] = file[u]
  BY DEF SpawnFails, TimesOut, TerminateTimesOut, Goto, At, Idle, diskVars, worldVars,
     CampaignInv, ChildTypes
<1>2. /\ pc' \in [Tasks -> Labels]
      /\ why' \in [Tasks -> {"none", "timeout", "interrupted"}]
  BY DEF SpawnFails, TimesOut, TerminateTimesOut, Goto, CampaignInv, ChildTypes, OtherTypes,
     Labels, Inside, Finished
<1>3. pc'[t] # "done" /\ (GaveUp(t) \/ WentOn(t))
  <2>1. CASE SpawnFails(t)
    BY <1>1, <2>1 DEF SpawnFails, Goto, At, GaveUp, worldVars, CampaignInv, ChildTypes
  <2>2. CASE TimesOut(t)
    BY <1>1, <2>2
    DEF TimesOut, Goto, At, WentOn, Watched, Inside, worldVars, CampaignInv, ChildTypes, OtherTypes
  <2>3. CASE TerminateTimesOut(t)
    BY <1>1, <2>3
    DEF TerminateTimesOut, Goto, At, WentOn, Watched, Inside, CampaignInv, ChildTypes
  <2> QED
    BY <2>1, <2>2, <2>3
<1> QED
  BY <1>1, <1>2, <1>3 DEF Stepped, OtherTypes

\* The end of run_attempt() keeps the rest of the types; a child that is done
\* has its verdict.
LEMMA ConcludeIs ==
  ASSUME CampaignInv, OtherTypes, NEW t \in Tasks, NEW cause, Conclude(t, cause),
         pc[t] \in Watched, attempt' = attempt
  PROVE  /\ pc' \in [Tasks -> Labels] /\ pc'[t] \in Finished
         /\ \A u \in Tasks : u # t => pc'[u] = pc[u] /\ file'[u] = file[u]
         /\ pc'[t] = "done" => Settled(t)'
         /\ active' = active - 1 /\ why' = [why EXCEPT ![t] = "none"]
         /\ torn' \in BOOLEAN
         /\ aggregate' = aggregate \/ aggregate' = Aggregate(file', 0)
<1> DEFINE verdict == Verdict(t, cause)
           next == IF cause = "interrupted" THEN "cancelled" ELSE "done"
<1>1. verdict \in Terminals /\ verdict \in Events /\ next \in Labels /\ next \in Finished
  BY VerdictIs DEF Events, Labels, Finished
<1>2. /\ active' = active - 1 /\ why' = [why EXCEPT ![t] = "none"]
      /\ AppendEvent(t, verdict, next)
         \/ (Goto(t, "failed") /\ UNCHANGED <<file, torn, aggregate>>)
  BY DEF Conclude
<1> HIDE DEF verdict, next
<1>3. CASE Goto(t, "failed") /\ UNCHANGED <<file, torn, aggregate>>
  BY <1>2, <1>3 DEF Goto, CampaignInv, ChildTypes, OtherTypes, Labels, Finished
<1>4. CASE AppendEvent(t, verdict, next)
  <2>1. pc[t] \in Inside /\ pc[t] # "queued" /\ verdict # "PLANNED" /\ verdict # "STARTED"
    BY <1>1 DEF Watched, Inside, Terminals, InvalidReasons
  <2>2. /\ pc' \in [Tasks -> Labels] /\ \A u \in Tasks : u # t => pc'[u] = pc[u]
        /\ \/ file' = file /\ pc'[t] \in {"failed", "refused"}
           \/ /\ attempt[t] \in Attempts /\ pc'[t] \in {next, "failed"}
              /\ Grown(t, attempt[t], Judged(verdict))
    BY <1>1, <1>4, <2>1, AppendEventDoes
  <2>3. CASE file' = file /\ pc'[t] \in {"failed", "refused"}
    BY <1>2, <1>4, <2>2, <2>3, AppendEventLeaves DEF Finished
  <2>4. CASE /\ attempt[t] \in Attempts /\ pc'[t] \in {next, "failed"}
             /\ Grown(t, attempt[t], Judged(verdict))
    <3>1. Settled(t)'
      BY <1>1, <2>4 DEF Settled, Grown
    <3>2. pc'[t] \in Finished
      BY <1>1, <2>4 DEF Finished
    <3> QED
      BY <1>2, <1>4, <2>2, <2>4, <3>1, <3>2, AppendEventLeaves DEF Grown
  <2> QED
    BY <2>2, <2>3, <2>4
<1> QED
  BY <1>2, <1>3, <1>4

LEMMA EndIsStep ==
  ASSUME CampaignInv, OtherTypes, NEW t \in Tasks, RunnerEnds(t) \/ TerminateEnds(t)
  PROVE  Stepped(t)
<1> PICK cause : Conclude(t, cause)
  BY DEF RunnerEnds, TerminateEnds
<1>1. /\ pc[t] \in Watched /\ runner[t] # "up" /\ ~Idle
      /\ cancelled' = [cancelled EXCEPT ![t] = FALSE]
      /\ UNCHANGED <<disk, coordVars, attempt, max_seen, peak, worldVars>>
  BY DEF RunnerEnds, TerminateEnds, At, Idle, Watched, Inside
<1>2. /\ pc' \in [Tasks -> Labels] /\ pc'[t] \in Finished
      /\ \A u \in Tasks : u # t => pc'[u] = pc[u] /\ file'[u] = file[u]
      /\ pc'[t] = "done" => Settled(t)'
      /\ active' = active - 1 /\ why' = [why EXCEPT ![t] = "none"]
      /\ torn' \in BOOLEAN
      /\ aggregate' = aggregate \/ aggregate' = Aggregate(file', 0)
  BY <1>1, ConcludeIs
<1>3. Left(t)
  BY <1>1, <1>2 DEF Left, OtherTypes, worldVars
<1> QED
  BY <1>1, <1>2, <1>3 DEF Stepped, OtherTypes, worldVars

LEMMA CancelIsStep ==
  ASSUME CampaignInv, OtherTypes, NEW t \in Tasks, CancelArrives(t)
  PROVE  Stepped(t)
<1>1. /\ ~Idle /\ cancelled[t] /\ cancelled' = [cancelled EXCEPT ![t] = FALSE]
      /\ UNCHANGED <<disk, coordVars, attempt, max_seen, peak, worldVars>>
  BY DEF CancelArrives, Idle
<1>2. CASE pc[t] = "waiting" /\ runner[t] # "up" /\ Conclude(t, "interrupted")
  <2>1. pc[t] \in Watched
    BY <1>2 DEF Watched, Inside
  <2>2. /\ pc' \in [Tasks -> Labels] /\ pc'[t] \in Finished
        /\ \A u \in Tasks : u # t => pc'[u] = pc[u] /\ file'[u] = file[u]
        /\ pc'[t] = "done" => Settled(t)'
        /\ active' = active - 1 /\ why' = [why EXCEPT ![t] = "none"]
        /\ torn' \in BOOLEAN
        /\ aggregate' = aggregate \/ aggregate' = Aggregate(file', 0)
    BY <1>1, <1>2, <2>1, ConcludeIs
  <2>3. Left(t)
    BY <1>1, <1>2, <2>1, <2>2 DEF Left, OtherTypes, worldVars
  <2> QED
    BY <1>1, <2>2, <2>3 DEF Stepped, OtherTypes, worldVars
<1>3. ASSUME UNCHANGED <<file, torn, aggregate>>, NEW next \in {"cancelled", "terminating"},
             Goto(t, next),
             why' \in [Tasks -> {"none", "timeout", "interrupted"}],
             GaveUp(t) \/ WentOn(t) \/ Left(t)
      PROVE  Stepped(t)
  <2>1. /\ pc' \in [Tasks -> Labels] /\ pc'[t] # "done"
        /\ \A u \in Tasks : u # t => pc'[u] = pc[u]
    BY <1>3 DEF Goto, CampaignInv, ChildTypes, Labels, Inside, Finished
  <2> QED
    BY <1>1, <1>3, <2>1 DEF Stepped, OtherTypes, worldVars
<1>4. CASE /\ pc[t] = "queued" \/ pc[t] = "spawning"
           /\ Goto(t, "cancelled")
           /\ UNCHANGED <<file, torn, aggregate, why, active>>
  <2>1. GaveUp(t)
    BY <1>1, <1>4 DEF GaveUp, Goto, CampaignInv, ChildTypes, OtherTypes, worldVars, countVars
  <2> QED
    BY <1>3, <1>4, <2>1 DEF OtherTypes
<1>5. CASE /\ pc[t] = "waiting" /\ Goto(t, "terminating")
           /\ why' = [why EXCEPT ![t] = "interrupted"]
           /\ UNCHANGED <<file, torn, aggregate, active>>
  <2>1. WentOn(t)
    BY <1>1, <1>5
    DEF WentOn, Watched, Inside, Goto, CampaignInv, ChildTypes, OtherTypes, worldVars, countVars
  <2> QED
    BY <1>3, <1>5, <2>1 DEF OtherTypes
<1>6. CASE /\ pc[t] = "terminating" \/ pc[t] = "killing"
           /\ Goto(t, "cancelled")
           /\ active' = active - 1 /\ why' = [why EXCEPT ![t] = "none"]
           /\ UNCHANGED <<file, torn, aggregate>>
  <2>1. Left(t)
    BY <1>1, <1>6
    DEF Left, Watched, Inside, Finished, Goto, CampaignInv, ChildTypes, OtherTypes, worldVars
  <2> QED
    BY <1>3, <1>6, <2>1 DEF OtherTypes
<1> QED
  BY <1>2, <1>4, <1>5, <1>6 DEF CancelArrives

LEMMA AttemptIsStep ==
  ASSUME CampaignInv, OtherTypes, NEW t \in Tasks, Attempt(t)
  PROVE  Stepped(t)
BY AcquireIsStep, SpawnIsStep, QuietIsStep, EndIsStep, CancelIsStep DEF Attempt

-----------------------------------------------------------------------------
(* The semaphore, the counters and the parallelism observed.               *)

\* execute_campaign() is on its way out: every child was cancelled.
Stopping == interrupted \/ coordinator \in {"draining", "abandoning"}

\* The children inside fit the semaphore; active counts those with a runner,
\* max_seen is at least what it ever was, and is on disk when a session ends.
CountInv ==
  /\ OtherTypes
  /\ Cardinality(Held) <= NUM_ENVS
  /\ active = Cardinality(Watching) /\ active <= max_seen
  /\ max_seen <= NUM_ENVS /\ aggregate.max_observed_children <= NUM_ENVS
  /\ peak <= IF Idle THEN aggregate.max_observed_children ELSE max_seen
  /\ Idle => ~interrupted /\ \A t \in Tasks : pc[t] = "idle" /\ ~cancelled[t]

\* How one child's step changes a count of children.
LEMMA StepCounts ==
  ASSUME NEW t \in Tasks, NEW labels, \A u \in Tasks : u # t => pc'[u] = pc[u]
  PROVE  LET S == {u \in Tasks : pc[u] \in labels}
             T == {u \in Tasks : pc'[u] \in labels}
         IN  Cardinality(T) = Cardinality(S) + (IF pc'[t] \in labels THEN 1 ELSE 0)
                                             - (IF pc[t] \in labels THEN 1 ELSE 0)
<1> DEFINE S == {u \in Tasks : pc[u] \in labels}
           T == {u \in Tasks : pc'[u] \in labels}
<1>1. T \ {t} = S \ {t} /\ S \in SUBSET Tasks
  OBVIOUS
<1>2. IsFiniteSet(S)
  BY <1>1, ChildrenCount
<1>3. (t \in S <=> pc[t] \in labels) /\ (t \in T <=> pc'[t] \in labels)
  OBVIOUS
<1> HIDE DEF S, T
<1>4. Cardinality(T) = Cardinality(S) + (IF t \in T THEN 1 ELSE 0) - (IF t \in S THEN 1 ELSE 0)
  BY <1>1, <1>2, OneApart
<1>5. Cardinality(T) = Cardinality(S) + (IF pc'[t] \in labels THEN 1 ELSE 0)
                                      - (IF pc[t] \in labels THEN 1 ELSE 0)
  BY <1>3, <1>4
<1> QED
  BY <1>5 DEF S, T

LEMMA StepCountsHeld ==
  ASSUME NEW t \in Tasks, Stepped(t)
  PROVE  /\ Cardinality(Held)' = Cardinality(Held) + (IF pc'[t] \in Inside THEN 1 ELSE 0)
                                                   - (IF pc[t] \in Inside THEN 1 ELSE 0)
         /\ Cardinality(Watching)' =
              Cardinality(Watching) + (IF pc'[t] \in Watched THEN 1 ELSE 0)
                                    - (IF pc[t] \in Watched THEN 1 ELSE 0)
<1>1. \A u \in Tasks : u # t => pc'[u] = pc[u]
  BY DEF Stepped
<1>2. Cardinality({u \in Tasks : pc'[u] \in Inside}) =
        Cardinality({u \in Tasks : pc[u] \in Inside})
          + (IF pc'[t] \in Inside THEN 1 ELSE 0) - (IF pc[t] \in Inside THEN 1 ELSE 0)
  BY <1>1, StepCounts
<1>3. Cardinality({u \in Tasks : pc'[u] \in Watched}) =
        Cardinality({u \in Tasks : pc[u] \in Watched})
          + (IF pc'[t] \in Watched THEN 1 ELSE 0) - (IF pc[t] \in Watched THEN 1 ELSE 0)
  BY <1>1, StepCounts
<1> QED
  BY <1>2, <1>3 DEF Held, Watching, Watched

\* Those with a runner are among those inside.
LEMMA WatchedAreInside ==
  /\ Cardinality(Held) \in Nat /\ Cardinality(Watching) \in Nat
  /\ Cardinality(Watching) <= Cardinality(Held)
<1>1. Held \in SUBSET Tasks /\ Watching \in SUBSET Held /\ Watching \in SUBSET Tasks
  BY DEF Held, Watching
<1>2. IsFiniteSet(Held) /\ Cardinality(Held) \in Nat /\ Cardinality(Watching) \in Nat
  BY <1>1, ChildrenCount
<1> QED
  BY <1>1, <1>2, FS_Subset

LEMMA WatchedAreInsideNext ==
  (/\ Cardinality(Held) \in Nat /\ Cardinality(Watching) \in Nat
   /\ Cardinality(Watching) <= Cardinality(Held))'
BY WatchedAreInside, PTL

LEMMA StepKeepsCounts ==
  ASSUME CampaignInv, CountInv, NEW t \in Tasks, Stepped(t)
  PROVE  CountInv'
<1> DEFINE h == Cardinality(Held)
           w == Cardinality(Watching)
<1>1. /\ h' = h + (IF pc'[t] \in Inside THEN 1 ELSE 0) - (IF pc[t] \in Inside THEN 1 ELSE 0)
      /\ w' = w + (IF pc'[t] \in Watched THEN 1 ELSE 0) - (IF pc[t] \in Watched THEN 1 ELSE 0)
      /\ h \in Nat /\ w \in Nat /\ h' \in Nat /\ w' \in Nat /\ w' <= h'
  BY StepCountsHeld, WatchedAreInside, WatchedAreInsideNext
<1>2. /\ h <= NUM_ENVS /\ active = w /\ active <= max_seen /\ max_seen <= NUM_ENVS
      /\ peak <= max_seen /\ NUM_ENVS \in Nat
      /\ active \in Nat /\ max_seen \in Nat /\ peak \in Nat
  BY NumEnvsAssumption DEF CountInv, OtherTypes, Stepped
<1>3. SemaphoreFree <=> h < NUM_ENVS
  BY DEF SemaphoreFree, Held
<1> HIDE DEF h, w
<1>4. /\ h' <= NUM_ENVS /\ active' = w' /\ active' <= max_seen' /\ max_seen' <= NUM_ENVS
      /\ peak' <= max_seen'
      /\ active' \in Nat /\ max_seen' \in Nat /\ peak' \in Nat
  <2>1. CASE Entered(t)
    <3>1. pc[t] \notin Inside /\ pc[t] \notin Watched /\ pc'[t] \notin Watched
      BY <2>1 DEF Entered, Inside, Watched
    <3> QED
      BY <1>1, <1>2, <1>3, <2>1, <3>1 DEF Entered, countVars
  <2>2. CASE Launched(t)
    <3>1. /\ pc[t] \in Inside /\ pc[t] \notin Watched
          /\ pc'[t] \in Watched <=> pc'[t] = "waiting"
      BY <2>2 DEF Launched, Inside, Watched
    <3>2. active' = w'
      BY <1>1, <1>2, <2>2, <3>1 DEF Launched
    <3>3. h' <= NUM_ENVS
      BY <1>1, <1>2, <3>1
    <3>4. max_seen' = (IF max_seen >= w' THEN max_seen ELSE w')
      BY <1>1, <1>2, <2>2, <3>2, MaxOfTwo DEF Launched
    <3>5. peak' = (IF peak >= w' THEN peak ELSE w')
      <4>1. peak' = Max({peak, w'})
        BY <2>2 DEF Launched, w
      <4> QED
        BY <1>1, <1>2, <4>1, MaxOfTwo
    <3> QED
      BY <1>1, <1>2, <3>2, <3>3, <3>4, <3>5
  <2>3. CASE GaveUp(t)
    <3>1. pc[t] \notin Watched /\ pc'[t] \notin Watched /\ pc'[t] \notin Inside
      BY <2>3 DEF GaveUp, Inside, Watched
    <3> QED
      BY <1>1, <1>2, <2>3, <3>1 DEF GaveUp, countVars
  <2>4. CASE WentOn(t)
    <3>1. pc[t] \in Inside /\ pc'[t] \in Inside
      BY <2>4 DEF WentOn, Watched
    <3> QED
      BY <1>1, <1>2, <2>4, <3>1 DEF WentOn, countVars
  <2>5. CASE Left(t)
    <3>1. pc[t] \in Inside /\ pc'[t] \notin Inside /\ pc'[t] \notin Watched
      BY <2>5 DEF Left, Inside, Watched, Finished
    <3> QED
      BY <1>1, <1>2, <2>5, <3>1 DEF Left
  <2> QED
    BY <2>1, <2>2, <2>3, <2>4, <2>5 DEF Stepped
<1>5. /\ aggregate' \in [planned : Nat, started : Nat, terminal : Nat, missing : Nat,
                         remaining : Nat, max_observed_children : Nat]
      /\ aggregate'.max_observed_children <= NUM_ENVS
  <2>1. CASE aggregate' = aggregate
    BY <2>1 DEF CountInv, OtherTypes
  <2>2. CASE aggregate' = Aggregate(file', 0)
    BY <1>2, <2>2, AggregateIs
  <2> QED
    BY <2>1, <2>2 DEF Stepped
<1>6. ~Idle /\ ~Idle'
  BY DEF Stepped, Idle, coordVars
<1>7. OtherTypes'
  BY <1>4, <1>5 DEF OtherTypes, CountInv, Stepped, coordVars
<1> QED
  BY <1>4, <1>5, <1>6, <1>7 DEF CountInv, h, w

\* No child is inside.
LEMMA NobodyInside ==
  ASSUME \A u \in Tasks : pc[u] \in {"idle", "queued"}
  PROVE  Cardinality(Held) = 0 /\ Cardinality(Watching) = 0
<1>1. Held = {} /\ Watching = {}
  BY DEF Held, Watching, Inside
<1> QED
  BY <1>1, FS_EmptySet

LEMMA NobodyInsideNext ==
  ((\A u \in Tasks : pc[u] \in {"idle", "queued"}) =>
     Cardinality(Held) = 0 /\ Cardinality(Watching) = 0)'
<1>1. (\A u \in Tasks : pc[u] \in {"idle", "queued"}) =>
        Cardinality(Held) = 0 /\ Cardinality(Watching) = 0
  BY NobodyInside
<1> QED
  BY <1>1, PTL

LEMMA CountInitially == Init => CountInv
<1> SUFFICES ASSUME Init PROVE CountInv
  OBVIOUS
<1> USE NumEnvsAssumption, MaxSessionsAssumption DEF Init
<1>1. /\ aggregate \in [planned : Nat, started : Nat, terminal : Nat, missing : Nat,
                        remaining : Nat, max_observed_children : Nat]
      /\ aggregate.max_observed_children = 0
  BY AggregateIs
<1>2. Cardinality(Held) = 0 /\ Cardinality(Watching) = 0
  BY NobodyInside
<1>3. OtherTypes
  <2>1. sessions \in 0 .. MAX_SESSIONS /\ coordinator \in {"down"} \cup Running \cup Ended
    OBVIOUS
  <2>2. /\ cancelled \in [Tasks -> BOOLEAN]
        /\ why \in [Tasks -> {"none", "timeout", "interrupted"}]
    OBVIOUS
  <2> QED
    BY <1>1, <2>1, <2>2 DEF OtherTypes
<1>4. Idle
  BY DEF Idle, Running
<1> QED
  BY <1>1, <1>2, <1>3, <1>4 DEF CountInv

\* A session begins with nobody inside, and with what the last one observed.
LEMMA StartKeepsCounts ==
  ASSUME CampaignInv, CountInv, Start
  PROVE  CountInv'
<1>1. /\ Idle /\ ~Idle' /\ sessions < MAX_SESSIONS
      /\ disk' = "ready" /\ coordinator' = "gathering" /\ sessions' = sessions + 1
      /\ max_seen' = aggregate.max_observed_children
      /\ UNCHANGED <<file, torn, aggregate, interrupted, cancelled, why, active, peak>>
  BY DEF Start, MayStart, Idle, Running, ObservedParallelism
<1>2. \A u \in Tasks : pc'[u] \in {"idle", "queued"} /\ pc[u] \in {"idle", "queued"}
  BY <1>1 DEF Start, CountInv
<1>3. /\ Cardinality(Held)' = 0 /\ Cardinality(Watching)' = 0 /\ Cardinality(Watching) = 0
  BY <1>2, NobodyInside, NobodyInsideNext
<1>4. OtherTypes'
  BY <1>1, MaxSessionsAssumption DEF OtherTypes, CountInv, Running
<1> QED
  BY <1>1, <1>3, <1>4, NumEnvsAssumption DEF CountInv, OtherTypes

\* A session ends with nobody inside.
LEMMA SessionEndsInOrder ==
  ASSUME CampaignInv, CountInv, LocalsGone, Idle', UNCHANGED sessions,
         disk' = disk, torn' \in BOOLEAN, coordinator' \in {"down"} \cup Ended,
         aggregate' \in [planned : Nat, started : Nat, terminal : Nat, missing : Nat,
                         remaining : Nat, max_observed_children : Nat],
         aggregate'.max_observed_children <= NUM_ENVS,
         peak' \in Nat, peak' <= aggregate'.max_observed_children
  PROVE  CountInv'
<1>1. /\ interrupted' = FALSE /\ active' = 0 /\ max_seen' = 0
      /\ cancelled' = [t \in Tasks |-> FALSE] /\ why' = [t \in Tasks |-> "none"]
      /\ \A u \in Tasks : pc'[u] = "idle" /\ ~cancelled'[u]
  BY DEF LocalsGone
<1>2. Cardinality(Held)' = 0 /\ Cardinality(Watching)' = 0
  BY <1>1, NobodyInsideNext
<1>3. OtherTypes'
  BY <1>1 DEF OtherTypes, CountInv
<1> QED
  BY <1>1, <1>2, <1>3, NumEnvsAssumption DEF CountInv

LEMMA EndKeepsCounts ==
  ASSUME CampaignInv, CountInv, GatherReturns \/ DrainEnds \/ Crash
  PROVE  CountInv'
<1>1. /\ LocalsGone /\ ~Idle /\ sessions' = sessions /\ disk' = disk
      /\ torn' \in BOOLEAN /\ coordinator' \in {"down"} \cup Ended
  BY DEF GatherReturns, DrainEnds, Crash, Idle, Running, Ended, CountInv, OtherTypes
<1>2. Idle'
  BY <1>1 DEF Idle, Running, Ended
<1>3. /\ max_seen \in Nat /\ max_seen <= NUM_ENVS /\ peak \in Nat /\ peak <= max_seen
      /\ aggregate \in [planned : Nat, started : Nat, terminal : Nat, missing : Nat,
                        remaining : Nat, max_observed_children : Nat]
      /\ aggregate.max_observed_children \in Nat
      /\ aggregate.max_observed_children <= NUM_ENVS
  BY <1>1 DEF CountInv, OtherTypes
<1>4. \/ aggregate' = Aggregate(file, max_seen) /\ peak' = peak
      \/ aggregate' = aggregate /\ peak' = 0
  BY DEF GatherReturns, DrainEnds, Crash
<1>5. /\ aggregate' \in [planned : Nat, started : Nat, terminal : Nat, missing : Nat,
                         remaining : Nat, max_observed_children : Nat]
      /\ aggregate'.max_observed_children <= NUM_ENVS
      /\ peak' \in Nat /\ peak' <= aggregate'.max_observed_children
  BY <1>3, <1>4, AggregateIs
<1> QED
  BY <1>1, <1>2, <1>5, SessionEndsInOrder

LEMMA OthersKeepCounts ==
  ASSUME CampaignInv, CountInv,
         StartRaises \/ CrashInCreate \/ GatherRaises \/ Interrupt
           \/ (\E t \in Tasks : RunnerExits(t)) \/ UNCHANGED vars
  PROVE  CountInv'
<1> DEFINE quiet ==
             /\ pc' = pc /\ UNCHANGED <<torn, aggregate, why, countVars>>
             /\ disk' \in {"empty", "temporary", "document", "ready"}
             /\ coordinator' \in {"down"} \cup Running \cup Ended
             /\ sessions' \in 0 .. MAX_SESSIONS /\ interrupted' \in BOOLEAN
             /\ cancelled' \in [Tasks -> BOOLEAN] /\ (Idle' <=> Idle)
             /\ Idle => cancelled' = cancelled /\ interrupted' = interrupted
<1>1. quiet
  <2>1. CASE StartRaises \/ CrashInCreate
    BY <2>1, MaxSessionsAssumption
    DEF StartRaises, CrashInCreate, MayStart, diskVars, taskVars, Idle, Running, Ended,
        CountInv, OtherTypes
  <2>2. CASE GatherRaises \/ Interrupt
    <3>1. /\ coordinator \in Running /\ coordinator' \in Running /\ interrupted' \in BOOLEAN
          /\ pc' = pc /\ UNCHANGED <<disk, torn, aggregate, sessions, why, countVars>>
      BY <2>2 DEF GatherRaises, Interrupt, diskVars, Running, CountInv, OtherTypes
    <3>2. cancelled' \in [Tasks -> BOOLEAN]
      <4>1. cancelled' = [t \in Tasks |-> t \in Unfinished]
        BY <2>2 DEF GatherRaises, Interrupt, CancelAll
      <4>2. \A t \in Tasks : (t \in Unfinished) \in BOOLEAN
        OBVIOUS
      <4> QED
        BY <4>1, <4>2
    <3> QED
      BY <3>1, <3>2 DEF Idle, CountInv, OtherTypes
  <2>3. CASE (\E t \in Tasks : RunnerExits(t)) \/ UNCHANGED vars
    BY <2>3
    DEF RunnerExits, vars, diskVars, coordVars, taskVars, Idle, CountInv, OtherTypes
  <2> QED
    BY <2>1, <2>2, <2>3
<1>2. Held' = Held /\ Watching' = Watching
  BY <1>1 DEF Held, Watching
<1>3. OtherTypes'
  BY <1>1 DEF OtherTypes, CountInv, countVars
<1> QED
  BY <1>1, <1>2, <1>3 DEF CountInv, countVars

LEMMA CountStep ==
  ASSUME CampaignInv, CountInv, [Next]_vars
  PROVE  CountInv'
<1>1. CASE \E t \in Tasks : Attempt(t)
  BY <1>1, AttemptIsStep, StepKeepsCounts DEF CountInv
<1>2. CASE ~\E t \in Tasks : Attempt(t)
  BY <1>2, StartKeepsCounts, EndKeepsCounts, OthersKeepCounts DEF Next, Gather
<1> QED
  BY <1>1, <1>2

-----------------------------------------------------------------------------
(* The runners of the first session.                                       *)

\* Until the session is on its way out nobody is cancelled, and a runner that
\* is up belongs to a child inside, or to one that failed after the launch;
\* from then on whoever has no runner yet is cancelled, and gets none.
CapInv ==
  /\ sessions = 0 => Idle /\ RunnersUp = {}
  /\ Stopping => \A t \in Tasks : pc[t] \in {"queued", "spawning"} => cancelled[t]
  /\ ~Stopping => \A t \in Tasks : ~cancelled[t]
  /\ ~Idle /\ ~Stopping /\ sessions = 1 =>
       \A t \in RunnersUp : pc[t] \in Inside \cup {"failed"}
  /\ RunnersWithinCap

Counted == {t \in RunnersUp : pc[t] # "failed"}

LEMMA CountedGrow ==
  ASSUME NEW S, S \in SUBSET Tasks, NEW T \in SUBSET S
  PROVE  Cardinality(T) <= Cardinality(S)
BY ChildrenCount, FS_Subset

LEMMA StepKeepsCap ==
  ASSUME CampaignInv, CountInv, CountInv', CapInv, NEW t \in Tasks, Stepped(t)
  PROVE  CapInv'
<1>1. ~Idle /\ ~Idle' /\ (Stopping' <=> Stopping) /\ sessions' = sessions /\ sessions # 0
  BY DEF Stepped, coordVars, Idle, Stopping, CapInv
<1>2. ASSUME Stopping, NEW u \in Tasks, pc'[u] \in {"queued", "spawning"}
      PROVE  cancelled'[u]
  BY <1>1, <1>2
  DEF Stepped, Entered, Launched, GaveUp, WentOn, Left, Watched, Inside, Finished, CapInv
<1>3. ASSUME ~Stopping, NEW u \in Tasks
      PROVE  ~cancelled'[u]
  BY <1>1, <1>3
  DEF Stepped, Entered, Launched, GaveUp, WentOn, Left, CapInv
<1>4. ASSUME ~Stopping, sessions = 1, NEW u \in Tasks, runner'[u] = "up"
      PROVE  pc'[u] \in Inside \cup {"failed"}
  <2>1. CASE u # t
    BY <1>1, <1>4, <2>1 DEF Stepped, CapInv, RunnersUp
  <2>2. CASE u = t
    <3>1. runner[t] = "up" => pc[t] \in Inside \cup {"failed"}
      BY <1>1, <1>4 DEF CapInv, RunnersUp
    <3>2. ~cancelled[t]
      BY <1>1, <1>4 DEF CapInv
    <3>3. CASE Entered(t) \/ GaveUp(t)
      BY <1>4, <2>2, <3>1, <3>2, <3>3 DEF Entered, GaveUp, Inside
    <3>4. CASE Launched(t) \/ WentOn(t)
      BY <2>2, <3>4 DEF Launched, WentOn, Watched, Inside
    <3>5. CASE Left(t)
      BY <1>4, <2>2, <3>2, <3>5 DEF Left
    <3> QED
      BY <3>3, <3>4, <3>5 DEF Stepped
  <2> QED
    BY <2>1, <2>2
<1>5. ASSUME sessions = 1
      PROVE  Cardinality(Counted)' <= NUM_ENVS
  <2>1. CASE Stopping
    <3>1. \A u \in Tasks : runner'[u] = "up" /\ pc'[u] # "failed" =>
                             runner[u] = "up" /\ pc[u] # "failed"
      BY <1>1, <2>1
      DEF Stepped, Entered, Launched, GaveUp, WentOn, Left, Watched, Inside, CapInv
    <3>2. Counted \in SUBSET Tasks /\ Counted' \in SUBSET Counted
      BY <3>1 DEF Counted, RunnersUp
    <3>3. Cardinality(Counted') <= Cardinality(Counted)
      BY <3>2, CountedGrow
    <3>4. Cardinality(Counted) <= NUM_ENVS
      BY <1>1, <1>5 DEF CapInv, RunnersWithinCap, Counted, Idle
    <3>5. Cardinality(Counted) \in Nat /\ Cardinality(Counted') \in Nat
      BY <3>2, ChildrenCount
    <3> QED
      BY <3>3, <3>4, <3>5, NumEnvsAssumption
  <2>2. CASE ~Stopping
    <3>1. Counted' \in SUBSET Held' /\ Held' \in SUBSET Tasks
      BY <1>4, <1>5, <2>2 DEF Counted, RunnersUp, Held
    <3>2. Cardinality(Counted') <= Cardinality(Held')
      BY <3>1, CountedGrow
    <3>3. Cardinality(Held') <= NUM_ENVS
      BY DEF CountInv
    <3>4. Cardinality(Counted') \in Nat /\ Cardinality(Held') \in Nat
      BY <3>1, ChildrenCount
    <3> QED
      BY <3>2, <3>3, <3>4, NumEnvsAssumption
  <2> QED
    BY <2>1, <2>2
<1>6. RunnersWithinCap'
  BY <1>1, <1>5 DEF RunnersWithinCap, Counted
<1> QED
  BY <1>1, <1>2, <1>3, <1>4, <1>6 DEF CapInv, RunnersUp

\* Nothing but a session's own steps brings a runner up.
LEMMA OthersKeepCap ==
  ASSUME CampaignInv, CountInv, CapInv,
         StartRaises \/ CrashInCreate \/ GatherRaises \/ Interrupt
           \/ (\E t \in Tasks : RunnerExits(t)) \/ UNCHANGED vars
  PROVE  CapInv'
<1>1. /\ pc' = pc /\ (Idle' <=> Idle) /\ RunnersUp' \in SUBSET RunnersUp
      /\ RunnersUp \in SUBSET Tasks
      /\ \/ sessions' = sessions
         \/ sessions' = sessions + 1 /\ Idle
      /\ Idle /\ coordinator' # coordinator => sessions' = sessions + 1
  BY DEF StartRaises, CrashInCreate, GatherRaises, Interrupt, RunnerExits, MayStart, vars,
     coordVars, taskVars, worldVars, Idle, Running, RunnersUp, CampaignInv, ChildTypes
<1>2. /\ Stopping' => \/ Stopping /\ cancelled' = cancelled
                      \/ cancelled' = [t \in Tasks |-> t \in Unfinished]
      /\ ~Stopping' => ~Stopping /\ cancelled' = cancelled
  <2>1. CASE StartRaises \/ CrashInCreate
    BY <2>1 DEF StartRaises, CrashInCreate, MayStart, coordVars, taskVars, Running, Stopping
  <2>2. CASE GatherRaises \/ Interrupt
    BY <2>2 DEF GatherRaises, Interrupt, CancelAll, Stopping
  <2>3. CASE (\E t \in Tasks : RunnerExits(t)) \/ UNCHANGED vars
    BY <2>3 DEF RunnerExits, vars, coordVars, taskVars, Stopping
  <2> QED
    BY <2>1, <2>2, <2>3
<1>3. sessions \in Nat
  BY MaxSessionsAssumption DEF CountInv, OtherTypes
<1>4. ASSUME Stopping', NEW t \in Tasks, pc'[t] \in {"queued", "spawning"}
      PROVE  cancelled'[t]
  BY <1>1, <1>2, <1>4 DEF CapInv, Unfinished, Inside
<1>5. ASSUME ~Idle, sessions = 1
      PROVE  Cardinality(Counted)' <= NUM_ENVS
  <2>1. Counted \in SUBSET Tasks /\ Counted' \in SUBSET Counted
    BY <1>1 DEF Counted
  <2>2. Cardinality(Counted') <= Cardinality(Counted)
    BY <2>1, CountedGrow
  <2>3. Cardinality(Counted) <= NUM_ENVS
    BY <1>5 DEF CapInv, RunnersWithinCap, Counted, Idle
  <2>4. Cardinality(Counted) \in Nat /\ Cardinality(Counted') \in Nat
    BY <2>1, ChildrenCount
  <2> QED
    BY <2>2, <2>3, <2>4, NumEnvsAssumption
<1>6. RunnersWithinCap'
  BY <1>1, <1>3, <1>5 DEF RunnersWithinCap, Counted, Idle
<1> QED
  BY <1>1, <1>2, <1>3, <1>4, <1>6 DEF CapInv

LEMMA StartKeepsCap ==
  ASSUME CampaignInv, CountInv, CapInv, Start
  PROVE  CapInv'
<1>1. /\ Idle /\ ~Idle' /\ sessions' = sessions + 1 /\ runner' = runner
      /\ UNCHANGED <<interrupted, cancelled>> /\ coordinator' = "gathering"
      /\ sessions \in Nat
  BY MaxSessionsAssumption
  DEF Start, MayStart, Idle, Running, worldVars, CountInv, OtherTypes
<1>2. ~Stopping' /\ \A t \in Tasks : ~cancelled'[t]
  BY <1>1 DEF Stopping, CountInv
<1>3. sessions' = 1 => RunnersUp' = {}
  BY <1>1 DEF CapInv, RunnersUp
<1>4. RunnersWithinCap'
  <2>1. ASSUME RunnersUp' = {}
        PROVE  Cardinality({t \in RunnersUp : pc[t] # "failed"})' <= NUM_ENVS
    <3>1. {t \in RunnersUp : pc[t] # "failed"}' = {}
      BY <2>1
    <3> QED
      BY <3>1, FS_EmptySet, NumEnvsAssumption
  <2> QED
    BY <1>3, <2>1 DEF RunnersWithinCap
<1> QED
  BY <1>1, <1>2, <1>3, <1>4 DEF CapInv

LEMMA EndKeepsCap ==
  ASSUME CampaignInv, CountInv, CountInv', CapInv, GatherReturns \/ DrainEnds \/ Crash
  PROVE  CapInv'
<1>1. ~Idle /\ Idle' /\ sessions' = sessions
  BY DEF GatherReturns, DrainEnds, Crash, Idle, Running
<1>2. ~Stopping' /\ \A t \in Tasks : ~cancelled'[t]
  BY <1>1 DEF Stopping, CountInv, Idle, Running
<1>3. RunnersWithinCap' /\ sessions' # 0
  BY <1>1 DEF RunnersWithinCap, Idle, CapInv
<1> QED
  BY <1>1, <1>2, <1>3 DEF CapInv

LEMMA CapInitially == Init => CapInv
<1> SUFFICES ASSUME Init PROVE CapInv
  OBVIOUS
<1>1. Idle /\ RunnersUp = {} /\ ~Stopping /\ sessions = 0
  BY DEF Init, Idle, Running, RunnersUp, Stopping
<1> QED
  BY <1>1 DEF Init, CapInv, RunnersWithinCap

LEMMA CapStep ==
  ASSUME CampaignInv, CountInv, CountInv', CapInv, [Next]_vars
  PROVE  CapInv'
<1>1. CASE \E t \in Tasks : Attempt(t)
  BY <1>1, AttemptIsStep, StepKeepsCap DEF CountInv
<1>2. CASE ~\E t \in Tasks : Attempt(t)
  BY <1>2, StartKeepsCap, EndKeepsCap, OthersKeepCap DEF Next, Gather
<1> QED
  BY <1>1, <1>2

-----------------------------------------------------------------------------
(* What a campaign that returns has accounted for.                         *)

\* A child that is done, or got nothing to do, has a settled task.
AccountInv ==
  /\ \A t \in Tasks : pc[t] = "done" => Settled(t)
  /\ ~Idle => \A t \in Tasks : pc[t] = "idle" => Settled(t)
  /\ coordinator = "returned" => \A t \in Tasks : Settled(t)
  /\ coordinator = "returned" /\ sessions = 1 => RunnersUp = {}

\* A task without a candidate is settled.
LEMMA NoCandidateIsSettled ==
  ASSUME LedgerInv, NEW t \in Tasks, Candidate(file, t) = 0
  PROVE  Settled(t)
<1> PICK m \in 0 .. MAX_ATTEMPTS : IsLatest(t, m)
  BY DEF LedgerInv
<1>1. LatestAttempt(file, t) = m
  BY LatestIs
<1>2. CASE IsValid(t)
  <2> PICK a \in Attempts : file[t][a] = Judged("valid")
    BY <1>2 DEF IsValid
  <2>1. \A b \in Attempts : b > a => file[t][b] = <<>>
    <3> SUFFICES ASSUME NEW b \in Attempts, b > a, file[t][b] # <<>>
        PROVE  FALSE
      OBVIOUS
    <3>1. Judged("valid") \in Superseded
      BY MaxAttemptsAssumption DEF LedgerInv, Attempts
    <3> QED
      BY <3>1, LinesDiffer DEF Superseded, InvalidReasons
  <2>2. IsLatest(t, a)
    BY <2>1, LinesDiffer DEF IsLatest
  <2> QED
    BY <2>2 DEF Settled, Terminals
<1>3. CASE ~IsValid(t)
  <2>1. t \notin TerminalTasks(file)
    BY <1>3, TerminalTasksAre
  <2>2. m # 0 /\ ~EndsWith(file[t][m], "PLANNED") /\ m = MAX_ATTEMPTS
    BY <1>1, <2>1, MaxAttemptsAssumption DEF Candidate
  <2>3. m \in Attempts /\ file[t][m] \in Lines /\ file[t][m] # <<>> /\ file[t][m] # Planned
    BY <2>2, LinesEnd DEF Attempts, LedgerInv, IsLatest
  <2> QED
    BY <2>2, <2>3 DEF Lines, Settled
<1> QED
  BY <1>2, <1>3

LEMMA SettledStays ==
  ASSUME NEW t \in Tasks, file'[t] = file[t], Settled(t)
  PROVE  Settled(t)'
BY DEF Settled, IsLatest

LEMMA StepKeepsAccount ==
  ASSUME AccountInv, NEW t \in Tasks, Stepped(t)
  PROVE  AccountInv'
<1>1. ~Idle /\ ~Idle' /\ coordinator' # "returned"
  BY DEF Stepped, coordVars, Idle, Running
<1>2. pc'[t] # "idle"
  BY DEF Stepped, Entered, Launched, GaveUp, WentOn, Left, Watched, Inside, Finished
<1>3. \A u \in Tasks : u # t /\ Settled(u) => Settled(u)'
  BY SettledStays DEF Stepped
<1> QED
  BY <1>1, <1>2, <1>3 DEF AccountInv, Stepped

LEMMA OthersKeepAccount ==
  ASSUME CampaignInv, CountInv, CapInv, AccountInv,
         [Next]_vars, ~\E t \in Tasks : Attempt(t)
  PROVE  AccountInv'
<1>1. file' = file
  BY DEF Next, Start, StartRaises, CrashInCreate, Gather, GatherRaises, GatherReturns, DrainEnds,
     Interrupt, Crash, RunnerExits, vars, diskVars
<1>2. \A t \in Tasks : Settled(t) => Settled(t)'
  BY <1>1, SettledStays
<1>3. CASE Start
  <2>1. /\ coordinator' = "gathering" /\ attempt' = [t \in Tasks |-> Candidate(file, t)]
        /\ pc' = [t \in Tasks |-> IF Candidate(file, t) = 0 THEN "idle" ELSE "queued"]
    BY <1>3 DEF Start
  <2>2. \A t \in Tasks : pc'[t] # "done" /\ (pc'[t] = "idle" => Settled(t))
    BY <2>1, NoCandidateIsSettled DEF CampaignInv
  <2> QED
    BY <1>2, <2>1, <2>2 DEF AccountInv
<1>4. CASE GatherReturns
  <2>1. /\ coordinator = "gathering" /\ ~interrupted /\ sessions' = sessions /\ runner' = runner
        /\ coordinator' = "returned" /\ AllReturned /\ \A t \in Tasks : pc'[t] = "idle"
    BY <1>4 DEF GatherReturns, LocalsGone, worldVars
  <2>2. ~Idle /\ ~Stopping /\ Idle'
    BY <2>1 DEF Idle, Running, Stopping
  <2>3. \A t \in Tasks : Settled(t)
    BY <2>1, <2>2 DEF AllReturned, AccountInv
  <2>4. sessions = 1 => RunnersUp' = {}
    BY <2>1, <2>2 DEF CapInv, AllReturned, Inside, RunnersUp
  <2> QED
    BY <1>2, <2>1, <2>2, <2>3, <2>4 DEF AccountInv
<1>5. CASE DrainEnds \/ Crash
  <2>1. Idle' /\ coordinator' # "returned" /\ \A t \in Tasks : pc'[t] = "idle"
    BY <1>5 DEF DrainEnds, Crash, LocalsGone, Idle, Running
  <2> QED
    BY <2>1 DEF AccountInv
<1>6. CASE \/ StartRaises \/ CrashInCreate \/ GatherRaises \/ Interrupt
           \/ (\E t \in Tasks : RunnerExits(t)) \/ UNCHANGED vars
  <2>1. /\ pc' = pc /\ (Idle' <=> Idle) /\ RunnersUp' \in SUBSET RunnersUp
        /\ coordinator' = "returned" =>
             coordinator = "returned" /\ (sessions' = sessions \/ sessions' = sessions + 1)
    BY <1>6
    DEF StartRaises, CrashInCreate, GatherRaises, Interrupt, RunnerExits, MayStart, vars,
        coordVars, taskVars, worldVars, Idle, Running, RunnersUp, CampaignInv, ChildTypes
  <2>2. sessions \in Nat /\ (sessions = 0 => coordinator # "returned" \/ RunnersUp = {})
    BY MaxSessionsAssumption DEF CountInv, OtherTypes, CapInv
  <2> QED
    BY <1>2, <2>1, <2>2 DEF AccountInv
<1> QED
  BY <1>3, <1>4, <1>5, <1>6 DEF Next, Gather

-----------------------------------------------------------------------------
(* The theorems about sessions.                                            *)

SessionInv == CampaignInv /\ CountInv /\ CapInv /\ AccountInv

\* The semaphore, the counters and the flags of the coordinator fit the
\* children and their runners (campaign.py 162-331).
THEOREM SessionInvariance == Spec => []SessionInv
<1>1. Init => SessionInv
  <2> SUFFICES ASSUME Init PROVE AccountInv
    BY CampaignInitially, CountInitially, CapInitially DEF SessionInv
  <2>1. Idle /\ coordinator # "returned" /\ \A t \in Tasks : pc[t] # "done"
    BY DEF Init, Idle, Running
  <2> QED
    BY <2>1 DEF AccountInv
<1>2. SessionInv /\ [Next]_vars => SessionInv'
  <2> SUFFICES ASSUME SessionInv, [Next]_vars PROVE SessionInv'
    OBVIOUS
  <2>1. CampaignInv' /\ CountInv'
    BY CampaignStep, CountStep DEF SessionInv
  <2>2. CapInv'
    BY <2>1, CapStep DEF SessionInv
  <2>3. AccountInv'
    <3>1. CASE \E t \in Tasks : Attempt(t)
      BY <3>1, AttemptIsStep, StepKeepsAccount DEF SessionInv, CountInv
    <3>2. CASE ~\E t \in Tasks : Attempt(t)
      BY <3>2, OthersKeepAccount DEF SessionInv
    <3> QED
      BY <3>1, <3>2
  <2> QED
    BY <2>1, <2>2, <2>3 DEF SessionInv
<1> QED
  BY <1>1, <1>2, PTL DEF Spec

\* Every variable of the coordinator keeps its type; active and max_seen stay
\* within the semaphore (campaign.py 166-185, 246-262).
THEOREM CampaignTypeCorrectness == Spec => []TypeOK
<1>1. SessionInv => TypeOK
  <2> SUFFICES ASSUME SessionInv PROVE TypeOK
    OBVIOUS
  <2> USE DEF SessionInv
  <2>1. Lines \subseteq Seq(Events)
    <3>1. /\ <<>> \in Seq(Events) /\ Planned \in Seq(Events) /\ Begun \in Seq(Events)
          /\ \A v \in Terminals : Judged(v) \in Seq(Events)
      BY DEF Planned, Begun, Judged, Events
    <3> QED
      BY <3>1 DEF Lines
  <2>2. file \in [Tasks -> [Attempts -> Seq(Events)]]
    BY <2>1 DEF CampaignInv, LedgerInv
  <2>3. /\ pc \in [Tasks -> {"idle", "queued"} \cup Inside \cup Finished]
        /\ attempt \in [Tasks -> 0 .. MAX_ATTEMPTS]
        /\ runner \in [Tasks -> {"none", "up", "zero", "nonzero"}]
        /\ result \in [Tasks -> ResultKinds]
        /\ sandbox \in [Tasks -> {"none", "success", "failed", "left"}]
    BY DEF CampaignInv, ChildTypes, Labels
  <2>4. active \in 0 .. NUM_ENVS /\ max_seen \in 0 .. NUM_ENVS
    BY NumEnvsAssumption DEF CountInv, OtherTypes
  <2> QED
    BY <2>2, <2>3, <2>4 DEF TypeOK, CountInv, OtherTypes
<1> QED
  BY <1>1, SessionInvariance, PTL

\* NUM_ENVS bounds the runners a first session has up, but for those that a
\* failed child left behind (campaign.py 182-262, 316-326).
THEOREM RunnersStayWithinCap == Spec => []RunnersWithinCap
<1>1. SessionInv => RunnersWithinCap
  BY DEF SessionInv, CapInv
<1> QED
  BY <1>1, SessionInvariance, PTL

\* A session that is over left in aggregate.json the most runners any session
\* had at one time (campaign.py 166-185, 320-330, results.py 246, 327-330).
THEOREM ParallelismStaysRemembered == Spec => []ParallelismIsRemembered
<1>1. SessionInv => ParallelismIsRemembered
  BY DEF SessionInv, CountInv, ParallelismIsRemembered, Idle, Running
<1> QED
  BY <1>1, SessionInvariance, PTL

\* When the campaign returns, each task has a verdict on its latest attempt or
\* used its attempts up, and nothing of a first session is still up
\* (campaign.py 316-331).
THEOREM ReturnedStaysAccounted == Spec => []ReturnedIsAccounted
<1>1. SessionInv => ReturnedIsAccounted
  <2> SUFFICES ASSUME SessionInv, coordinator = "returned", NEW t \in Tasks
      PROVE  LET latest == LatestAttempt(file, t)
             IN  /\ latest > 0
                 /\ \/ \E v \in Terminals : EndsWith(LatestLines(t), v)
                    \/ latest = MAX_ATTEMPTS /\ EndsWith(LatestLines(t), "STARTED")
    BY DEF ReturnedIsAccounted, SessionInv, AccountInv
  <2> PICK a \in Attempts :
        /\ IsLatest(t, a)
        /\ \/ \E v \in Terminals : file[t][a] = Judged(v)
           \/ a = MAX_ATTEMPTS /\ file[t][a] = Begun
    BY DEF SessionInv, AccountInv, Settled
  <2>1. a \in 0 .. MAX_ATTEMPTS /\ a > 0 /\ a # 0
    BY MaxAttemptsAssumption DEF Attempts
  <2>2. LatestAttempt(file, t) = a /\ LatestLines(t) = file[t][a]
    BY <2>1, StatusIs DEF SessionInv, CampaignInv, Tells
  <2> QED
    BY <2>1, <2>2, LinesEnd
<1> QED
  BY <1>1, SessionInvariance, PTL
=============================================================================
