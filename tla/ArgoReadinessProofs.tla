------------------------ MODULE ArgoReadinessProofs ------------------------
(***************************************************************************)
(* Theorems about ArgoReadiness, for every tree of Applications, every     *)
(* order of the gates and every bound.                                     *)
(***************************************************************************)
EXTENDS ArgoReadiness, SequenceTheorems, WellFoundedInduction, TLAPS

-----------------------------------------------------------------------------
(* Revisions, Applications, gates *)

\* A revision is neither of the two markers, and its number is a number.
LEMMA Revisions ==
  /\ \A n \in Nat : Git(n) \in Rev /\ Chart(n) \in Rev
  /\ NoRev \notin Rev /\ Latest \notin Rev /\ NoRev # Latest
  /\ \A r \in Rev \cup {NoRev} : r[2] \in Nat
  BY DEF Git, Chart, Rev, NoRev, Latest

\* A new Application, and none at all, are Applications.
LEMMA NewApplications ==
  /\ \A n \in Nat : Fresh(n) \in AppState
  /\ NoApp \in AppState
  <1>1. \A n \in Nat : Fresh(n) \in AppState
    BY DEF Fresh, AppState
  <1>2. NoApp \in AppState
    <2>1. Fresh(0) \in AppState
      BY <1>1
    <2> QED
      BY <2>1 DEF NoApp, AppState
  <1> QED
    BY <1>1, <1>2

\* A set of natural numbers that is not empty has a least element.
LEMMA LeastNumber ==
  ASSUME NEW T \in SUBSET Nat, T # {}
  PROVE  \E n \in T : \A m \in T : n <= m
  <1>1. IsWellFoundedOn(OpToRel(<, Nat), Nat)
    BY NatLessThanWellFounded
  <1>2. PICK n \in T : \A m \in T : <<m, n>> \notin OpToRel(<, Nat)
    BY <1>1, WFMin
  <1>3. \A m \in T : ~(m < n)
    BY <1>2 DEF OpToRel
  <1> QED
    BY <1>3

\* The gate of a stage is one that the stage still has to pass, and no two
\* Applications are first.
LEMMA CurrentInQueue ==
  ASSUME queue \subseteq Apps, queue # {}
  PROVE  current \in queue
  <1>1. PICK n \in {Order[a] : a \in queue} :
          \A m \in {Order[a] : a \in queue} : n <= m
    <2>1. {Order[a] : a \in queue} \in SUBSET Nat /\ {Order[a] : a \in queue} # {}
      BY ReadinessAssumption
    <2> QED
      BY <2>1, LeastNumber
  <1>2. \E a \in queue : \A b \in queue : Order[a] <= Order[b]
    BY <1>1
  <1> QED
    BY <1>2 DEF current

-----------------------------------------------------------------------------
(* Type correctness: what the tool shares with ArgoCD, and its own part *)

ClusterTypeOK ==
  /\ app \in [Apps -> AppState]
  /\ branch \in StartRev..(StartRev + MaxRev) /\ crds \in BOOLEAN
  /\ stalled \in BOOLEAN
  /\ faults \in 0..MaxFaults

LEMMA TargetType ==
  ASSUME ClusterTypeOK, NEW a \in Apps
  PROVE  Target(a) \in Rev
  <1>1. branch \in Nat
    BY ClusterAssumption DEF ClusterTypeOK
  <1>2. app[a].made \in Nat
    BY DEF ClusterTypeOK, AppState
  <1> QED
    BY <1>1, <1>2, Revisions DEF Target

\* A step that gives one Application a state of an Application.
LEMMA OneChanges ==
  ASSUME ClusterTypeOK, NEW a \in Apps, NEW s \in AppState,
         app' = [app EXCEPT ![a] = s],
         branch' = branch, crds' = crds, stalled' = stalled, faults' \in 0..MaxFaults
  PROVE  ClusterTypeOK'
  BY DEF ClusterTypeOK

LEMMA FaultType ==
  ASSUME ClusterTypeOK, Fault
  PROVE  faults' \in 0..MaxFaults
  BY ClusterAssumption DEF ClusterTypeOK, Fault

LEMMA CompareTypes ==
  ASSUME ClusterTypeOK, NEW a \in Apps,
         Compare(a) \/ Begin(a) \/ WaitForHook(a) \/ LoseHook(a)
  PROVE  ClusterTypeOK'
  <1>1. app[a] \in AppState
    BY DEF ClusterTypeOK
  <1>2. CASE Compare(a)
    <2> DEFINE s == [app[a] EXCEPT !.compared = Target(a), !.synced = InSync(a),
                       !.request = IF AutoSync(a) THEN Target(a) ELSE @]
    <2>1. InSync(a) \in BOOLEAN /\ Target(a) \in Rev
      BY TargetType DEF InSync
    <2>2. s \in AppState
      BY <1>1, <2>1 DEF AppState
    <2>3. app' = [app EXCEPT ![a] = s]
      BY <1>2 DEF Compare
    <2> QED
      BY <1>2, <2>2, <2>3, OneChanges DEF Compare, ClusterTypeOK
  <1>3. CASE Begin(a)
    <2> DEFINE rev == IF app[a].request = Latest THEN Target(a)
                                                  ELSE app[a].request
               pin == app[a].request # Latest
               s == [app[a] EXCEPT !.phase = "Running", !.why = "",
                       !.opRev = rev, !.pinned = pin,
                       !.opts = TRUE, !.halted = FALSE]
    <2>1. rev \in Rev /\ pin \in BOOLEAN
      BY <1>1, <1>3, TargetType DEF Begin, AppState
    <2>2. s \in AppState
      <3> HIDE DEF rev, pin
      <3> QED
        BY <1>1, <2>1 DEF AppState
    <2>3. app' = [app EXCEPT ![a] = s]
      BY <1>3 DEF Begin
    <2> QED
      BY <1>3, <2>2, <2>3, OneChanges DEF Begin, ClusterTypeOK
  <1>4. CASE WaitForHook(a)
    <2> DEFINE s == [app[a] EXCEPT !.why = "hook", !.hook = TRUE]
    <2>1. s \in AppState
      BY <1>1 DEF AppState
    <2>2. app' = [app EXCEPT ![a] = s]
      BY <1>4 DEF WaitForHook
    <2> QED
      BY <1>4, <2>1, <2>2, OneChanges DEF WaitForHook, ClusterTypeOK
  <1>5. CASE LoseHook(a)
    <2> DEFINE s == [app[a] EXCEPT !.hook = FALSE]
    <2>1. s \in AppState
      BY <1>1 DEF AppState
    <2>2. app' = [app EXCEPT ![a] = s]
      BY <1>5 DEF LoseHook
    <2> QED
      BY <1>5, <2>1, <2>2, OneChanges, FaultType DEF LoseHook
  <1> QED
    BY <1>2, <1>3, <1>4, <1>5

LEMMA OperationTypes ==
  ASSUME ClusterTypeOK, NEW a \in Apps, Complete(a) \/ FailOperation(a)
  PROVE  ClusterTypeOK'
  <1>1. CASE Complete(a)
    <2> DEFINE n == app[a].opRev[2]
               done == [app[a] EXCEPT
                          !.applied = app[a].opRev, !.phase = "Succeeded",
                          !.why = "", !.hook = FALSE, !.request = NoRev,
                          !.opRev = NoRev, !.pinned = FALSE,
                          !.health = "Progressing"]
    <2>1. app[a] \in AppState /\ n \in Nat
      BY Revisions DEF ClusterTypeOK, AppState
    <2>2. done \in AppState
      BY <2>1 DEF AppState
    <2>3. \A b \in Apps : [app[b] EXCEPT !.made = n] \in AppState
      BY <2>1 DEF AppState, ClusterTypeOK
    <2>4. Fresh(n) \in AppState
      BY <2>1, NewApplications
    <2>5. app' = [b \in Apps |->
                    IF b = a THEN done
                    ELSE IF Parent[b] = a /\ Since[b] <= n
                      THEN IF app[b].alive THEN [app[b] EXCEPT !.made = n]
                                           ELSE Fresh(n)
                    ELSE app[b]]
      BY <1>1 DEF Complete, Kids
    <2> HIDE DEF n, done
    <2>6. app' \in [Apps -> AppState]
      BY <2>2, <2>3, <2>4, <2>5 DEF ClusterTypeOK
    <2> QED
      BY <1>1, <2>6 DEF Complete, ClusterTypeOK
  <1>2. CASE FailOperation(a)
    <2> DEFINE end == IF Obstacle(a) = "other" THEN "Error" ELSE "Failed"
               reason == IF Obstacle(a) # "" THEN Obstacle(a)
                         ELSE IF app[a].why = "hook" THEN "hook" ELSE "other"
               s == [app[a] EXCEPT !.phase = end, !.why = reason,
                                   !.request = NoRev]
    <2>1. Obstacle(a) \in {"other", "crd", "annotation", ""}
      BY DEF Obstacle
    <2>2. app[a] \in AppState
      BY DEF ClusterTypeOK
    <2>3. s \in AppState
      <3>1. end \in {"Error", "Failed"}
            /\ reason \in {"hook", "crd", "annotation", "other"}
        BY <2>1
      <3> HIDE DEF end, reason
      <3> QED
        BY <2>2, <3>1 DEF AppState
    <2>4. app' = [app EXCEPT ![a] = s]
      BY <1>2 DEF FailOperation
    <2>5. faults' \in 0..MaxFaults
      BY <1>2, FaultType DEF FailOperation, ClusterTypeOK
    <2> QED
      BY <1>2, <2>3, <2>4, <2>5, OneChanges DEF FailOperation
  <1> QED
    BY <1>1, <1>2

LEMMA HealthTypes ==
  ASSUME ClusterTypeOK, NEW a \in Apps,
         BecomeHealthy(a) \/ Degrade(a) \/ ManualSync(a)
  PROVE  ClusterTypeOK'
  <1>1. app[a] \in AppState
    BY DEF ClusterTypeOK
  <1>2. CASE BecomeHealthy(a)
    <2>1. [app[a] EXCEPT !.health = "Healthy"] \in AppState
      BY <1>1 DEF AppState
    <2>2. app' = [app EXCEPT ![a] = [app[a] EXCEPT !.health = "Healthy"]]
      BY <1>2 DEF BecomeHealthy
    <2> QED
      BY <1>2, <2>1, <2>2, OneChanges DEF BecomeHealthy, ClusterTypeOK
  <1>3. CASE Degrade(a)
    <2>1. [app[a] EXCEPT !.health = "Degraded"] \in AppState
      BY <1>1 DEF AppState
    <2>2. app' = [app EXCEPT ![a] = [app[a] EXCEPT !.health = "Degraded"]]
      BY <1>3 DEF Degrade
    <2> QED
      BY <1>3, <2>1, <2>2, OneChanges, FaultType DEF Degrade
  <1>4. CASE ManualSync(a)
    <2>1. [app[a] EXCEPT !.request = Latest] \in AppState
      BY <1>1 DEF AppState
    <2>2. app' = [app EXCEPT ![a] = [app[a] EXCEPT !.request = Latest]]
      BY <1>4 DEF ManualSync
    <2> QED
      BY <1>4, <2>1, <2>2, OneChanges DEF ManualSync, ClusterTypeOK
  <1> QED
    BY <1>2, <1>3, <1>4

LEMMA ClusterTypes ==
  ASSUME ClusterTypeOK, ClusterStep
  PROVE  ClusterTypeOK'
  <1>1. CASE Publish
    BY <1>1, ClusterAssumption DEF Publish, ClusterTypeOK
  <1> QED
    BY <1>1, CompareTypes, OperationTypes, HealthTypes DEF ClusterStep

LEMMA InitialApplications ==
  ASSUME NEW a \in Apps, stalled \in BOOLEAN
  PROVE  InitialStates(a) \subseteq AppState
  <1> DEFINE rev == IF a \in GitApps THEN Git(StartRev - 1)
                                     ELSE Chart(StartRev - 1)
             good == IF a = Stack /\ stalled THEN "Progressing" ELSE "Healthy"
  <1>1. StartRev \in Nat /\ StartRev - 1 \in Nat
    BY ClusterAssumption
  <1>2. rev \in Rev /\ good \in {"Progressing", "Healthy"}
    BY <1>1, Revisions
  <1>3. Fresh(StartRev - 1) \in AppState /\ Fresh(StartRev) \in AppState
    BY <1>1, NewApplications
  <1>4. Settled(a) = [Fresh(StartRev - 1) EXCEPT
          !.compared = rev, !.synced = TRUE, !.applied = rev,
          !.phase = "Succeeded", !.opts = TRUE, !.health = good]
    BY DEF Settled
  <1> HIDE DEF rev, good
  <1>5. Settled(a) \in AppState
    BY <1>2, <1>3, <1>4 DEF AppState
  <1>6. ASSUME NEW l \in Leftovers
        PROVE  LeftFailed(a, l[2]) \in AppState
    <2> DEFINE opted == l[2] # "annotation"
    <2>1. l[2] \in {"hook", "annotation", "other"} /\ opted \in BOOLEAN
      BY <1>6, ClusterAssumption
    <2>2. Settled(a).compared \in Rev \cup {NoRev}
      BY <1>5 DEF AppState
    <2>3. LeftFailed(a, l[2]) = [Settled(a) EXCEPT
            !.synced = FALSE, !.applied = NoRev, !.phase = "Failed",
            !.why = l[2], !.opts = opted,
            !.opRev = Settled(a).compared, !.pinned = TRUE]
      BY DEF LeftFailed
    <2> HIDE DEF opted
    <2> QED
      BY <1>5, <2>1, <2>2, <2>3 DEF AppState
  <1> QED
    BY <1>3, <1>5, <1>6, NewApplications DEF InitialStates

LEMMA ClusterInitTypes == ClusterInit => ClusterTypeOK
  <1> SUFFICES ASSUME ClusterInit PROVE ClusterTypeOK
    OBVIOUS
  <1>1. stalled \in BOOLEAN
    BY ClusterAssumption DEF ClusterInit
  <1>2. \A a \in Apps : app[a] \in AppState
    BY <1>1, InitialApplications DEF ClusterInit
  <1>3. app \in [Apps -> AppState]
    BY <1>2 DEF ClusterInit
  <1>4. crds \in BOOLEAN
    BY DEF ClusterInit
  <1>5. branch \in StartRev..(StartRev + MaxRev) /\ faults \in 0..MaxFaults
    BY ClusterAssumption DEF ClusterInit
  <1> QED
    BY <1>1, <1>3, <1>4, <1>5 DEF ClusterTypeOK

Verdict == {"", "ready", "timeout", "job", "absent", "read", "manual",
            "failed", "degraded", "kubectl", "recreation", "aborted"}

ToolTypeOK ==
  /\ pc \in {"done", "gate", "secret", "downloader", "poll", "hook", "parent",
             "repair", "judge", "run"}
  /\ stage \in 1..Len(Stages)
  /\ queue \subseteq Apps /\ todo \in Seq(Command)
  /\ seen \in AppState
  /\ expected \in Rev
  /\ expired \in BOOLEAN /\ cooling \subseteq Apps
  /\ verdict \in Verdict
  /\ pc = "run" <=> todo # << >>
  /\ pc \in {"poll", "hook", "parent", "repair", "judge", "run"}
       => queue # {}
  /\ pc = "parent" => Parent[current] # None

LEMMA TypeParts ==
  /\ TypeOK <=> ClusterTypeOK /\ ToolTypeOK
  /\ TypeOK' <=> ClusterTypeOK' /\ ToolTypeOK'
  BY DEF TypeOK, ClusterTypeOK, ToolTypeOK, Verdict

\* The process ends: nothing of it is left.
LEMMA FailTypes ==
  ASSUME ToolTypeOK, NEW why \in Verdict, Fail(why)
  PROVE  ToolTypeOK'
  <1>1. NoApp \in AppState
    BY NewApplications
  <1>2. pc' = "done" /\ verdict' = why /\ queue' = {} /\ todo' = << >>
    BY DEF Fail
  <1>3. stage' \in 1..Len(Stages) /\ expected' \in Rev /\ seen' \in AppState
        /\ expired' \in BOOLEAN /\ cooling' \subseteq Apps
    BY <1>1 DEF Fail, ToolTypeOK
  <1>4. todo' \in Seq(Command)
    BY <1>2
  <1> QED
    BY <1>2, <1>3, <1>4 DEF ToolTypeOK

LEMMA SixStages == Len(Stages) = 6
  BY DEF Stages

LEMMA SameCurrent == queue' = queue => current' = current
  BY DEF current

LEMMA QueueTypes ==
  ASSUME NEW s \in 1..6
  PROVE  QueueOf(s) \subseteq Apps
  BY ClusterAssumption, ReadinessAssumption DEF QueueOf, Children

\* The steps from gate to gate.
LEMMA StageTypes ==
  ASSUME ToolTypeOK, ClusterTypeOK,
         Start \/ NextStage \/ Ready \/ SecretGate \/ DownloaderGate \/ Exists
  PROVE  ToolTypeOK'
  <1>1. CASE Start
    <2>1. branch \in Nat
      BY ClusterAssumption DEF ClusterTypeOK
    <2>2. expected' \in Rev
      BY <1>1, <2>1, Revisions DEF Start
    <2>3. RootGates \subseteq Apps
      BY ReadinessAssumption
    <2>4. queue' \subseteq Apps
      BY <1>1, <2>3 DEF Start
    <2>5. stage' \in 1..Len(Stages)
      <3>1. stage' = 1
        BY <1>1 DEF Start
      <3> QED
        BY <3>1, SixStages
    <2> QED
      BY <1>1, <2>2, <2>4, <2>5 DEF Start, Goto, ToolTypeOK, Verdict
  <1>2. CASE NextStage
    <2>1. stage' \in 1..6
      BY <1>2, SixStages DEF NextStage, ToolTypeOK
    <2>2. queue' \subseteq Apps
      BY <1>2, <2>1, QueueTypes DEF NextStage
    <2>3. pc' \in {"secret", "downloader", "gate"}
      BY <1>2 DEF NextStage
    <2> QED
      BY <1>2, <2>1, <2>2, <2>3, SixStages DEF NextStage, ToolTypeOK
  <1>3. CASE Ready
    BY <1>3 DEF Ready, Goto, ToolTypeOK, Verdict
  <1>4. CASE SecretGate
    <2>1. CASE Fail("timeout")
      BY <2>1, FailTypes DEF Verdict
    <2>2. CASE ~Fail("timeout")
      BY <1>4, <2>2 DEF SecretGate, ToolTypeOK
    <2> QED
      BY <2>1, <2>2
  <1>5. CASE DownloaderGate
    <2>1. CASE Fail("job") \/ Fail("timeout")
      BY <2>1, FailTypes DEF Verdict
    <2>2. CASE ~(Fail("job") \/ Fail("timeout"))
      BY <1>5, <2>2 DEF DownloaderGate, ToolTypeOK
    <2> QED
      BY <2>1, <2>2
  <1>6. CASE Exists
    <2>1. CASE Fail("absent")
      BY <2>1, FailTypes DEF Verdict
    <2>2. CASE ~Fail("absent")
      BY <1>6, <2>2 DEF Exists, ToolTypeOK
    <2> QED
      BY <2>1, <2>2
  <1> QED
    BY <1>1, <1>2, <1>3, <1>4, <1>5, <1>6

\* Whatever a poll decides on concerns Applications.
LEMMA MoveOnTypes ==
  ASSUME ToolTypeOK, pc # "run", queue # {},
         NEW to \in {"poll", "repair", "parent", "judge"}, MoveOn(to),
         to = "parent" => Parent[current] # None
  PROVE  ToolTypeOK'
  <1>1. seen' \in AppState
    BY NewApplications DEF MoveOn, ToolTypeOK
  <1>2. current' = current
    BY SameCurrent DEF MoveOn
  <1> QED
    BY <1>1, <1>2 DEF MoveOn, ToolTypeOK

LEMMA DoTypes ==
  ASSUME ToolTypeOK, queue # {}, NEW commands \in Seq(Command) \ {<< >>},
         Do(commands)
  PROVE  ToolTypeOK'
  BY DEF Do, ToolTypeOK

LEMMA Commands ==
  ASSUME NEW a \in Apps, NEW r \in Rev \cup {NoRev, Latest}
  PROVE  {Unset(a), Sync(a, r), Delete(a), Await(a), Note(a)} \subseteq Command
  <1>1. Unset(a) \in Command /\ Sync(a, r) \in Command /\ Delete(a) \in Command
    BY DEF Unset, Sync, Delete, Command
  <1>2. Await(a) \in Command /\ Note(a) \in Command
    BY DEF Await, Note, Command
  <1> QED
    BY <1>1, <1>2

LEMMA PollTypes ==
  ASSUME ToolTypeOK, ClusterTypeOK, Poll
  PROVE  ToolTypeOK'
  <1>1. CASE Fail("timeout") \/ Fail("read")
    BY <1>1, FailTypes DEF Verdict
  <1>2. CASE ~(Fail("timeout") \/ Fail("read"))
    <2>1. queue # {} /\ todo = << >> /\ queue \subseteq Apps
      BY DEF Poll, ToolTypeOK
    <2>2. current \in Apps
      BY <2>1, CurrentInQueue
    <2>3. seen' = app[current] /\ seen' \in AppState
      BY <1>2, <2>2 DEF Poll, ClusterTypeOK
    <2>4. /\ UNCHANGED <<stage, queue, expected, expired, cooling, verdict>>
          /\ \/ pc' = "run" /\ todo' = StaleRecovery(current, seen')
             \/ pc' \in {"hook", "repair"} /\ todo' = todo
      BY <1>2 DEF Poll
    <2>5. StaleRecovery(current, seen') \in Seq(Command) \ {<< >>}
      <3>1. Unset(current) \in Command /\ Sync(current, expected) \in Command
        BY <2>2, Commands DEF ToolTypeOK
      <3> QED
        BY <3>1 DEF StaleRecovery
    <2> QED
      BY <2>1, <2>3, <2>4, <2>5 DEF ToolTypeOK
  <1> QED
    BY <1>1, <1>2

LEMMA RecoveryTypes ==
  ASSUME ToolTypeOK, ClusterTypeOK, CheckHook \/ ReadParent \/ Repair \/ Judge
  PROVE  ToolTypeOK'
  <1>1. queue # {} /\ queue \subseteq Apps /\ pc # "run" /\ todo = << >>
    BY DEF CheckHook, ReadParent, Repair, Judge, ToolTypeOK
  <1>2. current \in queue /\ current \in Apps
    BY <1>1, CurrentInQueue
  <1>3. ASSUME NEW why \in {"manual", "read", "failed", "degraded"}, Fail(why)
        PROVE  ToolTypeOK'
    BY <1>3, FailTypes DEF Verdict
  <1>4. ASSUME NEW to \in {"poll", "repair", "parent", "judge"}, MoveOn(to),
               to = "parent" => Parent[current] # None
        PROVE  ToolTypeOK'
    BY <1>1, <1>4, MoveOnTypes
  <1>5. ASSUME NEW r \in Rev \cup {NoRev, Latest}, Do(<<Sync(current, r)>>)
        PROVE  ToolTypeOK'
    <2>1. <<Sync(current, r)>> \in Seq(Command) \ {<< >>}
      BY <1>2, Commands
    <2> QED
      BY <1>1, <1>5, <2>1, DoTypes
  <1>6. CASE CheckHook
    BY <1>3, <1>4, <1>6 DEF CheckHook
  <1>7. CASE ReadParent
    <2> DEFINE parent == Parent[current]
               commands == <<Delete(current), Sync(parent, app[parent].compared),
                             Await(current), Note(current)>>
    <2>1. CASE Fail("read") \/ Fail("manual")
      BY <1>3, <2>1
    <2>2. CASE ~(Fail("read") \/ Fail("manual"))
      <3>1. Do(commands) /\ app[parent].alive /\ app[parent].compared # NoRev
        BY <1>7, <2>2 DEF ReadParent
      <3>2. parent \in Apps
        BY <1>2, <1>7, ClusterAssumption DEF ReadParent, ToolTypeOK
      <3>3. app[parent].compared \in Rev \cup {NoRev}
        BY <3>2 DEF ClusterTypeOK, AppState
      <3>4. {Delete(current), Sync(parent, app[parent].compared),
             Await(current), Note(current)} \subseteq Command
        BY <1>2, <3>2, <3>3, Commands
      <3>5. commands \in Seq(Command) \ {<< >>}
        BY <3>4
      <3> QED
        BY <1>1, <3>1, <3>5, DoTypes
    <2> QED
      BY <2>1, <2>2
  <1>8. CASE Repair
    <2>1. CASE Do(<<Sync(current, Latest)>>)
      BY <1>5, <2>1
    <2>2. CASE MoveOn("judge")
      BY <1>4, <2>2
    <2>3. CASE ~Do(<<Sync(current, Latest)>>) /\ ~MoveOn("judge")
      <3>1. /\ pc' = "poll" /\ seen' = NoApp
            /\ UNCHANGED <<stage, queue, todo, expected, expired, cooling, verdict>>
        BY <1>8, <2>3 DEF Repair
      <3> QED
        BY <1>1, <3>1, NewApplications DEF ToolTypeOK
    <2> QED
      BY <2>1, <2>2, <2>3
  <1>9. CASE Judge
    <2>1. CASE /\ queue' = queue \ {current} /\ pc' = "gate" /\ seen' = NoApp
               /\ UNCHANGED <<stage, todo, expected, expired, cooling, verdict>>
      BY <1>1, <2>1, NewApplications DEF ToolTypeOK
    <2>2. expected \in Rev
      BY DEF ToolTypeOK
    <2> QED
      BY <1>3, <1>4, <1>5, <1>9, <2>1, <2>2 DEF Judge
  <1> QED
    BY <1>6, <1>7, <1>8, <1>9

LEMMA DoneTypes ==
  ASSUME ToolTypeOK, pc = "run", Done, cooling' \subseteq Apps
  PROVE  ToolTypeOK'
  <1>1. todo \in Seq(Command) /\ todo # << >>
    BY DEF ToolTypeOK
  <1>2. todo' \in Seq(Command)
    BY <1>1, HeadTailProperties DEF Done
  <1>3. seen' \in AppState
    BY NewApplications DEF Done, ToolTypeOK
  <1> QED
    BY <1>2, <1>3 DEF Done, ToolTypeOK

LEMMA HeadType ==
  ASSUME ToolTypeOK, pc = "run"
  PROVE  Head(todo) \in Command
  <1>1. todo \in Seq(Command) /\ todo # << >>
    BY DEF ToolTypeOK
  <1> QED
    BY <1>1, HeadTailProperties

\* The commands, on the Application objects and in the process.
LEMMA CommandTypes ==
  ASSUME ToolTypeOK, ClusterTypeOK,
         RunUnset \/ RunSync \/ RunDelete \/ RunAwait \/ RunNote
  PROVE  ToolTypeOK' /\ ClusterTypeOK'
  <1> DEFINE a == Head(todo).on
  <1>1. pc = "run"
    BY DEF RunUnset, RunSync, RunDelete, RunAwait, RunNote, Runs
  <1>2. Head(todo) \in Command
    BY <1>1, HeadType
  <1>3. a \in Apps /\ Head(todo).rev \in Rev \cup {NoRev, Latest}
    BY <1>2 DEF Command
  <1>4. app[a] \in AppState
    BY <1>3 DEF ClusterTypeOK
  <1>5. cooling \subseteq Apps
    BY DEF ToolTypeOK
  <1> HIDE DEF a
  <1>6. CASE RunUnset
    <2> DEFINE stopped == app[a].phase = "Running"
    <2>1. stopped \in BOOLEAN
      OBVIOUS
    <2>2. [app[a] EXCEPT !.request = NoRev, !.halted = stopped] \in AppState
      <3> HIDE DEF stopped
      <3> QED
        BY <1>4, <2>1 DEF AppState
    <2>3. \/ app' = app
          \/ app' = [app EXCEPT ![a] = [app[a] EXCEPT !.request = NoRev,
                                                      !.halted = stopped]]
      BY <1>6 DEF RunUnset, a
    <2>4. ClusterTypeOK'
      BY <1>3, <1>6, <2>2, <2>3 DEF RunUnset, ClusterTypeOK
    <2> QED
      BY <1>1, <1>5, <1>6, <2>4, DoneTypes DEF RunUnset
  <1>7. CASE RunSync
    <2>1. [app[a] EXCEPT !.request = Head(todo).rev] \in AppState
      BY <1>3, <1>4 DEF AppState
    <2>2. \/ /\ app' = [app EXCEPT ![a] = [app[a] EXCEPT !.request = Head(todo).rev]]
             /\ Done /\ cooling' = cooling
          \/ Fail("kubectl") /\ app' = app
      BY <1>7 DEF RunSync, a
    <2>3. ClusterTypeOK'
      BY <1>3, <1>7, <2>1, <2>2 DEF RunSync, ClusterTypeOK
    <2>4. CASE Fail("kubectl")
      BY <2>3, <2>4, FailTypes DEF Verdict
    <2> QED
      BY <1>1, <1>5, <2>2, <2>3, <2>4, DoneTypes
  <1>8. CASE RunDelete
    <2>1. app' = [app EXCEPT ![a] = NoApp]
      BY <1>8 DEF RunDelete, a
    <2>2. ClusterTypeOK'
      BY <1>3, <1>8, <2>1, NewApplications DEF RunDelete, ClusterTypeOK
    <2> QED
      BY <1>1, <1>5, <1>8, <2>2, DoneTypes DEF RunDelete
  <1>9. CASE RunAwait
    <2>1. ClusterTypeOK'
      BY <1>9, FaultType DEF RunAwait, ClusterTypeOK
    <2>2. CASE Fail("recreation")
      BY <2>1, <2>2, FailTypes DEF Verdict
    <2>3. CASE ~Fail("recreation")
      BY <1>1, <1>5, <1>9, <2>1, <2>3, DoneTypes DEF RunAwait
    <2> QED
      BY <2>2, <2>3
  <1>10. CASE RunNote
    <2>1. cooling' \subseteq Apps
      BY <1>3, <1>5, <1>10 DEF RunNote, a
    <2> QED
      BY <1>1, <1>10, <2>1, DoneTypes DEF RunNote, cluster, ClusterTypeOK
  <1> QED
    BY <1>6, <1>7, <1>8, <1>9, <1>10

\* Time, failures, and ArgoCD on its own.
LEMMA OtherTypes ==
  ASSUME ToolTypeOK, ClusterTypeOK,
         \/ Expire \/ Abort \/ (\E a \in Apps : CoolDown(a))
         \/ ClusterStep /\ UNCHANGED tool
  PROVE  ToolTypeOK' /\ ClusterTypeOK'
  <1>1. CASE Expire
    BY <1>1, SameCurrent DEF Expire, cluster, ToolTypeOK, ClusterTypeOK
  <1>2. CASE Abort
    <2>1. ToolTypeOK'
      BY <1>2, FailTypes DEF Abort, Verdict
    <2>2. ClusterTypeOK'
      BY <1>2, FaultType DEF Abort, ClusterTypeOK
    <2> QED
      BY <2>1, <2>2
  <1>3. CASE \E a \in Apps : CoolDown(a)
    BY <1>3, SameCurrent DEF CoolDown, cluster, ToolTypeOK, ClusterTypeOK
  <1>4. CASE ClusterStep /\ UNCHANGED tool
    BY <1>4, ClusterTypes, SameCurrent DEF tool, ToolTypeOK
  <1> QED
    BY <1>1, <1>2, <1>3, <1>4

LEMMA StepTypes == TypeOK /\ [Next]_vars => TypeOK'
  <1> SUFFICES ASSUME ToolTypeOK, ClusterTypeOK, [Next]_vars
               PROVE  ToolTypeOK' /\ ClusterTypeOK'
    BY TypeParts
  <1>1. CASE Start \/ NextStage \/ Ready \/ SecretGate \/ Exists
    <2>1. ClusterTypeOK'
      BY <1>1 DEF Start, NextStage, Ready, SecretGate, Exists, cluster,
                  ClusterTypeOK
    <2> QED
      BY <1>1, <2>1, StageTypes
  <1>2. CASE DownloaderGate
    <2>1. ClusterTypeOK'
      BY <1>2, FaultType DEF DownloaderGate, ClusterTypeOK
    <2> QED
      BY <1>2, <2>1, StageTypes
  <1>3. CASE Poll
    <2>1. ClusterTypeOK'
      BY <1>3 DEF Poll, cluster, ClusterTypeOK
    <2> QED
      BY <1>3, <2>1, PollTypes
  <1>4. CASE CheckHook \/ ReadParent \/ Judge \/ Repair
    <2>1. app' = app /\ branch' = branch /\ crds' = crds /\ faults' = faults
          /\ stalled' \in BOOLEAN
      BY <1>4 DEF CheckHook, ReadParent, Judge, Repair, MoveOn, Do, cluster,
                  ClusterTypeOK
    <2> QED
      BY <1>4, <2>1, RecoveryTypes DEF ClusterTypeOK
  <1>5. CASE RunUnset \/ RunSync \/ RunDelete \/ RunAwait \/ RunNote
    BY <1>5, CommandTypes
  <1>6. CASE \/ Expire \/ Abort \/ (\E a \in Apps : CoolDown(a))
             \/ ClusterStep /\ UNCHANGED tool
    BY <1>6, OtherTypes
  <1>7. CASE UNCHANGED vars
    BY <1>7, SameCurrent DEF vars, tool, cluster, ToolTypeOK, ClusterTypeOK
  <1> QED
    BY <1>1, <1>2, <1>3, <1>4, <1>5, <1>6, <1>7 DEF Next, ToolStep

LEMMA InitTypes == Init => TypeOK
  <1> SUFFICES ASSUME Init PROVE ToolTypeOK
    BY TypeParts, ClusterInitTypes DEF Init
  <1>1. expected \in Rev
    BY Revisions, ClusterAssumption DEF Init
  <1>2. pc = "done" /\ stage = 1 /\ queue = {} /\ todo = << >> /\ verdict = ""
        /\ expired = FALSE /\ cooling = {} /\ seen = NoApp
    BY DEF Init
  <1>3. << >> \in Seq(Command)
    OBVIOUS
  <1>4. todo \in Seq(Command)
    BY <1>2, <1>3
  <1>5. seen \in AppState
    BY <1>2, NewApplications
  <1>6. stage \in 1..Len(Stages)
    <2>1. stage = 1
      BY <1>2
    <2> QED
      BY <2>1, SixStages
  <1>7. pc = "run" <=> todo # << >>
    BY <1>2
  <1> QED
    BY <1>1, <1>2, <1>4, <1>5, <1>6, <1>7 DEF ToolTypeOK, Verdict

\* Every variable keeps its type, whatever the commands, ArgoCD and other
\* publishers do between one another: in particular the process has a gate
\* whenever it polls, and commands whenever it runs them.
THEOREM ReadinessTypeCorrect == Spec => []TypeOK
  BY InitTypes, StepTypes, PTL DEF Spec

-----------------------------------------------------------------------------
(* Recycling: only an Application outside its cooldown is deleted *)

Kept == {c \in Command : c.do # "delete"}

\* A recycle starts with its deletion, which was decided on outside the
\* cooldown; nothing starts a cooldown before the deletion has run.
RecycleInv ==
  /\ todo # << >> => Tail(todo) \in Seq(Kept)
  /\ todo # << >> /\ Head(todo).do = "delete" => Head(todo).on \notin cooling
  /\ pc = "parent" => current \notin cooling

LEMMA KeptCommands ==
  ASSUME NEW a \in Apps, NEW r \in Rev \cup {NoRev, Latest}
  PROVE  {Unset(a), Sync(a, r), Await(a), Note(a)} \subseteq Kept
  <1>1. {Unset(a), Sync(a, r), Await(a), Note(a)} \subseteq Command
    BY Commands
  <1> QED
    BY <1>1 DEF Kept, Unset, Sync, Await, Note

\* What a step decides to do, and what is left after a command.
LEMMA OneCommand ==
  ASSUME NEW c \in Kept
  PROVE  /\ <<c>> # << >> /\ Head(<<c>>) = c
         /\ Tail(<<c>>) \in Seq(Kept)
  OBVIOUS

LEMMA TwoCommands ==
  ASSUME NEW c \in Kept, NEW d \in Kept
  PROVE  /\ <<c, d>> # << >> /\ Head(<<c, d>>) = c
         /\ Tail(<<c, d>>) \in Seq(Kept)
  OBVIOUS

LEMMA FourCommands ==
  ASSUME NEW c, NEW d \in Kept, NEW e \in Kept, NEW f \in Kept
  PROVE  /\ <<c, d, e, f>> # << >> /\ Head(<<c, d, e, f>>) = c
         /\ Tail(<<c, d, e, f>>) \in Seq(Kept)
  OBVIOUS

LEMMA DoneRecycles ==
  ASSUME TypeOK, RecycleInv, pc = "run", Done
  PROVE  RecycleInv'
  <1>1. todo # << >> /\ Tail(todo) \in Seq(Kept) /\ todo' = Tail(todo)
    BY DEF TypeOK, RecycleInv, Done
  <1>2. todo' # << >> => Head(todo') \in Kept /\ Tail(todo') \in Seq(Kept)
    BY <1>1, HeadTailProperties
  <1>3. pc' # "parent"
    BY DEF Done
  <1> QED
    BY <1>2, <1>3 DEF RecycleInv, Kept

\* Every step keeps RecycleInv.
LEMMA StepRecycles == TypeOK /\ RecycleInv /\ [Next]_vars => RecycleInv'
  <1> SUFFICES ASSUME TypeOK, RecycleInv, [Next]_vars
               PROVE  RecycleInv'
    OBVIOUS
  <1>1. ASSUME NEW why, Fail(why) PROVE RecycleInv'
    BY <1>1 DEF Fail, RecycleInv
  <1>2. ASSUME NEW to, MoveOn(to), to = "parent" => current \notin cooling,
               todo = << >>
        PROVE  RecycleInv'
    BY <1>2, SameCurrent DEF MoveOn, RecycleInv
  <1>3. ASSUME todo' = todo, pc' # "parent", cooling' \subseteq cooling
        PROVE  RecycleInv'
    BY <1>3 DEF RecycleInv
  <1>4. queue \subseteq Apps /\ (pc # "run" => todo = << >>)
        /\ (pc \in {"poll", "hook", "parent", "repair", "judge"} => queue # {})
        /\ expected \in Rev /\ app \in [Apps -> AppState]
    BY DEF TypeOK
  <1>5. queue # {} => current \in Apps
    BY <1>4, CurrentInQueue
  <1>6. ASSUME NEW r \in Rev \cup {NoRev, Latest}, queue # {},
               Do(<<Sync(current, r)>>)
        PROVE  RecycleInv'
    <2>1. Sync(current, r) \in Kept
      BY <1>5, <1>6, KeptCommands
    <2>2. /\ todo' # << >> /\ Head(todo') = Sync(current, r)
          /\ Tail(todo') \in Seq(Kept) /\ pc' = "run"
      BY <1>6, <2>1, OneCommand DEF Do
    <2> QED
      BY <2>2 DEF RecycleInv, Sync
  <1>7. CASE Start \/ NextStage \/ Ready \/ Abort
    BY <1>1, <1>3, <1>7 DEF Start, NextStage, Ready, Abort, Goto
  <1>8. CASE SecretGate \/ DownloaderGate \/ Exists
    BY <1>1, <1>3, <1>8 DEF SecretGate, DownloaderGate, Exists
  <1>9. CASE Poll
    <2>1. CASE Fail("timeout") \/ Fail("read")
      BY <1>1, <2>1
    <2>2. CASE pc' = "run" /\ todo' = StaleRecovery(current, seen')
      <3>1. Unset(current) \in Kept /\ Sync(current, expected) \in Kept
        BY <1>4, <1>5, <1>9, KeptCommands DEF Poll
      <3>2. /\ todo' # << >> /\ Head(todo') = Unset(current)
            /\ Tail(todo') \in Seq(Kept)
        BY <2>2, <3>1, TwoCommands DEF StaleRecovery
      <3> QED
        BY <2>2, <3>2 DEF RecycleInv, Unset
    <2> QED
      BY <1>3, <1>9, <2>1, <2>2 DEF Poll
  <1>10. CASE CheckHook
    BY <1>1, <1>2, <1>4, <1>10 DEF CheckHook, Cooling
  <1>11. CASE ReadParent
    <2> DEFINE parent == Parent[current]
    <2>1. CASE Fail("read") \/ Fail("manual")
      BY <1>1, <2>1
    <2>2. CASE ~(Fail("read") \/ Fail("manual"))
      <3>1. Do(<<Delete(current), Sync(parent, app[parent].compared),
                 Await(current), Note(current)>>)
        BY <1>11, <2>2 DEF ReadParent
      <3>2. current \in Apps /\ parent \in Apps
        BY <1>4, <1>5, <1>11, ClusterAssumption DEF ReadParent, TypeOK
      <3>3. app[parent].compared \in Rev \cup {NoRev}
        BY <1>4, <3>2 DEF AppState
      <3>4. {Sync(parent, app[parent].compared), Await(current), Note(current)}
              \subseteq Kept
        BY <3>2, <3>3, KeptCommands
      <3>5. /\ todo' # << >> /\ Head(todo') = Delete(current)
            /\ Tail(todo') \in Seq(Kept) /\ pc' = "run" /\ cooling' = cooling
        BY <3>1, <3>4, FourCommands DEF Do
      <3>6. current \notin cooling
        BY <1>11 DEF ReadParent, RecycleInv
      <3> QED
        BY <3>5, <3>6 DEF RecycleInv, Delete
    <2> QED
      BY <2>1, <2>2
  <1>12. CASE Repair
    <2>1. queue # {}
      BY <1>4, <1>12 DEF Repair
    <2> QED
      BY <1>2, <1>3, <1>4, <1>6, <1>12, <2>1 DEF Repair
  <1>13. CASE Judge
    <2>1. queue # {}
      BY <1>4, <1>13 DEF Judge
    <2> QED
      BY <1>1, <1>2, <1>3, <1>4, <1>6, <1>13, <2>1 DEF Judge
  <1>14. CASE RunUnset \/ RunSync \/ RunDelete \/ RunAwait \/ RunNote
    <2>1. pc = "run"
      BY <1>14 DEF RunUnset, RunSync, RunDelete, RunAwait, RunNote, Runs
    <2> QED
      BY <1>1, <1>14, <2>1, DoneRecycles
         DEF RunUnset, RunSync, RunDelete, RunAwait, RunNote
  <1>15. CASE \/ Expire \/ (\E a \in Apps : CoolDown(a))
              \/ (ClusterStep /\ UNCHANGED tool) \/ UNCHANGED vars
    <2>1. todo' = todo /\ pc' = pc /\ queue' = queue /\ cooling' \subseteq cooling
      BY <1>15 DEF Expire, CoolDown, tool, vars
    <2> QED
      BY <2>1, SameCurrent DEF RecycleInv
  <1> QED
    BY <1>7, <1>8, <1>9, <1>10, <1>11, <1>12, <1>13, <1>14, <1>15
       DEF Next, ToolStep

\* ArgoCD only creates Applications.
LEMMA ClusterKeeps ==
  ASSUME TypeOK, ClusterStep, NEW a \in Apps, app[a].alive
  PROVE  app'[a].alive
  <1>1. app \in [Apps -> AppState]
    BY DEF TypeOK
  <1>2. ASSUME NEW b \in Apps, Compare(b)
        PROVE  app'[a].alive
    <2> DEFINE sync == InSync(b)
               req == IF AutoSync(b) THEN Target(b) ELSE app[b].request
    <2>1. app' = [app EXCEPT ![b] = [app[b] EXCEPT
                    !.compared = Target(b), !.synced = sync, !.request = req]]
      BY <1>2 DEF Compare
    <2> HIDE DEF sync, req
    <2> QED
      BY <1>1, <2>1 DEF AppState
  <1>3. ASSUME NEW b \in Apps, Begin(b)
        PROVE  app'[a].alive
    <2> DEFINE rev == IF app[b].request = Latest THEN Target(b)
                                                  ELSE app[b].request
               pin == app[b].request # Latest
    <2>1. app' = [app EXCEPT ![b] = [app[b] EXCEPT
                    !.phase = "Running", !.why = "", !.opRev = rev,
                    !.pinned = pin, !.opts = TRUE, !.halted = FALSE]]
      BY <1>3 DEF Begin
    <2> HIDE DEF rev, pin
    <2> QED
      BY <1>1, <2>1 DEF AppState
  <1>7. ASSUME NEW b \in Apps, WaitForHook(b) \/ LoseHook(b)
        PROVE  app'[a].alive
    BY <1>1, <1>7 DEF WaitForHook, LoseHook, AppState
  <1>8. ASSUME NEW b \in Apps, FailOperation(b)
        PROVE  app'[a].alive
    <2> DEFINE end == IF Obstacle(b) = "other" THEN "Error" ELSE "Failed"
               reason == IF Obstacle(b) # "" THEN Obstacle(b)
                         ELSE IF app[b].why = "hook" THEN "hook" ELSE "other"
    <2>1. app' = [app EXCEPT ![b] = [app[b] EXCEPT
                    !.phase = end, !.why = reason, !.request = NoRev]]
      BY <1>8 DEF FailOperation
    <2> HIDE DEF end, reason
    <2> QED
      BY <1>1, <2>1 DEF AppState
  <1>4. ASSUME NEW b \in Apps, Complete(b)
        PROVE  app'[a].alive
    BY <1>1, <1>4 DEF Complete, Fresh, AppState
  <1>5. ASSUME NEW b \in Apps, BecomeHealthy(b) \/ Degrade(b) \/ ManualSync(b)
        PROVE  app'[a].alive
    BY <1>1, <1>5 DEF BecomeHealthy, Degrade, ManualSync, AppState
  <1>6. CASE Publish
    BY <1>6 DEF Publish
  <1> QED
    BY <1>2, <1>3, <1>4, <1>5, <1>6, <1>7, <1>8 DEF ClusterStep

\* An Application disappears only in RunDelete, and it is the one deleted.
LEMMA OnlyDeleted ==
  ASSUME TypeOK, [Next]_vars, NEW a \in Apps, app[a].alive, ~app'[a].alive
  PROVE  RunDelete /\ a = Head(todo).on
  <1>1. app \in [Apps -> AppState] /\ app' # app
    BY DEF TypeOK
  <1>2. ~(ClusterStep /\ UNCHANGED tool)
    BY ClusterKeeps
  <1>3. ASSUME RunUnset PROVE FALSE
    <2> DEFINE b == Head(todo).on
               stopped == app[b].phase = "Running"
    <2>1. \/ app' = app
          \/ app' = [app EXCEPT ![b] = [app[b] EXCEPT !.request = NoRev,
                                                      !.halted = stopped]]
      BY <1>3 DEF RunUnset
    <2> HIDE DEF b, stopped
    <2> QED
      BY <1>1, <2>1 DEF AppState
  <1>5. ASSUME RunSync PROVE FALSE
    <2> DEFINE b == Head(todo).on
               rev == Head(todo).rev
    <2>1. \/ app' = app
          \/ app' = [app EXCEPT ![b] = [app[b] EXCEPT !.request = rev]]
      BY <1>5 DEF RunSync
    <2> HIDE DEF b, rev
    <2> QED
      BY <1>1, <2>1 DEF AppState
  <1>4. RunDelete
    BY <1>1, <1>2, <1>3, <1>5
       DEF Next, ToolStep, Start, NextStage, Ready, SecretGate, DownloaderGate,
           Exists, Poll, CheckHook, ReadParent, Repair, Judge, RunAwait, RunNote,
           Expire, Abort, CoolDown, Do, MoveOn, cluster, vars
  <1> QED
    BY <1>1, <1>4 DEF RunDelete

\* Whatever the operation of a child reports, and however often its hook is
\* found missing, it is not deleted again before its cooldown has passed.
THEOREM CooldownsAreKept == Spec => RecyclesOncePerCooldown
  <1>1. Init => RecycleInv
    BY DEF Init, RecycleInv
  <1>2. ASSUME TypeOK, RecycleInv, [Next]_vars,
               NEW a \in Apps, app[a].alive, ~app'[a].alive
        PROVE  a \notin cooling
    <2>1. RunDelete /\ a = Head(todo).on
      BY <1>2, OnlyDeleted
    <2> QED
      BY <1>2, <2>1 DEF RunDelete, Runs, RecycleInv, TypeOK
  <1>3. TypeOK /\ RecycleInv /\ [Next]_vars
          => [\A a \in Apps : app[a].alive /\ ~app'[a].alive
                                => a \notin cooling]_vars
    BY <1>2
  <1> QED
    BY <1>1, <1>3, InitTypes, StepTypes, StepRecycles, PTL
       DEF Spec, RecyclesOncePerCooldown

-----------------------------------------------------------------------------
(* Stuck hooks: only an Application with a chart for its source is treated *)
(* as one, because the manifests of the repository have no hooks           *)

\* An Application of the repository never waits for a hook, so no poll that
\* found one stuck is about it.
HookInv ==
  /\ \A a \in GitApps : app[a].why # "hook"
  /\ pc \in {"hook", "parent"} => current \notin GitApps

\* What ArgoCD does to one Application, and a sync to the others.
LEMMA HooksInCharts ==
  ASSUME TypeOK, NEW a \in GitApps, app[a].why # "hook", [Next]_vars
  PROVE  app'[a].why # "hook"
  <1>1. app \in [Apps -> AppState] /\ a \in Apps /\ a \notin Hooked
        /\ app[a] \in AppState
    BY ClusterAssumption DEF TypeOK
  <1>2. ASSUME NEW b \in Apps, Compare(b) \/ LoseHook(b) \/ BecomeHealthy(b)
                               \/ Degrade(b) \/ ManualSync(b)
        PROVE  app'[a].why # "hook"
    <2>1. CASE Compare(b)
      <3> DEFINE sync == InSync(b)
                 req == IF AutoSync(b) THEN Target(b) ELSE app[b].request
      <3>1. app' = [app EXCEPT ![b] = [app[b] EXCEPT
                      !.compared = Target(b), !.synced = sync, !.request = req]]
        BY <2>1 DEF Compare
      <3> HIDE DEF sync, req
      <3>2. CASE b = a
        <4>1. app'[a] = [app[a] EXCEPT
                !.compared = Target(b), !.synced = sync, !.request = req]
          BY <1>1, <3>1, <3>2
        <4> QED
          BY <1>1, <4>1 DEF AppState
      <3> QED
        BY <1>1, <3>1, <3>2
    <2>2. CASE LoseHook(b)
      <3>1. app'[a] = app[a] \/ app'[a] = [app[a] EXCEPT !.hook = FALSE]
        BY <1>1, <2>2 DEF LoseHook
      <3> QED
        BY <1>1, <3>1 DEF AppState
    <2>3. CASE BecomeHealthy(b)
      BY <1>1, <2>3 DEF BecomeHealthy, AppState
    <2>4. CASE Degrade(b)
      BY <1>1, <2>4 DEF Degrade, AppState
    <2>5. CASE ManualSync(b)
      BY <1>1, <2>5 DEF ManualSync, AppState
    <2> QED
      BY <1>2, <2>1, <2>2, <2>3, <2>4, <2>5
  <1>3. ASSUME NEW b \in Apps, Begin(b)
        PROVE  app'[a].why # "hook"
    <2> DEFINE rev == IF app[b].request = Latest THEN Target(b)
                                                  ELSE app[b].request
               pin == app[b].request # Latest
    <2>1. app' = [app EXCEPT ![b] = [app[b] EXCEPT
                    !.phase = "Running", !.why = "", !.opRev = rev,
                    !.pinned = pin, !.opts = TRUE, !.halted = FALSE]]
      BY <1>3 DEF Begin
    <2> HIDE DEF rev, pin
    <2> QED
      BY <1>1, <2>1 DEF AppState
  <1>4. ASSUME NEW b \in Apps, WaitForHook(b)
        PROVE  app'[a].why # "hook"
    BY <1>1, <1>4 DEF WaitForHook, AppState
  <1>5. ASSUME NEW b \in Apps, Complete(b)
        PROVE  app'[a].why # "hook"
    BY <1>1, <1>5 DEF Complete, Fresh, AppState
  <1>6. ASSUME NEW b \in Apps, FailOperation(b)
        PROVE  app'[a].why # "hook"
    <2> DEFINE end == IF Obstacle(b) = "other" THEN "Error" ELSE "Failed"
               reason == IF Obstacle(b) # "" THEN Obstacle(b)
                         ELSE IF app[b].why = "hook" THEN "hook" ELSE "other"
    <2>1. app' = [app EXCEPT ![b] = [app[b] EXCEPT
                    !.phase = end, !.why = reason, !.request = NoRev]]
      BY <1>6 DEF FailOperation
    <2>2. Obstacle(b) \in {"other", "crd", "annotation", ""}
      BY DEF Obstacle
    <2>3. b = a => reason # "hook"
      BY <2>2
    <2> HIDE DEF end, reason
    <2> QED
      BY <1>1, <2>1, <2>3 DEF AppState
  <1>7. CASE ClusterStep
    <2>1. Publish => app' = app
      BY DEF Publish
    <2> QED
      BY <1>2, <1>3, <1>4, <1>5, <1>6, <1>7, <2>1 DEF ClusterStep
  <1>8. CASE RunUnset
    <2> DEFINE b == Head(todo).on
               stopped == app[b].phase = "Running"
    <2>1. \/ app' = app
          \/ app' = [app EXCEPT ![b] = [app[b] EXCEPT !.request = NoRev,
                                                      !.halted = stopped]]
      BY <1>8 DEF RunUnset
    <2> HIDE DEF b, stopped
    <2>2. CASE b = a
      <3>1. \/ app'[a] = app[a]
            \/ app'[a] = [app[a] EXCEPT !.request = NoRev, !.halted = stopped]
        BY <1>1, <2>1, <2>2
      <3> QED
        BY <1>1, <3>1 DEF AppState
    <2> QED
      BY <1>1, <2>1, <2>2
  <1>9. CASE RunSync \/ RunDelete
    <2> DEFINE b == Head(todo).on
    <2>1. \/ app' = app
          \/ app' = [app EXCEPT ![b] = [app[b] EXCEPT !.request = Head(todo).rev]]
          \/ app' = [app EXCEPT ![b] = NoApp]
      BY <1>9 DEF RunSync, RunDelete
    <2>2. NoApp.why = ""
      BY DEF NoApp, Fresh
    <2> HIDE DEF b
    <2>3. CASE b = a
      BY <1>1, <2>1, <2>2, <2>3 DEF AppState
    <2> QED
      BY <1>1, <2>1, <2>3
  <1> QED
    BY <1>7, <1>8, <1>9
       DEF Next, ToolStep, Start, NextStage, Ready, SecretGate, DownloaderGate,
           Exists, Poll, CheckHook, ReadParent, Repair, Judge, RunAwait, RunNote,
           Expire, Abort, CoolDown, Do, MoveOn, cluster, vars

LEMMA StepHooks == TypeOK /\ HookInv /\ [Next]_vars => HookInv'
  <1> SUFFICES ASSUME TypeOK, HookInv, [Next]_vars
               PROVE  pc' \in {"hook", "parent"} => current' \notin GitApps
    BY HooksInCharts DEF HookInv
  <1>1. ASSUME pc' = pc, queue' = queue
        PROVE  pc' \in {"hook", "parent"} => current' \notin GitApps
    BY <1>1, SameCurrent DEF HookInv
  <1>2. CASE Poll
    <2>1. SUFFICES ASSUME pc' = "hook", current' \in GitApps PROVE FALSE
      BY <1>2 DEF Poll, Fail
    <2>2. seen' = app[current] /\ HookStall(seen') /\ queue' = queue
      BY <1>2, <2>1 DEF Poll, Fail
    <2> QED
      BY <2>1, <2>2, SameCurrent DEF HookStall, HookInv
  <1>3. CASE CheckHook
    BY <1>3, SameCurrent DEF CheckHook, MoveOn, Fail, HookInv
  <1>4. CASE ReadParent \/ Repair \/ Judge
    BY <1>4 DEF ReadParent, Repair, Judge, MoveOn, Do, Fail
  <1>5. CASE \/ Start \/ NextStage \/ Ready \/ SecretGate \/ DownloaderGate
             \/ Exists \/ Abort
    BY <1>5 DEF Start, NextStage, Ready, SecretGate, DownloaderGate, Exists,
                Abort, Fail, Goto
  <1>6. CASE RunUnset \/ RunSync \/ RunDelete \/ RunAwait \/ RunNote
    BY <1>6 DEF RunUnset, RunSync, RunDelete, RunAwait, RunNote, Done, Fail
  <1>7. CASE \/ Expire \/ (\E a \in Apps : CoolDown(a))
             \/ (ClusterStep /\ UNCHANGED tool) \/ UNCHANGED vars
    BY <1>1, <1>7 DEF Expire, CoolDown, tool, vars
  <1> QED
    BY <1>2, <1>3, <1>4, <1>5, <1>6, <1>7 DEF Next, ToolStep

LEMMA InitHooks == Init => HookInv
  <1> SUFFICES ASSUME Init, NEW a \in GitApps PROVE app[a].why # "hook"
    BY DEF Init, HookInv
  <1>1. a \in Apps /\ a \notin Hooked /\ app[a] \in InitialStates(a)
    BY ClusterAssumption DEF Init, ClusterInit
  <1>2. ASSUME NEW n PROVE Fresh(n).why # "hook"
    BY DEF Fresh
  <1>3. Settled(a).why # "hook" /\ NoApp.why # "hook"
    BY DEF Settled, NoApp, Fresh
  <1>4. ASSUME NEW l \in Leftovers, l[1] = a
        PROVE  LeftFailed(a, l[2]).why # "hook"
    <2>1. l[2] # "hook"
      BY <1>1, <1>4, ClusterAssumption
    <2> QED
      BY <2>1 DEF LeftFailed, Settled, Fresh
  <1> QED
    BY <1>1, <1>2, <1>3, <1>4 DEF InitialStates

\* The command gives up on a failure of an Application of the repository only
\* if the poll found it compared with the expected commit.
THEOREM FailuresAreCurrent == Spec => StaleFailureIsNotFinal
  <1>1. ASSUME HookInv, [Next]_vars, verdict = "",
               verdict' \in {"failed", "degraded", "manual"}, current \in GitApps
        PROVE  seen.compared = expected
    <2>1. CASE Judge
      BY <1>1, <2>1 DEF Judge, Fail, Do, MoveOn, RevisionCurrent
    <2>2. CASE CheckHook \/ ReadParent
      BY <1>1, <2>2 DEF CheckHook, ReadParent, HookInv
    <2> QED
      BY <1>1, <2>1, <2>2
         DEF Next, ToolStep, Start, NextStage, Ready, SecretGate, DownloaderGate,
             Exists, Poll, Repair, RunUnset, RunSync, RunDelete, RunAwait,
             RunNote, Done, Expire, Abort, CoolDown, Do, MoveOn, Fail, tool, vars
  <1>2. HookInv /\ [Next]_vars
          => [verdict = "" /\ verdict' \in {"failed", "degraded", "manual"}
                /\ current \in GitApps => seen.compared = expected]_vars
    BY <1>1
  <1> QED
    BY <1>2, InitTypes, StepTypes, InitHooks, StepHooks, PTL
       DEF Spec, StaleFailureIsNotFinal

-----------------------------------------------------------------------------
(* Every Application of the repository leaves the commit from before the     *)
(* publication for a published one, and never returns, whoever else pushes   *)

\* The commit from before, and those that may be published.
Old == Git(StartRev - 1)
Top == IF MaxRev > StartRev THEN MaxRev ELSE StartRev
Published == {Git(n) : n \in StartRev..Top}

\* What the rest is about: an Application that deploys others has its gate
\* before the children have theirs.
GatedParents == \A c \in Apps : Parent[c] \in RootGates \cup {None}

\* The state of an Application of the repository.
OnTrack(s) ==
  /\ s.compared \in {NoRev, Old} \cup Published
  /\ s.applied \in {NoRev, Old} \cup Published
  /\ s.request \in {NoRev, Latest} \cup Published
  /\ s.phase = "Running" => s.opRev \in Published
  /\ s.synced /\ s.compared \in Published => s.applied \in Published
  /\ ~s.alive => s.compared = NoRev /\ s.applied = NoRev

\* Nothing is taken back between an earlier and a later state of it.
Advances(s, t) ==
  /\ s.compared \in Published => t.compared \in Published
  /\ s.applied \in Published => t.applied \in Published

LEMMA Tags ==
  /\ Old \in Rev /\ NoRev # Latest /\ Old # NoRev /\ Old # Latest
  /\ Old[1] = "git" /\ Old[2] = StartRev - 1
  /\ NoRev[1] = "none"
  /\ Old \notin Published /\ NoRev \notin Published /\ Latest \notin Published
  /\ \A r \in Published : /\ r \in Rev /\ r[1] = "git" /\ r = Git(r[2])
                          /\ r[2] \in StartRev..Top
  <1>1. StartRev \in Nat \ {0} /\ StartRev - 1 \in Nat /\ Top \in Nat
    BY ClusterAssumption DEF Top
  <1>2. /\ Old \in Rev /\ NoRev # Latest /\ Old # NoRev /\ Old # Latest
        /\ Old[1] = "git" /\ Old[2] = StartRev - 1 /\ NoRev[1] = "none"
    BY <1>1 DEF Old, Git, Rev, NoRev, Latest
  <1>3. ASSUME NEW n \in StartRev..Top
        PROVE  /\ Git(n) \in Rev /\ Git(n)[1] = "git" /\ Git(n)[2] = n
               /\ Git(n) # Old /\ Git(n) # NoRev /\ Git(n) # Latest
    BY <1>1 DEF Old, Git, Rev, NoRev, Latest
  <1> QED
    BY <1>2, <1>3 DEF Published

LEMMA Untouched ==
  ASSUME NEW s, OnTrack(s)
  PROVE  Advances(s, s)
  BY DEF Advances

\* Another Application is none of its business.
LEMMA OneOnTrack ==
  ASSUME TypeOK, NEW a \in Apps, NEW b \in Apps, NEW s,
         app' = [app EXCEPT ![b] = s],
         OnTrack(app[a]), b = a => OnTrack(s) /\ Advances(app[a], s)
  PROVE  OnTrack(app'[a]) /\ Advances(app[a], app'[a])
  <1>1. app \in [Apps -> AppState]
    BY DEF TypeOK
  <1>2. CASE b = a
    <2>1. app'[a] = s
      BY <1>1, <1>2
    <2> QED
      BY <1>2, <2>1
  <1>3. CASE b # a
    <2>1. app'[a] = app[a]
      BY <1>1, <1>3
    <2> QED
      BY <2>1, Untouched
  <1> QED
    BY <1>2, <1>3

\* The controller, on its own.
LEMMA ClusterOnTrack ==
  ASSUME TypeOK, branch \in StartRev..Top, NEW a \in GitApps, OnTrack(app[a]),
         ClusterStep
  PROVE  OnTrack(app'[a]) /\ Advances(app[a], app'[a])
  <1>1. app \in [Apps -> AppState] /\ a \in Apps /\ app[a] \in AppState
    BY ClusterAssumption DEF TypeOK
  <1>2. Target(a) \in Published
    BY DEF Target, Published
  <1>3. ASSUME NEW b \in Apps, Compare(b)
        PROVE  OnTrack(app'[a]) /\ Advances(app[a], app'[a])
    <2> DEFINE sync == InSync(b)
               req == IF AutoSync(b) THEN Target(b) ELSE app[b].request
               s == [app[b] EXCEPT !.compared = Target(b), !.synced = sync,
                                   !.request = req]
    <2>1. app' = [app EXCEPT ![b] = s]
      BY <1>3 DEF Compare
    <2>2. ASSUME b = a PROVE OnTrack(s) /\ Advances(app[a], s)
      <3>1. sync => app[a].applied \in Published
        BY <1>2, <2>2 DEF InSync
      <3>2. req \in {NoRev, Latest} \cup Published /\ app[a].alive
        BY <1>2, <1>3, <2>2 DEF OnTrack, Compare
      <3>3. sync \in BOOLEAN
        BY DEF InSync
      <3>4. s = [app[a] EXCEPT !.compared = Target(a), !.synced = sync, !.request = req]
        BY <2>2
      <3> HIDE DEF sync, req, s
      <3>5. /\ s.compared = Target(a) /\ s.applied = app[a].applied
            /\ s.request = req /\ s.phase = app[a].phase
            /\ s.opRev = app[a].opRev /\ s.alive = app[a].alive
        BY <1>1, <3>4 DEF AppState
      <3>6. s.synced = sync
        BY <1>1, <3>4 DEF AppState
      <3> QED
        BY <1>2, <3>1, <3>2, <3>5, <3>6 DEF OnTrack, Advances
    <2> QED
      BY <1>1, <2>1, <2>2, OneOnTrack
  <1>4. ASSUME NEW b \in Apps, Begin(b)
        PROVE  OnTrack(app'[a]) /\ Advances(app[a], app'[a])
    <2> DEFINE rev == IF app[b].request = Latest THEN Target(b)
                                                  ELSE app[b].request
               pin == app[b].request # Latest
               s == [app[b] EXCEPT !.phase = "Running", !.why = "", !.opRev = rev,
                                   !.pinned = pin, !.opts = TRUE, !.halted = FALSE]
    <2>1. app' = [app EXCEPT ![b] = s]
      BY <1>4 DEF Begin
    <2>2. ASSUME b = a PROVE OnTrack(s) /\ Advances(app[a], s)
      <3>1. rev \in Published
        BY <1>2, <1>4, <2>2, Tags DEF Begin, OnTrack
      <3>2. s = [app[a] EXCEPT !.phase = "Running", !.why = "", !.opRev = rev,
                               !.pinned = pin, !.opts = TRUE, !.halted = FALSE]
        BY <2>2
      <3> HIDE DEF rev, pin, s
      <3>3. /\ s.compared = app[a].compared /\ s.applied = app[a].applied
            /\ s.request = app[a].request /\ s.opRev = rev
            /\ s.synced = app[a].synced /\ s.alive = app[a].alive
        BY <1>1, <3>2 DEF AppState
      <3> QED
        BY <3>1, <3>3 DEF OnTrack, Advances
    <2> QED
      BY <1>1, <2>1, <2>2, OneOnTrack
  <1>5. ASSUME NEW b \in Apps, Complete(b)
        PROVE  OnTrack(app'[a]) /\ Advances(app[a], app'[a])
    <2> DEFINE n == app[b].opRev[2]
               s == [app[a] EXCEPT !.applied = app[a].opRev, !.phase = "Succeeded",
                       !.why = "", !.hook = FALSE, !.request = NoRev,
                       !.opRev = NoRev, !.pinned = FALSE, !.health = "Progressing"]
    <2>1. \/ b = a /\ app'[a] = s
          \/ app'[a] = app[a]
          \/ app[a].alive /\ app'[a] = [app[a] EXCEPT !.made = n]
          \/ ~app[a].alive /\ app'[a] = Fresh(n)
      BY <1>1, <1>5 DEF Complete
    <2>2. CASE b = a /\ app'[a] = s
      <3>1. app[a].opRev \in Published /\ app[a].alive
        BY <1>5, <2>2 DEF Complete, Working, OnTrack
      <3>2. /\ s.compared = app[a].compared /\ s.applied = app[a].opRev
            /\ s.request = NoRev /\ s.phase = "Succeeded"
            /\ s.synced = app[a].synced /\ s.alive = app[a].alive
        BY <1>1 DEF AppState
      <3> QED
        BY <2>2, <3>1, <3>2 DEF OnTrack, Advances
    <2>3. CASE app[a].alive /\ app'[a] = [app[a] EXCEPT !.made = n]
      <3> HIDE DEF n
      <3> QED
        BY <1>1, <2>3 DEF OnTrack, Advances, AppState
    <2>4. CASE ~app[a].alive /\ app'[a] = Fresh(n)
      <3> HIDE DEF n
      <3>1. /\ Fresh(n).compared = NoRev /\ Fresh(n).applied = NoRev
            /\ Fresh(n).request = NoRev /\ Fresh(n).phase = ""
        BY DEF Fresh
      <3>2. app[a].compared = NoRev /\ app[a].applied = NoRev
        BY <2>4 DEF OnTrack
      <3>3. OnTrack(Fresh(n))
        BY <3>1, Tags DEF OnTrack
      <3> QED
        BY <2>4, <3>2, <3>3, Tags DEF Advances
    <2> QED
      BY <2>1, <2>2, <2>3, <2>4, Untouched
  <1>6. ASSUME NEW b \in Apps, FailOperation(b)
        PROVE  OnTrack(app'[a]) /\ Advances(app[a], app'[a])
    <2> DEFINE end == IF Obstacle(b) = "other" THEN "Error" ELSE "Failed"
               reason == IF Obstacle(b) # "" THEN Obstacle(b)
                         ELSE IF app[b].why = "hook" THEN "hook" ELSE "other"
               s == [app[b] EXCEPT !.phase = end, !.why = reason, !.request = NoRev]
    <2>1. app' = [app EXCEPT ![b] = s]
      BY <1>6 DEF FailOperation
    <2>2. ASSUME b = a PROVE OnTrack(s) /\ Advances(app[a], s)
      <3>1. end # "Running"
        OBVIOUS
      <3>2. s = [app[a] EXCEPT !.phase = end, !.why = reason, !.request = NoRev]
        BY <2>2
      <3> HIDE DEF end, reason, s
      <3> QED
        BY <1>1, <3>1, <3>2 DEF OnTrack, Advances, AppState
    <2> QED
      BY <1>1, <2>1, <2>2, OneOnTrack
  <1>7. ASSUME NEW b \in Apps, WaitForHook(b) \/ LoseHook(b)
        PROVE  OnTrack(app'[a]) /\ Advances(app[a], app'[a])
    <2>1. \/ app'[a] = app[a]
          \/ app'[a] = [app[a] EXCEPT !.why = "hook", !.hook = TRUE]
          \/ app'[a] = [app[a] EXCEPT !.hook = FALSE]
      BY <1>1, <1>7 DEF WaitForHook, LoseHook
    <2> QED
      BY <1>1, <2>1 DEF OnTrack, Advances, AppState
  <1>8. ASSUME NEW b \in Apps, BecomeHealthy(b) \/ Degrade(b) \/ ManualSync(b)
        PROVE  OnTrack(app'[a]) /\ Advances(app[a], app'[a])
    <2>1. \/ app'[a] = app[a]
          \/ app'[a] = [app[a] EXCEPT !.health = "Healthy"]
          \/ app'[a] = [app[a] EXCEPT !.health = "Degraded"]
          \/ app'[a] = [app[a] EXCEPT !.request = Latest]
      BY <1>1, <1>8 DEF BecomeHealthy, Degrade, ManualSync
    <2> QED
      BY <1>1, <2>1 DEF OnTrack, Advances, AppState
  <1>9. CASE Publish
    BY <1>9, Untouched DEF Publish
  <1> QED
    BY <1>3, <1>4, <1>5, <1>6, <1>7, <1>8, <1>9 DEF ClusterStep

\* A command that may run on an Application of the repository.
Safe == {c \in Command : c.on \in GitApps =>
           c.do # "delete" /\ (c.do = "sync" => c.rev \in {Latest} \cup Published)}

\* The gates by name that the process has passed, and what that promises.
Passed == {a \in RootGates : stage > 1 \/ a \notin queue}
          \cup {a \in {Stack} : stage > 3 \/ (stage = 3 /\ a \notin queue)}
UpToDate(a) ==
  /\ app[a].compared \in Published
  /\ a \in Phased \/ app[a].applied \in Published

FreshInv ==
  /\ branch \in StartRev..Top /\ expected \in Published
  /\ \A a \in GitApps : OnTrack(app[a])
  /\ todo \in Seq(Safe)
  /\ queue # {} /\ current \in GitApps
       => OnTrack(seen) /\ Advances(seen, app[current])
  /\ pc \in {"done", "gate", "secret", "downloader", "poll"} => seen = NoApp
  /\ stage = 1 => queue \subseteq RootGates
  /\ pc # "done" => verdict = ""
  /\ verdict = "ready" => stage = 6
  /\ pc # "done" \/ verdict = "ready" => \A a \in Passed : UpToDate(a)

LEMMA SafeHead ==
  ASSUME TypeOK, FreshInv, pc = "run"
  PROVE  Head(todo) \in Safe /\ Tail(todo) \in Seq(Safe)
  <1>1. todo \in Seq(Safe) /\ todo # << >>
    BY DEF TypeOK, FreshInv
  <1> QED
    BY <1>1, HeadTailProperties

\* No step takes an Application of the repository back.
LEMMA AllOnTrack ==
  ASSUME TypeOK, FreshInv, [Next]_vars, NEW a \in GitApps
  PROVE  OnTrack(app'[a]) /\ Advances(app[a], app'[a])
  <1>1. app \in [Apps -> AppState] /\ a \in Apps /\ app[a] \in AppState
        /\ OnTrack(app[a]) /\ branch \in StartRev..Top
    BY ClusterAssumption DEF TypeOK, FreshInv
  <1>2. CASE ClusterStep
    BY <1>1, <1>2, ClusterOnTrack
  <1>3. CASE RunUnset
    <2> DEFINE b == Head(todo).on
               stopped == app[b].phase = "Running"
    <2>1. \/ app' = app
          \/ app' = [app EXCEPT ![b] = [app[b] EXCEPT !.request = NoRev,
                                                      !.halted = stopped]]
      BY <1>3 DEF RunUnset
    <2> HIDE DEF b, stopped
    <2>2. \/ app'[a] = app[a]
          \/ app'[a] = [app[a] EXCEPT !.request = NoRev, !.halted = stopped]
      BY <1>1, <2>1
    <2> QED
      BY <1>1, <2>2 DEF OnTrack, Advances, AppState
  <1>4. CASE RunSync
    <2> DEFINE b == Head(todo).on
               rev == Head(todo).rev
    <2>1. \/ app'[a] = app[a]
          \/ b = a /\ app'[a] = [app[a] EXCEPT !.request = rev]
      BY <1>1, <1>4 DEF RunSync
    <2>2. b = a => rev \in {Latest} \cup Published
      BY <1>4, SafeHead DEF RunSync, Runs, Safe
    <2> HIDE DEF b, rev
    <2> QED
      BY <1>1, <2>1, <2>2 DEF OnTrack, Advances, AppState
  <1>5. CASE RunDelete
    <2>1. Head(todo).on # a
      BY <1>5, SafeHead DEF RunDelete, Runs, Safe
    <2>2. app'[a] = app[a]
      BY <1>1, <1>5, <2>1 DEF RunDelete
    <2> QED
      BY <1>1, <2>2, Untouched
  <1>6. CASE app' = app
    BY <1>1, <1>6, Untouched
  <1> QED
    BY <1>2, <1>3, <1>4, <1>5, <1>6
       DEF Next, ToolStep, Start, NextStage, Ready, SecretGate, DownloaderGate,
           Exists, Poll, CheckHook, ReadParent, Repair, Judge, RunAwait, RunNote,
           Expire, Abort, CoolDown, Do, MoveOn, cluster, vars

\* Others only add commits to the branch.
LEMMA BranchGrows ==
  ASSUME TypeOK, branch \in StartRev..Top, [Next]_vars
  PROVE  branch' \in StartRev..Top
  <1>1. CASE Publish
    BY <1>1, ClusterAssumption DEF Publish, Top
  <1>2. CASE ~Publish
    <2>1. ClusterStep => branch' = branch
      BY <1>2 DEF ClusterStep, Compare, Begin, WaitForHook, LoseHook, Complete,
                  FailOperation, BecomeHealthy, Degrade, ManualSync
    <2>2. branch' = branch
      BY <2>1
         DEF Next, ToolStep, Start, NextStage, Ready, SecretGate, DownloaderGate,
             Exists, Poll, CheckHook, ReadParent, Repair, Judge, RunUnset, RunSync,
             RunDelete, RunAwait, RunNote, Expire, Abort, CoolDown, Do, MoveOn,
             cluster, vars
    <2> QED
      BY <2>2
  <1> QED
    BY <1>1, <1>2

\* What a gate has seen stays true while the process has other gates to pass.
LEMMA PassedStay ==
  ASSUME TypeOK, FreshInv, [Next]_vars, Passed' \subseteq Passed,
         pc # "done" \/ verdict = "ready", NEW a \in Passed'
  PROVE  UpToDate(a)'
  <1>1. a \in GitApps /\ UpToDate(a)
    BY ClusterAssumption, ReadinessAssumption DEF FreshInv, Passed
  <1> QED
    BY <1>1, AllOnTrack DEF UpToDate, Advances

\* The snapshot is of the past of the same Application.
LEMMA SnapshotStays ==
  ASSUME TypeOK, FreshInv, [Next]_vars, queue' = queue, seen' = seen,
         queue' # {}, current' \in GitApps
  PROVE  OnTrack(seen') /\ Advances(seen', app'[current'])
  <1>1. current' = current
    BY SameCurrent
  <1> QED
    BY <1>1, AllOnTrack DEF FreshInv, Advances

LEMMA NothingRead ==
  ASSUME NEW t
  PROVE  OnTrack(NoApp) /\ Advances(NoApp, t)
  BY Tags DEF NoApp, Fresh, OnTrack, Advances

LEMMA FailFresh ==
  ASSUME TypeOK, FreshInv, [Next]_vars,
         NEW why \in Verdict \ {"", "ready"}, Fail(why)
  PROVE  FreshInv'
  <1>1. branch' \in StartRev..Top /\ \A a \in GitApps : OnTrack(app'[a])
    BY BranchGrows, AllOnTrack DEF FreshInv
  <1>2. << >> \in Seq(Safe)
    BY EmptySeq
  <1>3. /\ pc' = "done" /\ verdict' # "ready" /\ queue' = {} /\ todo' = << >>
        /\ seen' = NoApp /\ expected' = expected
    BY DEF Fail
  <1> QED
    BY <1>1, <1>2, <1>3 DEF FreshInv

\* From gate to gate, and at the end.
LEMMA GatesFresh ==
  ASSUME TypeOK, FreshInv, [Next]_vars,
         Start \/ NextStage \/ Ready \/ SecretGate \/ DownloaderGate \/ Exists
  PROVE  FreshInv'
  <1>1. /\ branch' \in StartRev..Top
        /\ \A a \in GitApps : OnTrack(app'[a]) /\ Advances(app[a], app'[a])
    BY BranchGrows, AllOnTrack DEF FreshInv
  <1>3. stage \in 1..6
    BY SixStages DEF TypeOK
  <1>5. CASE Start
    <2>1. /\ pc' = "gate" /\ verdict' = "" /\ stage' = 1 /\ queue' = RootGates
          /\ todo' = todo /\ seen' = seen /\ seen = NoApp /\ expected' \in Published
      BY <1>5 DEF Start, Goto, FreshInv, Published
    <2>2. \A a : a \notin Passed'
      <3>1. stage' = 1 /\ queue' = RootGates
        BY <2>1
      <3> QED
        BY <3>1 DEF Passed
    <2> QED
      BY <1>1, <2>1, <2>2, NothingRead DEF FreshInv
  <1>6. CASE NextStage
    <2>1. /\ pc = "gate" /\ pc' \in {"secret", "downloader", "gate"}
          /\ stage' = stage + 1 /\ queue = {} /\ queue' = QueueOf(stage')
          /\ seen = NoApp
          /\ UNCHANGED <<seen, todo, expected, verdict>>
      BY <1>6 DEF NextStage, FreshInv
    <2>2. stage' = 3 => Stack \in queue'
      <3>1. QueueOf(3) = {Stack}
        BY DEF QueueOf, Stages
      <3> QED
        BY <2>1, <3>1
    <2>3. Passed' \subseteq Passed
      <3>1. stage' = stage + 1 /\ queue = {}
        BY <2>1
      <3> QED
        BY <1>3, <2>2, <3>1 DEF Passed
    <2>4. \A a \in Passed' : UpToDate(a)'
      BY <2>1, <2>3, PassedStay
    <2>5. verdict' = ""
      BY <2>1 DEF FreshInv
    <2>6. stage' # 1
      <3>1. stage' = stage + 1
        BY <2>1
      <3> QED
        BY <1>3, <3>1
    <2> QED
      BY <1>1, <2>1, <2>4, <2>5, <2>6, NothingRead DEF FreshInv
  <1>7. CASE Ready
    <2>1. /\ pc = "gate" /\ pc' = "done" /\ stage = 6 /\ queue = {} /\ seen = NoApp
          /\ UNCHANGED <<stage, queue, seen, todo, expected>>
      BY <1>7, SixStages DEF Ready, Goto, FreshInv
    <2>2. \A a \in Passed' : UpToDate(a)'
      BY <2>1, PassedStay DEF Passed
    <2> QED
      BY <1>1, <2>1, <2>2, NothingRead DEF FreshInv
  <1>8. CASE SecretGate \/ DownloaderGate \/ Exists
    <2>1. CASE pc' = "done"
      <3>1. Fail("timeout") \/ Fail("job") \/ Fail("absent")
        BY <1>8, <2>1 DEF SecretGate, DownloaderGate, Exists
      <3> QED
        BY <3>1, FailFresh DEF Verdict
    <2>2. CASE pc' # "done"
      <3>1. /\ pc # "done" /\ pc' \in {"gate", "poll"} /\ seen = NoApp
            /\ UNCHANGED <<stage, queue, seen, todo, expected, verdict>>
        BY <1>8, <2>2 DEF SecretGate, DownloaderGate, Exists, Fail, FreshInv
      <3>2. \A a \in Passed' : UpToDate(a)'
        BY <3>1, PassedStay DEF Passed
      <3> QED
        BY <1>1, <3>1, <3>2, NothingRead DEF FreshInv
    <2> QED
      BY <2>1, <2>2
  <1> QED
    BY <1>5, <1>6, <1>7, <1>8

\* The decisions of a poll.
LEMMA MoveOnFresh ==
  ASSUME TypeOK, FreshInv, [Next]_vars, pc # "done",
         NEW to \in {"poll", "repair", "parent", "judge"}, MoveOn(to)
  PROVE  FreshInv'
  <1>1. /\ branch' \in StartRev..Top
        /\ \A a \in GitApps : OnTrack(app'[a]) /\ Advances(app[a], app'[a])
    BY BranchGrows, AllOnTrack DEF FreshInv
  <1>2. /\ pc' = to
        /\ UNCHANGED <<stage, queue, todo, expected, verdict>>
    BY DEF MoveOn
  <1>5. /\ seen' = NoApp \/ seen' = seen
        /\ to = "poll" => seen' = NoApp
    BY DEF MoveOn
  <1>3. \A a \in Passed' : UpToDate(a)'
    BY <1>2, PassedStay DEF Passed
  <1>4. queue' # {} /\ current' \in GitApps
          => OnTrack(seen') /\ Advances(seen', app'[current'])
    BY <1>2, <1>5, SnapshotStays, NothingRead
  <1> QED
    BY <1>1, <1>2, <1>3, <1>4, <1>5 DEF FreshInv

LEMMA DoFresh ==
  ASSUME TypeOK, FreshInv, [Next]_vars, pc # "done",
         NEW commands \in Seq(Safe), Do(commands)
  PROVE  FreshInv'
  <1>1. /\ branch' \in StartRev..Top
        /\ \A a \in GitApps : OnTrack(app'[a]) /\ Advances(app[a], app'[a])
    BY BranchGrows, AllOnTrack DEF FreshInv
  <1>2. /\ pc' = "run" /\ todo' = commands
        /\ UNCHANGED <<stage, queue, seen, expected, verdict>>
    BY DEF Do
  <1>3. \A a \in Passed' : UpToDate(a)'
    BY <1>2, PassedStay DEF Passed
  <1>4. queue' # {} /\ current' \in GitApps
          => OnTrack(seen') /\ Advances(seen', app'[current'])
    BY <1>2, SnapshotStays
  <1> QED
    BY <1>1, <1>2, <1>3, <1>4 DEF FreshInv

LEMMA PollFresh ==
  ASSUME TypeOK, FreshInv, [Next]_vars, Poll
  PROVE  FreshInv'
  <1>1. /\ branch' \in StartRev..Top
        /\ \A a \in GitApps : OnTrack(app'[a]) /\ Advances(app[a], app'[a])
    BY BranchGrows, AllOnTrack DEF FreshInv
  <1>2. CASE Fail("timeout") \/ Fail("read")
    BY <1>2, FailFresh DEF Verdict
  <1>3. CASE ~(Fail("timeout") \/ Fail("read"))
    <2>1. /\ pc = "poll" /\ pc' \in {"run", "hook", "repair"}
          /\ seen' = app[current] /\ app' = app
          /\ UNCHANGED <<stage, queue, expected, verdict>>
          /\ todo' = todo \/ todo' = StaleRecovery(current, seen')
      BY <1>3 DEF Poll, cluster
    <2>2. current \in Apps /\ expected \in Published
      BY <2>1, CurrentInQueue DEF TypeOK, FreshInv
    <2>3. StaleRecovery(current, seen') \in Seq(Safe)
      <3>1. Unset(current) \in Safe
        BY <2>2, Commands DEF Safe, Unset
      <3>2. Sync(current, expected) \in Command
        BY <2>2, Commands DEF TypeOK
      <3>3. Sync(current, expected) \in Safe
        BY <2>2, <3>2 DEF Safe, Sync
      <3> QED
        BY <3>1, <3>3 DEF StaleRecovery
    <2>4. todo' \in Seq(Safe)
      BY <2>1, <2>3 DEF FreshInv
    <2>5. \A a \in Passed' : UpToDate(a)'
      BY <2>1, PassedStay DEF Passed
    <2>6. queue' # {} /\ current' \in GitApps
            => OnTrack(seen') /\ Advances(seen', app'[current'])
      BY <2>1, SameCurrent, Untouched DEF FreshInv
    <2> QED
      BY <1>1, <2>1, <2>4, <2>5, <2>6 DEF FreshInv
  <1> QED
    BY <1>2, <1>3

LEMMA RecoveriesFresh ==
  ASSUME TypeOK, FreshInv, HookInv, GatedParents, [Next]_vars,
         CheckHook \/ ReadParent \/ Repair
  PROVE  FreshInv'
  <1>1. /\ branch' \in StartRev..Top
        /\ \A a \in GitApps : OnTrack(app'[a]) /\ Advances(app[a], app'[a])
    BY BranchGrows, AllOnTrack DEF FreshInv
  <1>2. queue # {} /\ queue \subseteq Apps /\ pc # "done"
    BY DEF CheckHook, ReadParent, Repair, TypeOK
  <1>3. current \in queue /\ current \in Apps
    BY <1>2, CurrentInQueue
  <1>4. ASSUME NEW why \in {"manual", "read"}, Fail(why) PROVE FreshInv'
    BY <1>4, FailFresh DEF Verdict
  <1>5. ASSUME NEW to \in {"repair", "parent", "judge"}, MoveOn(to)
        PROVE  FreshInv'
    BY <1>2, <1>5, MoveOnFresh
  <1>6. CASE CheckHook
    BY <1>4, <1>5, <1>6 DEF CheckHook
  <1>7. CASE ReadParent
    <2> DEFINE parent == Parent[current]
               commands == <<Delete(current), Sync(parent, app[parent].compared),
                             Await(current), Note(current)>>
    <2>1. CASE Fail("read") \/ Fail("manual")
      BY <1>4, <2>1
    <2>2. CASE ~(Fail("read") \/ Fail("manual"))
      <3>1. Do(commands)
        BY <1>7, <2>2 DEF ReadParent
      <3>2. current \notin GitApps /\ parent \in RootGates /\ pc = "parent"
        BY <1>3, <1>7 DEF ReadParent, HookInv, GatedParents, TypeOK
      <3>3. stage \in 1..6 /\ stage # 1
        BY <1>3, <3>2, SixStages, ReadinessAssumption DEF FreshInv, TypeOK
      <3>4. parent \in Passed
        <4>1. stage > 1
          BY <3>3
        <4> QED
          BY <3>2, <4>1 DEF Passed
      <3>5. app[parent].compared \in Published
        BY <3>2, <3>4 DEF FreshInv, UpToDate
      <3>6. parent \in Apps
        BY <3>2, ReadinessAssumption
      <3>7. Delete(current) \in Safe /\ Await(current) \in Safe /\ Note(current) \in Safe
        BY <1>3, <3>2, Commands DEF Safe, Delete, Await, Note
      <3>8. Sync(parent, app[parent].compared) \in Safe
        <4>1. Sync(parent, app[parent].compared) \in Command
          BY <3>5, <3>6, Commands, Tags
        <4> QED
          BY <3>5, <4>1 DEF Safe, Sync
      <3>9. commands \in Seq(Safe)
        BY <3>7, <3>8
      <3> QED
        BY <1>2, <3>1, <3>9, DoFresh
    <2> QED
      BY <2>1, <2>2
  <1>8. CASE Repair
    <2>1. CASE Do(<<Sync(current, Latest)>>)
      <3>1. Sync(current, Latest) \in Command
        BY <1>3, Commands
      <3>2. Sync(current, Latest) \in Safe
        BY <3>1 DEF Safe, Sync
      <3>3. <<Sync(current, Latest)>> \in Seq(Safe)
        BY <3>2
      <3> QED
        BY <1>2, <2>1, <3>3, DoFresh
    <2>2. CASE MoveOn("judge")
      BY <1>5, <2>2
    <2>3. CASE ~Do(<<Sync(current, Latest)>>) /\ ~MoveOn("judge")
      <3>1. /\ pc' = "poll" /\ seen' = NoApp
            /\ UNCHANGED <<stage, queue, todo, expected, verdict>>
        BY <1>8, <2>3 DEF Repair
      <3>2. \A a \in Passed' : UpToDate(a)'
        BY <1>2, <3>1, PassedStay DEF Passed
      <3> QED
        BY <1>1, <1>2, <3>1, <3>2, NothingRead DEF FreshInv
    <2> QED
      BY <2>1, <2>2, <2>3
  <1> QED
    BY <1>6, <1>7, <1>8

\* A gate is passed on the snapshot of a poll.
LEMMA JudgeFresh ==
  ASSUME TypeOK, FreshInv, [Next]_vars, Judge
  PROVE  FreshInv'
  <1>1. /\ branch' \in StartRev..Top
        /\ \A a \in GitApps : OnTrack(app'[a]) /\ Advances(app[a], app'[a])
    BY BranchGrows, AllOnTrack DEF FreshInv
  <1>2. queue # {} /\ queue \subseteq Apps /\ pc = "judge" /\ expected \in Published
    BY DEF Judge, TypeOK, FreshInv
  <1>3. current \in queue /\ current \in Apps
    BY <1>2, CurrentInQueue
  <1>4. CASE /\ Passes(current, seen) /\ queue' = queue \ {current}
             /\ pc' = "gate" /\ seen' = NoApp
             /\ UNCHANGED <<cluster, stage, todo, expected, verdict>>
    <2>1. ASSUME current \in GitApps PROVE UpToDate(current)
      <3>1. /\ OnTrack(seen) /\ Advances(seen, app[current])
            /\ seen.compared \in Published /\ (seen.synced \/ current \in Phased)
        BY <1>2, <1>4, <2>1 DEF FreshInv, Passes, RevisionCurrent
      <3> QED
        BY <3>1 DEF OnTrack, Advances, UpToDate
    <2>2. Passed' \subseteq Passed \cup {current}
      <3>1. stage' = stage /\ queue' = queue \ {current}
        BY <1>4
      <3> QED
        BY <3>1 DEF Passed
    <2>3. ASSUME NEW a \in Passed' PROVE UpToDate(a)
      <3>1. a \in GitApps
        BY ClusterAssumption, ReadinessAssumption DEF Passed
      <3> QED
        BY <1>2, <2>1, <2>2, <3>1 DEF FreshInv
    <2>4. app' = app
      BY <1>4 DEF cluster
    <2>5. \A a \in Passed' : UpToDate(a)'
      BY <2>3, <2>4 DEF UpToDate
    <2>6. stage' = 1 => queue' \subseteq RootGates
      BY <1>4 DEF FreshInv
    <2> QED
      BY <1>1, <1>2, <1>4, <2>5, <2>6, NothingRead DEF FreshInv
  <1>5. CASE Do(<<Sync(current, expected)>>)
    <2>1. Sync(current, expected) \in Command
      BY <1>2, <1>3, Commands, Tags
    <2>2. Sync(current, expected) \in Safe
      BY <1>2, <2>1 DEF Safe, Sync
    <2>3. <<Sync(current, expected)>> \in Seq(Safe)
      BY <2>2
    <2> QED
      BY <1>2, <1>5, <2>3, DoFresh
  <1>6. CASE MoveOn("poll")
    BY <1>2, <1>6, MoveOnFresh
  <1>7. CASE Fail("failed") \/ Fail("degraded")
    BY <1>7, FailFresh DEF Verdict
  <1> QED
    BY <1>4, <1>5, <1>6, <1>7 DEF Judge

\* The commands, and the steps of others.
LEMMA CommandsFresh ==
  ASSUME TypeOK, FreshInv, [Next]_vars,
         RunUnset \/ RunSync \/ RunDelete \/ RunAwait \/ RunNote
  PROVE  FreshInv'
  <1>1. /\ branch' \in StartRev..Top
        /\ \A a \in GitApps : OnTrack(app'[a]) /\ Advances(app[a], app'[a])
    BY BranchGrows, AllOnTrack DEF FreshInv
  <1>2. pc = "run"
    BY DEF RunUnset, RunSync, RunDelete, RunAwait, RunNote, Runs
  <1>3. CASE Fail("kubectl") \/ Fail("recreation")
    BY <1>3, FailFresh DEF Verdict
  <1>4. CASE Done
    <2>1. todo' \in Seq(Safe)
      BY <1>2, <1>4, SafeHead DEF Done
    <2>2. /\ pc' \in {"poll", "run"} /\ (seen' = NoApp \/ seen' = seen)
          /\ pc' = "poll" => seen' = NoApp
      BY <1>4 DEF Done
    <2>3. UNCHANGED <<stage, queue, expected, verdict>>
      BY <1>4 DEF Done
    <2>4. \A a \in Passed' : UpToDate(a)'
      BY <1>2, <2>3, PassedStay DEF Passed
    <2>5. queue' # {} /\ current' \in GitApps
            => OnTrack(seen') /\ Advances(seen', app'[current'])
      BY <2>2, <2>3, SnapshotStays, NothingRead
    <2> QED
      BY <1>1, <1>2, <2>1, <2>2, <2>3, <2>4, <2>5 DEF FreshInv
  <1> QED
    BY <1>3, <1>4 DEF RunUnset, RunSync, RunDelete, RunAwait, RunNote

LEMMA OthersFresh ==
  ASSUME TypeOK, FreshInv, [Next]_vars,
         \/ Expire \/ Abort \/ (\E a \in Apps : CoolDown(a))
         \/ (ClusterStep /\ UNCHANGED tool) \/ UNCHANGED vars
  PROVE  FreshInv'
  <1>1. /\ branch' \in StartRev..Top
        /\ \A a \in GitApps : OnTrack(app'[a]) /\ Advances(app[a], app'[a])
    BY BranchGrows, AllOnTrack DEF FreshInv
  <1>2. CASE Abort
    BY <1>2, FailFresh DEF Abort, Verdict
  <1>3. CASE ~Abort
    <2>1. UNCHANGED <<pc, stage, queue, seen, todo, expected, verdict>>
      BY <1>3 DEF Expire, CoolDown, tool, vars
    <2>2. pc # "done" \/ verdict = "ready" => \A a \in Passed' : UpToDate(a)'
      BY <2>1, PassedStay DEF Passed
    <2>3. queue' # {} /\ current' \in GitApps
            => OnTrack(seen') /\ Advances(seen', app'[current'])
      BY <2>1, SnapshotStays
    <2> QED
      BY <1>1, <2>1, <2>2, <2>3 DEF FreshInv
  <1> QED
    BY <1>2, <1>3

LEMMA StepFresh ==
  ASSUME TypeOK, HookInv, FreshInv, GatedParents, [Next]_vars
  PROVE  FreshInv'
  BY GatesFresh, PollFresh, RecoveriesFresh, JudgeFresh, CommandsFresh, OthersFresh
     DEF Next, ToolStep

LEMMA InitFresh == Init => FreshInv
  <1> SUFFICES ASSUME Init PROVE FreshInv
    OBVIOUS
  <1>1. ASSUME NEW a \in GitApps PROVE OnTrack(app[a])
    <2>1. a \in Apps /\ app[a] \in InitialStates(a)
      BY <1>1, ClusterAssumption DEF Init, ClusterInit
    <2>2. ASSUME NEW n PROVE OnTrack(Fresh(n))
      BY Tags DEF Fresh, OnTrack
    <2>3. /\ Settled(a).compared = Old /\ Settled(a).applied = Old
          /\ Settled(a).request = NoRev /\ Settled(a).phase = "Succeeded"
          /\ Settled(a).alive
      BY <1>1 DEF Settled, Fresh, Old
    <2>4. OnTrack(Settled(a))
      BY <2>3, Tags DEF OnTrack
    <2>5. ASSUME NEW l \in Leftovers PROVE OnTrack(LeftFailed(a, l[2]))
      <3>1. /\ LeftFailed(a, l[2]).compared = Old
            /\ LeftFailed(a, l[2]).applied = NoRev
            /\ LeftFailed(a, l[2]).request = NoRev
            /\ LeftFailed(a, l[2]).phase = "Failed" /\ LeftFailed(a, l[2]).alive
        BY <1>1 DEF LeftFailed, Settled, Fresh, Old
      <3> QED
        BY <3>1, Tags DEF OnTrack
    <2>6. OnTrack(NoApp)
      BY NothingRead
    <2> QED
      BY <2>1, <2>2, <2>4, <2>5, <2>6 DEF InitialStates
  <1>2. /\ pc = "done" /\ stage = 1 /\ queue = {} /\ verdict = ""
        /\ seen = NoApp /\ expected \in Published /\ branch \in StartRev..Top
    <2>1. StartRev \in StartRev..Top
      BY ClusterAssumption DEF Top
    <2> QED
      BY <2>1 DEF Init, ClusterInit, Published
  <1>3. todo \in Seq(Safe)
    BY EmptySeq DEF Init
  <1> QED
    BY <1>1, <1>2, <1>3 DEF FreshInv

LEMMA FreshAlways ==
  ASSUME GatedParents
  PROVE  Spec => [](TypeOK /\ HookInv /\ FreshInv)
  <1>1. TypeOK /\ HookInv /\ FreshInv /\ [Next]_vars
          => (TypeOK /\ HookInv /\ FreshInv)'
    BY StepTypes, StepHooks, StepFresh
  <1> QED
    BY <1>1, InitTypes, InitHooks, InitFresh, PTL DEF Spec

\* What a stack that is reported ready runs.
LEMMA ReadyRunsPublished ==
  ASSUME FreshInv, verdict = "ready",
         NEW a \in ({Stack} \cup RootGates) \ Phased
  PROVE  app[a].alive /\ app[a].applied \in Published
  <1>1. stage = 6
    BY DEF FreshInv
  <1>2. a \in Passed
    BY <1>1 DEF Passed
  <1>3. app[a].applied \in Published
    BY <1>2 DEF FreshInv, UpToDate
  <1>4. OnTrack(app[a])
    BY ClusterAssumption, ReadinessAssumption DEF FreshInv
  <1> QED
    BY <1>3, <1>4, Tags DEF OnTrack

\* A stack that the command reports ready runs nothing from before the
\* publication that it was first called for.
ReadyMeansPublished ==
  verdict = "ready" =>
    \A a \in ({Stack} \cup RootGates) \ Phased :
      app[a].alive /\ app[a].applied[1] = "git" /\ app[a].applied[2] >= StartRev

\* However many commits others push, and whatever syncs of interrupted runs are
\* still asked for, a stack that is reported ready runs nothing from before the
\* publication.
THEOREM ReadyIsPublished ==
  ASSUME GatedParents
  PROVE  Spec => []ReadyMeansPublished
  <1>1. FreshInv => ReadyMeansPublished
    BY ReadyRunsPublished, Tags DEF ReadyMeansPublished
  <1> QED
    BY <1>1, FreshAlways, PTL

\* An Application of the repository that once ran a published commit never runs
\* an unpublished one again, nor none at all: whatever the command, ArgoCD, the
\* operator and other publishers do, the publication is not undone.
THEOREM PublicationIsNotUndone ==
  ASSUME GatedParents
  PROVE  Spec => [][\A a \in GitApps : app[a].applied \in Published
                                     => app'[a].applied \in Published]_vars
  <1>1. TypeOK /\ HookInv /\ FreshInv /\ [Next]_vars
          => [\A a \in GitApps : app[a].applied \in Published
                               => app'[a].applied \in Published]_vars
    BY AllOnTrack DEF Advances
  <1> QED
    BY <1>1, FreshAlways, PTL DEF Spec

\* While nobody else pushes, there is one published commit.
NobodyElsePushes == MaxRev <= StartRev

LEMMA OnePublished ==
  ASSUME NobodyElsePushes, NEW r \in Published
  PROVE  r[1] = "git" /\ r[2] = StartRev
  <1>1. Top = StartRev
    BY ClusterAssumption DEF Top, NobodyElsePushes
  <1>2. r[1] = "git" /\ r[2] \in StartRev..Top
    BY Tags
  <1> QED
    BY <1>1, <1>2, ClusterAssumption

\* While nobody else pushes, a stack that is reported ready runs the commit it
\* was published for, however old the snapshots were that it was judged on and
\* whatever earlier runs left behind.
THEOREM ReadyIsFresh ==
  ASSUME NobodyElsePushes, GatedParents
  PROVE  Spec => []ReadyMeansFresh
  <1>1. FreshInv => ReadyMeansFresh
    <2> SUFFICES ASSUME FreshInv, verdict = "ready",
                        NEW a \in ({Stack} \cup RootGates) \ Phased
                 PROVE  /\ app[a].alive /\ app[a].applied[1] = "git"
                        /\ app[a].applied[2] >= expected[2]
      BY DEF ReadyMeansFresh
    <2>1. app[a].alive /\ app[a].applied \in Published
      BY ReadyRunsPublished
    <2>2. expected[2] = StartRev
      BY OnePublished DEF FreshInv
    <2> QED
      BY <2>1, <2>2, OnePublished, ClusterAssumption
  <1> QED
    BY <1>1, FreshAlways, PTL

\* While nobody else pushes, no repair of the command, and no operation that an
\* earlier run asked for, makes ArgoCD replace a commit by an earlier one.
THEOREM NothingRollsBack ==
  ASSUME NobodyElsePushes, GatedParents
  PROVE  Spec => NeverRollsBack
  <1>1. ASSUME TypeOK, HookInv, FreshInv, [Next]_vars, NEW a \in GitApps,
               app[a].applied[1] = "git", app'[a].applied[1] = "git"
        PROVE  app'[a].applied[2] >= app[a].applied[2]
    <2>1. /\ OnTrack(app[a]) /\ OnTrack(app'[a]) /\ Advances(app[a], app'[a])
      BY <1>1, AllOnTrack DEF FreshInv
    <2>2. /\ app[a].applied \in {Old} \cup Published
          /\ app'[a].applied \in {Old} \cup Published
      BY <1>1, <2>1, Tags DEF OnTrack
    <2>3. app[a].applied \in Published => app'[a].applied \in Published
      BY <2>1 DEF Advances
    <2>4. StartRev \in Nat /\ Old[2] = StartRev - 1
      BY Tags, ClusterAssumption
    <2>5. \A r \in Published : r[2] = StartRev
      BY OnePublished
    <2> QED
      BY <2>2, <2>3, <2>4, <2>5
  <1>2. TypeOK /\ HookInv /\ FreshInv /\ [Next]_vars
          => [\A a \in GitApps :
                app[a].applied[1] = "git" /\ app'[a].applied[1] = "git"
                  => app'[a].applied[2] >= app[a].applied[2]]_vars
    BY <1>1
  <1> QED
    BY <1>2, FreshAlways, PTL DEF Spec, NeverRollsBack
=============================================================================
