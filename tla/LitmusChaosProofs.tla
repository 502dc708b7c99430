-------------------------- MODULE LitmusChaosProofs --------------------------
(***************************************************************************)
(* Theorems about LitmusChaos, for every set of experiments, every supply  *)
(* of infrastructure identifiers and every number of attempts and faults:  *)
(* type correctness, that a reconciliation that ended well has bound the   *)
(* catalog, that there is one managed infrastructure, and that the legacy  *)
(* environment goes last.                                                  *)
(***************************************************************************)
EXTENDS LitmusChaos, TLAPS

ChaosState == [pc : {"idle", "probe", "delete", "restart", "reprobe", "unlock",
                     "environments", "create", "infras", "replace", "apply",
                     "await", "hide", "catalog", "save"},
               tries : 0..MaxTries, forward : BOOLEAN, legacy : BOOLEAN,
               create : BOOLEAN, stale : SUBSET Infras,
               target : Infras \cup {Nobody}, todo : SUBSET Experiments,
               verdict : {"new", "", "ok", "admin", "failed"}]

ServerType ==
  /\ envs \subseteq {"default", "test"}
  /\ infra \in [Infras -> {"none", "own", "other", "test"}]
  /\ agent \in Infras \cup {Nobody} /\ connected \in BOOLEAN
  /\ saved \in [Experiments -> [fresh : BOOLEAN, infra : Infras \cup {Nobody}]]
  /\ admin \in {"ok", "drifted", "missing"} /\ firstLogin \in BOOLEAN

\* The default environment exists as soon as an infrastructure is in it.
ServerOK ==
  /\ ServerType
  /\ \A i \in Infras : InDefault(i) => "default" \in envs

AdminPhase == {"probe", "delete", "restart", "reprobe", "unlock"}
InfraPhase == {"infras", "replace", "apply", "await"}
BoundPhase == {"hide", "catalog", "save"}

BoundTo(e, i) == saved[e].fresh /\ saved[e].infra = i

\* What the process has found out or done before each of its steps, and what
\* holds after a reconciliation that ended well.
ProcessOK ==
  /\ chaos \in ChaosState
  /\ chaos.pc \in AdminPhase => chaos.tries = 0
  /\ chaos.pc # "idle" => chaos.verdict = ""
  /\ chaos.pc = "create" /\ ~chaos.create => "default" \in envs
  /\ chaos.pc \in InfraPhase \cup BoundPhase => "default" \in envs
  /\ chaos.pc = "replace" => StaleInfras \subseteq chaos.stale
  /\ chaos.pc \in BoundPhase => chaos.target \in Infras /\ InDefault(chaos.target)
  /\ chaos.pc = "save" =>
       \A e \in Experiments \ chaos.todo : BoundTo(e, chaos.target)
  /\ chaos.verdict = "ok" => CatalogIsBound

LitmusInv ==
  /\ ServerOK /\ ProcessOK
  /\ litmusFaults \in 0..MaxLitmusFaults

-----------------------------------------------------------------------------
(* The states in which the process starts, tries again and ends *)

LEMMA IdleType == Idle \in ChaosState
  <1>1. 0 \in 0..MaxTries
    BY LitmusAssumption
  <1> QED
    BY <1>1 DEF Idle, ChaosState

LEMMA LitmusFaultType ==
  ASSUME litmusFaults \in 0..MaxLitmusFaults, LitmusFault \/ UNCHANGED litmusFaults
  PROVE  litmusFaults' \in 0..MaxLitmusFaults
  BY LitmusAssumption DEF LitmusFault

LEMMA EndedOK ==
  ASSUME NEW v \in {"failed", "admin"}, Ended(v)
  PROVE  ProcessOK'
  <1>1. chaos' \in ChaosState
    BY IdleType DEF Ended, ChaosState
  <1>2. chaos'.pc = "idle" /\ chaos'.verdict = v
    BY DEF Ended, Idle
  <1> QED
    BY <1>1, <1>2 DEF ProcessOK, AdminPhase, InfraPhase, BoundPhase

LEMMA AttemptOK ==
  ASSUME chaos.tries \in 0..MaxTries, chaos.tries < MaxTries, chaos' = Attempt
  PROVE  ProcessOK'
  <1>1. chaos.tries + 1 \in 0..MaxTries
    BY LitmusAssumption
  <1>2. chaos' \in ChaosState
    BY <1>1, IdleType DEF Attempt, ChaosState
  <1>3. chaos'.pc = "environments" /\ chaos'.verdict = ""
    BY DEF Attempt, Idle
  <1> QED
    BY <1>2, <1>3 DEF ProcessOK, AdminPhase, InfraPhase, BoundPhase

LEMMA RestartOK ==
  ASSUME LitmusInv, Retried \/ Ended("failed")
  PROVE  ProcessOK'
  <1>1. chaos.tries \in 0..MaxTries
    BY DEF LitmusInv, ProcessOK, ChaosState
  <1> QED
    BY <1>1, AttemptOK, EndedOK DEF Retried

\* A step that only looks at the server keeps what is known of it.
LEMMA QuietServer == LitmusInv /\ UNCHANGED server => ServerOK'
  BY DEF LitmusInv, ServerOK, ServerType, server, InDefault

-----------------------------------------------------------------------------
(* Each step of the process *)

LEMMA AdminSteps ==
  ASSUME LitmusInv,
         \/ StartLitmus \/ ProbeLogin \/ DeleteAdmin \/ RestartAuth
         \/ ReprobeLogin \/ ClearInitialLogin
  PROVE  LitmusInv'
  <1>1. UNCHANGED <<envs, infra, saved, litmusFaults>>
    BY DEF StartLitmus, ProbeLogin, DeleteAdmin, RestartAuth, ReprobeLogin,
       ClearInitialLogin, server
  <1>2. ServerType'
    BY DEF LitmusInv, ServerOK, ServerType, StartLitmus, ProbeLogin, DeleteAdmin,
       RestartAuth, ReprobeLogin, ClearInitialLogin, server
  <1>3. ServerOK'
    BY <1>1, <1>2 DEF LitmusInv, ServerOK, InDefault
  <1>4. ProcessOK'
    <2>1. CASE StartLitmus
      <3>1. chaos' = [Idle EXCEPT !.pc = "probe", !.verdict = ""]
        BY <2>1 DEF StartLitmus
      <3>2. /\ chaos' \in ChaosState
            /\ chaos'.pc = "probe" /\ chaos'.verdict = "" /\ chaos'.tries = 0
        BY <3>1, IdleType DEF ChaosState, Idle
      <3> QED
        BY <3>2 DEF ProcessOK, AdminPhase, InfraPhase, BoundPhase
    <2>2. ASSUME NEW pc \in AdminPhase, chaos.pc \in AdminPhase, Proceed(pc)
          PROVE  ProcessOK'
      <3>1. /\ chaos' \in ChaosState
            /\ chaos'.pc = pc /\ chaos'.verdict = "" /\ chaos'.tries = 0
        BY <2>2 DEF Proceed, LitmusInv, ProcessOK, ChaosState, AdminPhase
      <3> QED
        BY <3>1 DEF ProcessOK, AdminPhase, InfraPhase, BoundPhase
    <2>3. CASE ProbeLogin \/ DeleteAdmin \/ RestartAuth \/ ReprobeLogin
      BY <2>2, <2>3, EndedOK
         DEF ProbeLogin, DeleteAdmin, RestartAuth, ReprobeLogin, At, AdminPhase
    <2>4. CASE ClearInitialLogin
      <3>1. chaos.tries = 0
        BY <2>4 DEF ClearInitialLogin, At, LitmusInv, ProcessOK, AdminPhase
      <3>2. 0 \in 0..MaxTries /\ 0 < MaxTries
        BY LitmusAssumption
      <3> QED
        BY <2>4, <3>1, <3>2, AttemptOK, EndedOK DEF ClearInitialLogin, AfterAdmin
    <2> QED
      BY <2>1, <2>3, <2>4
  <1> QED
    BY <1>1, <1>3, <1>4 DEF LitmusInv

LEMMA EnvironmentSteps ==
  ASSUME LitmusInv, ListEnvironments \/ CreateEnvironment
  PROVE  LitmusInv'
  <1>1. ServerOK'
    <2>1. \/ UNCHANGED server
          \/ /\ envs' = envs \cup {"default"}
             /\ UNCHANGED <<infra, agent, connected, saved, admin, firstLogin>>
      BY DEF ListEnvironments, CreateEnvironment, Request
    <2> QED
      BY <2>1, QuietServer DEF LitmusInv, ServerOK, ServerType, InDefault
  <1>2. LitmusFault \/ UNCHANGED litmusFaults
    BY DEF ListEnvironments, CreateEnvironment, Request
  <1>3. ProcessOK'
    <2>1. CASE Retried \/ Ended("failed")
      BY <2>1, RestartOK
    <2>2. CASE /\ At("environments") /\ UNCHANGED server
               /\ chaos' = [chaos EXCEPT !.pc = "create",
                                         !.legacy = "test" \in envs,
                                         !.create = "default" \notin envs]
      <3> DEFINE L == "test" \in envs
                 C == "default" \notin envs
      <3>1. L \in BOOLEAN /\ C \in BOOLEAN
        OBVIOUS
      <3>2. ~C => "default" \in envs'
        BY <2>2 DEF server
      <3>3. chaos' = [chaos EXCEPT !.pc = "create", !.legacy = L, !.create = C]
        BY <2>2
      <3> HIDE DEF L, C
      <3>4. chaos' \in ChaosState /\ chaos'.pc = "create" /\ chaos'.create = C
            /\ chaos'.verdict = ""
        BY <2>2, <3>1, <3>3 DEF LitmusInv, ProcessOK, ChaosState, At
      <3> QED
        BY <3>2, <3>4 DEF ProcessOK, AdminPhase, InfraPhase, BoundPhase
    <2>3. CASE At("create") /\ "default" \in envs' /\ Proceed("infras")
      <3>1. /\ chaos' \in ChaosState /\ chaos'.pc = "infras"
            /\ chaos'.verdict = ""
        BY <2>3 DEF LitmusInv, ProcessOK, ChaosState, At, Proceed
      <3> QED
        BY <2>3, <3>1 DEF ProcessOK, AdminPhase, InfraPhase, BoundPhase
    <2>4. CASE ListEnvironments
      BY <2>1, <2>2, <2>4 DEF ListEnvironments, Request
    <2>5. CASE CreateEnvironment
      <3>1. At("create")
        BY <2>5 DEF CreateEnvironment
      <3>2. \/ Retried \/ Ended("failed")
            \/ Proceed("infras") /\ envs' = envs \cup {"default"}
            \/ Proceed("infras") /\ envs' = envs /\ ~chaos.create
        BY <2>5 DEF CreateEnvironment, Request, server
      <3> QED
        BY <2>1, <2>3, <3>1, <3>2 DEF LitmusInv, ProcessOK, At
    <2> QED
      BY <2>4, <2>5
  <1> QED
    BY <1>1, <1>2, <1>3, LitmusFaultType DEF LitmusInv

LEMMA InfraRequests ==
  ASSUME LitmusInv, ListInfras \/ DeleteInfra \/ RegisterInfra
  PROVE  LitmusInv'
  <1> USE DEF At
  <1>0. "default" \in envs /\ chaos \in ChaosState /\ chaos.verdict = ""
    BY DEF ListInfras, DeleteInfra, RegisterInfra, LitmusInv, ProcessOK, InfraPhase
  <1>1. ServerOK'
    <2>1. ASSUME NEW i \in Infras, NEW v \in {"none", "own"},
                 infra' = [infra EXCEPT ![i] = v],
                 UNCHANGED <<envs, agent, connected, saved, admin, firstLogin>>
          PROVE  ServerOK'
      BY <1>0, <2>1 DEF LitmusInv, ServerOK, ServerType, InDefault
    <2>2. \/ UNCHANGED server
          \/ \E i \in Infras, v \in {"none", "own"} :
               /\ infra' = [infra EXCEPT ![i] = v]
               /\ UNCHANGED <<envs, agent, connected, saved, admin, firstLogin>>
      <3>1. CASE ListInfras
        BY <3>1 DEF ListInfras, Request
      <3>2. CASE DeleteInfra
        BY <1>0, <3>2 DEF DeleteInfra, Request, ChaosState
      <3>3. CASE RegisterInfra
        <4>1. (CHOOSE i \in Unused : TRUE) \in Infras
          BY <3>3 DEF RegisterInfra, Unused
        <4> QED
          BY <3>3, <4>1 DEF RegisterInfra, Request
      <3> QED
        BY <3>1, <3>2, <3>3
    <2> QED
      BY <2>1, <2>2, QuietServer
  <1>2. LitmusFault \/ UNCHANGED litmusFaults
    BY DEF ListInfras, DeleteInfra, RegisterInfra, Request
  <1>3. ProcessOK'
    <2>1. CASE Retried \/ Ended("failed")
      BY <2>1, RestartOK
    <2>2. ASSUME NEW i \in Infras, Active(i), UNCHANGED server,
                 chaos' = [chaos EXCEPT !.pc = "hide", !.target = i]
          PROVE  ProcessOK'
      <3>1. /\ chaos' \in ChaosState /\ chaos'.pc = "hide"
            /\ chaos'.target = i /\ chaos'.verdict = ""
        BY <1>0, <2>2 DEF ChaosState
      <3>2. InDefault(i)' /\ "default" \in envs'
        BY <1>0, <2>2 DEF Active, InDefault, server
      <3>3. InDefault(chaos.target)'
        BY <3>1, <3>2 DEF InDefault
      <3> QED
        BY <3>1, <3>2, <3>3 DEF ProcessOK, AdminPhase, InfraPhase, BoundPhase
    <2>3. CASE UNCHANGED server /\ chaos' = [chaos EXCEPT !.pc = "replace",
                                                          !.stale = StaleInfras]
      <3>1. StaleInfras \subseteq Infras /\ StaleInfras' = StaleInfras
        BY <2>3 DEF StaleInfras, server
      <3>2. /\ chaos' \in ChaosState /\ chaos'.pc = "replace"
            /\ chaos'.stale = StaleInfras /\ chaos'.verdict = ""
        BY <1>0, <2>3, <3>1 DEF ChaosState
      <3>3. "default" \in envs'
        BY <1>0, <2>3 DEF server
      <3> QED
        BY <3>1, <3>2, <3>3 DEF ProcessOK, AdminPhase, InfraPhase, BoundPhase
    <2>4. CASE ListInfras
      BY <2>1, <2>2, <2>3, <2>4 DEF ListInfras, Request
    <2>5. CASE DeleteInfra
      <3> PICK i \in chaos.stale :
            Request(/\ infra' = [infra EXCEPT ![i] = "none"]
                    /\ UNCHANGED <<envs, agent, connected, saved, admin, firstLogin>>,
                    chaos' = [chaos EXCEPT !.stale = @ \ {i}])
        BY <2>5 DEF DeleteInfra
      <3>1. CASE /\ infra' = [infra EXCEPT ![i] = "none"] /\ envs' = envs
                 /\ chaos' = [chaos EXCEPT !.stale = @ \ {i}]
        <4>1. /\ chaos' \in ChaosState /\ chaos'.pc = "replace"
              /\ chaos'.stale = chaos.stale \ {i} /\ chaos'.verdict = ""
          BY <1>0, <2>5, <3>1 DEF ChaosState, DeleteInfra
        <4>2. StaleInfras \subseteq chaos.stale
          BY <2>5 DEF DeleteInfra, LitmusInv, ProcessOK
        <4>3. StaleInfras' = StaleInfras \ {i}
          BY <3>1 DEF StaleInfras, LitmusInv, ServerOK, ServerType
        <4> QED
          BY <1>0, <3>1, <4>1, <4>2, <4>3
             DEF ProcessOK, AdminPhase, InfraPhase, BoundPhase
      <3> QED
        BY <2>1, <3>1 DEF Request
    <2>6. CASE RegisterInfra
      <3> DEFINE new == CHOOSE i \in Unused : TRUE
      <3>1. new \in Infras
        BY <2>6 DEF RegisterInfra, Unused
      <3>2. CASE /\ envs' = envs
                 /\ chaos' = [chaos EXCEPT !.pc = "apply", !.target = new]
        <4> HIDE DEF new
        <4>1. /\ chaos' \in ChaosState /\ chaos'.pc = "apply"
              /\ chaos'.verdict = ""
          BY <1>0, <3>1, <3>2 DEF ChaosState
        <4> QED
          BY <1>0, <3>2, <4>1 DEF ProcessOK, AdminPhase, InfraPhase, BoundPhase
      <3> QED
        BY <2>1, <2>6, <3>2 DEF RegisterInfra, Request
    <2> QED
      BY <2>4, <2>5, <2>6
  <1> QED
    BY <1>1, <1>2, <1>3, LitmusFaultType DEF LitmusInv

LEMMA AgentSteps ==
  ASSUME LitmusInv, ApplyManifest \/ AwaitActive
  PROVE  LitmusInv'
  <1> USE DEF At
  <1>0. /\ "default" \in envs /\ "default" \in envs' /\ chaos \in ChaosState
        /\ chaos.verdict = ""
    BY DEF ApplyManifest, AwaitActive, LitmusInv, ProcessOK, InfraPhase, server
  <1>1. CASE ApplyManifest
    <2>1. ServerOK'
      BY <1>0, <1>1
         DEF ApplyManifest, LitmusInv, ServerOK, ServerType, InDefault, ChaosState
    <2>2. /\ chaos' \in ChaosState /\ chaos'.pc = "await" /\ chaos'.verdict = ""
      BY <1>0, <1>1 DEF ApplyManifest, Proceed, ChaosState
    <2> QED
      BY <1>0, <1>1, <2>1, <2>2
         DEF ApplyManifest, LitmusInv, ProcessOK, AdminPhase, InfraPhase, BoundPhase
  <1>2. CASE AwaitActive
    <2>1. ServerOK' /\ (LitmusFault \/ UNCHANGED litmusFaults)
      BY <1>2, QuietServer DEF AwaitActive
    <2>2. ASSUME NEW i \in Infras, Active(i),
                 chaos' = [chaos EXCEPT !.pc = "hide", !.target = i]
          PROVE  ProcessOK'
      <3>1. /\ chaos' \in ChaosState /\ chaos'.pc = "hide"
            /\ chaos'.target = i /\ chaos'.verdict = ""
        BY <1>0, <2>2 DEF ChaosState
      <3>2. InDefault(i)'
        BY <1>2, <2>2 DEF AwaitActive, Active, InDefault, server
      <3>3. InDefault(chaos.target)'
        BY <3>1, <3>2 DEF InDefault
      <3> QED
        BY <1>0, <3>1, <3>3 DEF ProcessOK, AdminPhase, InfraPhase, BoundPhase
    <2> QED
      BY <1>2, <2>1, <2>2, EndedOK, LitmusFaultType DEF AwaitActive, LitmusInv
  <1> QED
    BY <1>1, <1>2

LEMMA HideStep ==
  ASSUME LitmusInv, HideLegacy
  PROVE  LitmusInv'
  <1> USE DEF At
  <1>0. /\ "default" \in envs /\ chaos \in ChaosState /\ chaos.pc = "hide"
        /\ chaos.verdict = "" /\ chaos.target \in Infras
        /\ InDefault(chaos.target)
    BY DEF HideLegacy, LitmusInv, ProcessOK, BoundPhase
  <1>1. /\ "default" \in envs' /\ envs' \subseteq envs
        /\ infra' \in [Infras -> {"none", "own", "other", "test"}]
        /\ \A i \in Infras : InDefault(i) => infra'[i] = infra[i]
        /\ \A i \in Infras : InDefault(i)' => InDefault(i)
    BY <1>0 DEF HideLegacy, InDefault, LitmusInv, ServerOK, ServerType
  <1>2. ServerOK'
    BY <1>1 DEF HideLegacy, LitmusInv, ServerOK, ServerType
  <1>3. /\ chaos' \in ChaosState /\ chaos'.pc = "catalog" /\ chaos'.verdict = ""
        /\ chaos'.target = chaos.target
    BY <1>0 DEF HideLegacy, Proceed, ChaosState
  <1>4. InDefault(chaos.target)'
    BY <1>0, <1>1, <1>3 DEF InDefault
  <1> QED
    BY <1>0, <1>1, <1>2, <1>3, <1>4
       DEF HideLegacy, LitmusInv, ProcessOK, AdminPhase, InfraPhase, BoundPhase,
           InDefault

LEMMA CatalogSteps ==
  ASSUME LitmusInv, ListExperiments \/ SaveExperiment \/ Seeded
  PROVE  LitmusInv'
  <1> USE DEF At
  <1>0. /\ "default" \in envs /\ chaos \in ChaosState /\ chaos.verdict = ""
        /\ chaos.target \in Infras /\ InDefault(chaos.target)
    BY DEF ListExperiments, SaveExperiment, Seeded, LitmusInv, ProcessOK, BoundPhase
  <1>1. UNCHANGED <<envs, infra>> /\ (LitmusFault \/ UNCHANGED litmusFaults)
    BY DEF ListExperiments, SaveExperiment, Seeded, Request, server
  <1>3. ServerOK'
    <2>1. \/ UNCHANGED server
          \/ \E e \in Experiments :
               /\ saved' = [saved EXCEPT ![e] = [fresh |-> TRUE,
                                                 infra |-> chaos.target]]
               /\ UNCHANGED <<agent, connected, admin, firstLogin>>
      BY <1>0 DEF ListExperiments, SaveExperiment, Seeded, Request, ChaosState
    <2>2. [fresh |-> TRUE, infra |-> chaos.target]
             \in [fresh : BOOLEAN, infra : Infras \cup {Nobody}]
      BY <1>0
    <2> QED
      BY <1>1, <2>1, <2>2, QuietServer
         DEF LitmusInv, ServerOK, ServerType, InDefault
  <1>4. ASSUME chaos' \in ChaosState, chaos'.pc = "save", chaos'.verdict = "",
               chaos'.target = chaos.target,
               \A e \in Experiments \ chaos'.todo :
                  saved'[e].fresh /\ saved'[e].infra = chaos'.target
        PROVE  ProcessOK'
    <2>1. InDefault(chaos.target)'
      BY <1>0, <1>1, <1>4 DEF InDefault
    <2> QED
      BY <1>0, <1>1, <1>4, <2>1
         DEF ProcessOK, AdminPhase, InfraPhase, BoundPhase, BoundTo
  <1>5. CASE ListExperiments
    <2> DEFINE todo == {e \in Experiments : ~UpToDate(e, chaos.target)}
    <2>1. ASSUME UNCHANGED saved,
                 chaos' = [chaos EXCEPT !.pc = "save", !.todo = todo]
          PROVE  ProcessOK'
      <3>1. \A e \in Experiments \ todo : BoundTo(e, chaos.target)
        BY DEF UpToDate, BoundTo
      <3>2. todo \subseteq Experiments
        OBVIOUS
      <3> HIDE DEF todo
      <3>3. /\ chaos' \in ChaosState /\ chaos'.pc = "save" /\ chaos'.verdict = ""
            /\ chaos'.target = chaos.target /\ chaos'.todo = todo
        BY <1>0, <2>1, <3>2 DEF ChaosState
      <3>4. \A e \in Experiments \ chaos'.todo :
              saved'[e].fresh /\ saved'[e].infra = chaos'.target
        BY <2>1, <3>1, <3>3 DEF BoundTo
      <3> QED
        BY <1>4, <3>3, <3>4
    <2>2. ProcessOK'
      BY <1>5, <2>1, RestartOK DEF ListExperiments, Request, server
    <2> QED
      BY <1>1, <1>3, <2>2, LitmusFaultType DEF LitmusInv
  <1>6. CASE SaveExperiment
    <2> PICK e \in chaos.todo :
          Request(/\ saved' = [saved EXCEPT ![e] = [fresh |-> TRUE,
                                                    infra |-> chaos.target]]
                  /\ UNCHANGED <<envs, infra, agent, connected, admin, firstLogin>>,
                  chaos' = [chaos EXCEPT !.todo = @ \ {e}])
      BY <1>6 DEF SaveExperiment
    <2>1. ASSUME saved' = [saved EXCEPT ![e] = [fresh |-> TRUE,
                                                infra |-> chaos.target]],
                 chaos' = [chaos EXCEPT !.todo = @ \ {e}]
          PROVE  ProcessOK'
      <3>1. /\ chaos' \in ChaosState /\ chaos'.pc = "save" /\ chaos'.verdict = ""
            /\ chaos'.target = chaos.target /\ chaos'.todo = chaos.todo \ {e}
        BY <1>0, <1>6, <2>1 DEF ChaosState, SaveExperiment
      <3>2. \A x \in Experiments \ chaos.todo : BoundTo(x, chaos.target)
        BY <1>6 DEF SaveExperiment, LitmusInv, ProcessOK
      <3>3. \A x \in Experiments \ chaos'.todo :
              saved'[x].fresh /\ saved'[x].infra = chaos'.target
        <4>1. saved \in [Experiments -> [fresh : BOOLEAN, infra : Infras \cup {Nobody}]]
          BY DEF LitmusInv, ServerOK, ServerType
        <4> QED
          BY <2>1, <3>1, <3>2, <4>1 DEF BoundTo
      <3> QED
        BY <1>4, <3>1, <3>3
    <2>2. ProcessOK'
      BY <2>1, RestartOK DEF Request
    <2> QED
      BY <1>1, <1>3, <2>2, LitmusFaultType DEF LitmusInv
  <1>7. CASE Seeded
    <2>1. /\ chaos.pc = "save" /\ chaos.todo = {} /\ UNCHANGED server
          /\ chaos' = [Idle EXCEPT !.verdict = "ok"]
      BY <1>7 DEF Seeded, Ended
    <2>2. /\ chaos' \in ChaosState /\ chaos'.pc = "idle" /\ chaos'.verdict = "ok"
      BY <2>1, IdleType DEF ChaosState, Idle
    <2>3. \A e \in Experiments : saved[e].fresh /\ saved[e].infra = chaos.target
      BY <2>1 DEF LitmusInv, ProcessOK, BoundTo
    <2>4. \A e \in Experiments :
            saved'[e].fresh /\ saved'[e].infra \in Infras /\ InDefault(saved[e].infra)'
      BY <1>0, <2>1, <2>3 DEF InDefault, server
    <2>5. CatalogIsBound'
      BY <2>4 DEF CatalogIsBound, InDefault
    <2>6. ProcessOK'
      BY <2>2, <2>5 DEF ProcessOK, AdminPhase, InfraPhase, BoundPhase
    <2> QED
      BY <1>1, <1>3, <2>6, LitmusFaultType DEF LitmusInv
  <1> QED
    BY <1>5, <1>6, <1>7

LEMMA LitmusStepInv == LitmusInv /\ [LitmusNext]_litmusVars => LitmusInv'
  <1> SUFFICES ASSUME LitmusInv, [LitmusNext]_litmusVars PROVE LitmusInv'
    OBVIOUS
  <1>1. CASE LitmusKilled
    <2>1. ServerOK' /\ LitmusFault
      BY <1>1, QuietServer DEF LitmusKilled
    <2>2. ProcessOK'
      BY <1>1, RestartOK DEF LitmusKilled
    <2> QED
      BY <2>1, <2>2, LitmusFaultType DEF LitmusInv
  <1>2. CASE AgentConnects \/ AgentDrops \/ UNCHANGED litmusVars
    <2>1. UNCHANGED <<envs, infra, agent, saved, admin, firstLogin, chaos>>
      BY <1>2 DEF AgentConnects, AgentDrops, litmusVars, server
    <2>2. ServerOK'
      BY <1>2, <2>1 DEF AgentConnects, AgentDrops, litmusVars, server, LitmusInv,
         ServerOK, ServerType, InDefault
    <2>3. ProcessOK'
      BY <2>1 DEF LitmusInv, ProcessOK, CatalogIsBound, StaleInfras, InDefault,
         BoundTo
    <2>4. LitmusFault \/ UNCHANGED litmusFaults
      BY <1>2 DEF AgentConnects, AgentDrops, litmusVars
    <2> QED
      BY <2>2, <2>3, <2>4, LitmusFaultType DEF LitmusInv
  <1> QED
    BY <1>1, <1>2, AdminSteps, EnvironmentSteps, InfraRequests, AgentSteps,
       HideStep, CatalogSteps DEF LitmusNext, LitmusStep

LEMMA LitmusInitInv == LitmusInit => LitmusInv
  <1> SUFFICES ASSUME LitmusInit PROVE LitmusInv
    OBVIOUS
  <1>1. ServerType
    <2>1. PICK e \in [fresh : BOOLEAN, infra : {i \in OldInfras : infra[i] # "none"}]
                        \cup {Missing} :
            saved = [x \in Experiments |-> e]
      BY DEF LitmusInit
    <2>2. e \in [fresh : BOOLEAN, infra : Infras \cup {Nobody}]
      <3>1. CASE e = Missing
        BY <3>1 DEF Missing
      <3>2. CASE e \in [fresh : BOOLEAN, infra : {i \in OldInfras : infra[i] # "none"}]
        <4>1. {i \in OldInfras : infra[i] # "none"} \subseteq Infras \cup {Nobody}
          BY LitmusAssumption
        <4> QED
          BY <3>2, <4>1
      <3> QED
        BY <3>1, <3>2
    <2> QED
      BY <2>1, <2>2, LitmusAssumption DEF LitmusInit, ServerType
  <1>2. ServerOK
    BY <1>1 DEF LitmusInit, ServerOK
  <1>3. chaos \in ChaosState /\ chaos.pc = "idle" /\ chaos.verdict = "new"
    BY IdleType DEF LitmusInit, Idle
  <1> QED
    BY <1>2, <1>3, LitmusAssumption DEF LitmusInit, LitmusInv, ProcessOK, AdminPhase,
       InfraPhase, BoundPhase

-----------------------------------------------------------------------------
(* The theorems *)

\* The variables of the reconciliation keep their types.
THEOREM LitmusTypeCorrect == LitmusSpec => []LitmusTypeOK
  <1>1. LitmusInv => LitmusTypeOK
    BY DEF LitmusInv, ServerOK, ServerType, ProcessOK, ChaosState, LitmusTypeOK
  <1> QED
    BY <1>1, LitmusInitInv, LitmusStepInv, PTL DEF LitmusSpec

\* After a reconciliation that ended well, every experiment of the catalog is
\* in Litmus as the repository has it, bound to an infrastructure that exists
\* in the default environment, whatever was lost or repeated on the way.
THEOREM CatalogStaysBound == LitmusSpec => []CatalogIsBound
  <1>1. LitmusInv => CatalogIsBound
    BY DEF LitmusInv, ProcessOK, CatalogIsBound
  <1> QED
    BY <1>1, LitmusInitInv, LitmusStepInv, PTL DEF LitmusSpec

\* A registration leaves no second record with the managed name, although the
\* replies to earlier registrations may have been lost.
THEOREM OneInfraIsManaged == LitmusSpec => OneManagedInfra
  <1> DEFINE OnlyOne == \A i, j \in Infras :
        infra[i] = "none" /\ infra'[i] = "own" /\ i # j => infra'[j] # "own"
  <1>1. LitmusInv /\ [LitmusNext]_litmusVars => [OnlyOne]_litmusVars
    <2> SUFFICES ASSUME LitmusInv, LitmusNext, NEW i \in Infras, NEW j \in Infras,
                        infra[i] = "none", infra'[i] = "own", i # j
                 PROVE  infra'[j] # "own"
      OBVIOUS
    <2>0. infra \in [Infras -> {"none", "own", "other", "test"}]
      BY DEF LitmusInv, ServerOK, ServerType
    <2>1. CASE RegisterInfra
      <3> DEFINE new == CHOOSE x \in Unused : TRUE
      <3>1. infra' = [infra EXCEPT ![new] = "own"]
        BY <2>1 DEF RegisterInfra, Request, server
      <3>2. \A x \in Infras : infra[x] # "own"
        BY <2>1 DEF RegisterInfra, LitmusInv, ProcessOK, StaleInfras, At
      <3> HIDE DEF new
      <3>3. i = new
        BY <2>0, <3>1
      <3> QED
        BY <2>0, <3>1, <3>2, <3>3
    <2>2. CASE DeleteInfra
      <3> PICK x \in chaos.stale :
            infra' = [infra EXCEPT ![x] = "none"] \/ infra' = infra
        BY <2>2 DEF DeleteInfra, Request, server
      <3> QED
        BY <2>0
    <2>3. CASE HideLegacy
      BY <2>0, <2>3 DEF HideLegacy
    <2>4. CASE ~RegisterInfra /\ ~DeleteInfra /\ ~HideLegacy
      <3>1. infra' = infra
        BY <2>4 DEF LitmusNext, LitmusStep, StartLitmus, ProbeLogin, DeleteAdmin,
           RestartAuth, ReprobeLogin, ClearInitialLogin, ListEnvironments,
           CreateEnvironment, ListInfras, ApplyManifest, AwaitActive,
           ListExperiments, SaveExperiment, Seeded, LitmusKilled, AgentConnects,
           AgentDrops, Request, server
      <3> QED
        BY <3>1
    <2> QED
      BY <2>1, <2>2, <2>3, <2>4
  <1> HIDE DEF OnlyOne
  <1>2. LitmusSpec => [][OnlyOne]_litmusVars
    BY <1>1, LitmusInitInv, LitmusStepInv, PTL DEF LitmusSpec
  <1> QED
    BY <1>2 DEF OneManagedInfra, OnlyOne

\* The legacy environment is hidden, and an experiment saved, only when the
\* default environment has the infrastructure the process has settled on.
THEOREM LegacyIsHiddenLast == LitmusSpec => LegacyGoesLast
  <1> DEFINE Hides ==
        ("test" \in envs /\ "test" \notin envs') \/ saved' # saved
          => "default" \in envs /\ \E i \in Infras : InDefault(i)
                                         /\ i = chaos.target
  <1>1. LitmusInv /\ [LitmusNext]_litmusVars => [Hides]_litmusVars
    <2> SUFFICES ASSUME LitmusInv, LitmusNext,
                        ("test" \in envs /\ "test" \notin envs') \/ saved' # saved
                 PROVE  "default" \in envs /\ \E i \in Infras : InDefault(i)
                                                    /\ i = chaos.target
      OBVIOUS
    <2>1. HideLegacy \/ SaveExperiment
      BY DEF LitmusNext, LitmusStep, StartLitmus, ProbeLogin, DeleteAdmin,
         RestartAuth, ReprobeLogin, ClearInitialLogin, ListEnvironments,
         CreateEnvironment, ListInfras, DeleteInfra, RegisterInfra, ApplyManifest,
         AwaitActive, ListExperiments, Seeded, LitmusKilled, AgentConnects,
         AgentDrops, Request, server
    <2>2. chaos.pc \in BoundPhase
      BY <2>1 DEF HideLegacy, SaveExperiment, At, BoundPhase
    <2> QED
      BY <2>2 DEF LitmusInv, ProcessOK
  <1> HIDE DEF Hides
  <1>2. LitmusSpec => [][Hides]_litmusVars
    BY <1>1, LitmusInitInv, LitmusStepInv, PTL DEF LitmusSpec
  <1> QED
    BY <1>2 DEF LegacyGoesLast, Hides
=============================================================================
