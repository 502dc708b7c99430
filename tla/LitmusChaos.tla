---------------------------- MODULE LitmusChaos ----------------------------
(***************************************************************************)
(* `reconcile-litmus-chaos` and `reconcile-litmus-admin` of                *)
(* scripts/haac.py: they repair the admin account of LitmusChaos, make     *)
(* sure that the default environment has an infrastructure whose agent is  *)
(* active, hide the legacy environment "test", and seed the repository's   *)
(* experiments.  Every request to the Litmus API, to its database and to   *)
(* kubectl is one step, decided on what earlier requests returned; a reply *)
(* may be lost after the request took effect, a transient error repeats    *)
(* the whole reconciliation, any other error or a kill ends the process.   *)
(*                                                                         *)
(* The server side is external: an infrastructure is active while the      *)
(* agent deployed with its identifier is connected, and a restart of the   *)
(* server breaks the port-forward of the process.                          *)
(***************************************************************************)
EXTENDS Naturals

CONSTANTS
  Infras,        \* infrastructure identifiers that Litmus may hand out
  OldInfras,     \* those that may exist before the first run
  Experiments,   \* the entries of the repository's catalog
  MaxTries,      \* attempts of retry_litmus_transient
  MaxLitmusFaults

ASSUME LitmusAssumption ==
  /\ OldInfras \subseteq Infras /\ "none" \notin Infras
  /\ MaxTries \in Nat \ {0} /\ MaxLitmusFaults \in Nat

VARIABLES
  envs,        \* environments that are not removed
  infra,       \* per identifier: no record, or the record's environment and
               \* name: "own" is haac-default and "other" any other name, both
               \* in the default environment
  agent,       \* identifier the agent in namespace litmus is deployed with
  connected,   \* is the agent connected to the server
  saved,       \* experiments in Litmus: their content and infrastructure
  admin,       \* account of the admin: "ok", "drifted" password, "missing"
  firstLogin,  \* is_initial_login of that account
  chaos,       \* the process
  litmusFaults

server == <<envs, infra, agent, connected, saved, admin, firstLogin>>
litmusVars == <<server, chaos, litmusFaults>>

Nobody == "none"
Missing == [fresh |-> FALSE, infra |-> Nobody]

InDefault(i) == infra[i] \in {"own", "other"}
ActiveAnywhere(i) == infra[i] # "none" /\ agent = i /\ connected     \* mutant: the environment is not compared
Active(i) == InDefault(i) /\ agent = i /\ connected

\* An identifier that nothing refers to stands for a new one; Infras bounds
\* how many there are at a time.
Unused == {i \in Infras : infra[i] = "none" /\ i # agent
                          /\ \A e \in Experiments : saved[e].infra # i}

LitmusFault ==
  litmusFaults < MaxLitmusFaults /\ litmusFaults' = litmusFaults + 1

Idle == [pc |-> "idle", tries |-> 0, forward |-> FALSE, legacy |-> FALSE,
         create |-> FALSE, stale |-> {}, target |-> Nobody, todo |-> {},
         verdict |-> "new"]

Ended(verdict) == chaos' = [Idle EXCEPT !.verdict = verdict]

Proceed(pc) == chaos' = [chaos EXCEPT !.pc = pc]

\* retry_litmus_transient: a new port-forward, and everything again.
Attempt == [Idle EXCEPT !.verdict = "", !.pc = "environments",
                        !.tries = chaos.tries + 1, !.forward = TRUE]
RetriedForEver == chaos' = Attempt     \* mutant: the attempts are not counted
Retried == IF chaos.tries < MaxTries THEN chaos' = Attempt ELSE Ended("failed")

\* litmus_http_json: the request does Effect and its reply arrives, or is
\* lost; without a port-forward, or when the connection is refused, nothing
\* happens.  Only some of the errors count as transient.
Request(Effect, Reply) ==
  \/ chaos.forward /\ Effect /\ Reply /\ UNCHANGED litmusFaults
  \/ chaos.forward /\ Effect /\ LitmusFault /\ (Retried \/ Ended("failed"))
  \/ ~chaos.forward /\ Retried /\ UNCHANGED <<server, litmusFaults>>

At(pc) == chaos.pc = pc

-----------------------------------------------------------------------------
(* The admin session *)

StartLitmus ==
  /\ At("idle")
  /\ chaos' = [Idle EXCEPT !.pc = "probe", !.verdict = ""]
  /\ UNCHANGED <<server, litmusFaults>>

\* reconcile_litmus_admin stops here; reconcile_litmus_chaos goes on.
AfterAdmin == (chaos' = Attempt \/ Ended("admin"))

ProbeLogin ==
  /\ At("probe")
  /\ IF admin = "ok" THEN Proceed("unlock") ELSE Proceed("delete")
  /\ UNCHANGED <<server, litmusFaults>>

DeleteAdmin ==
  /\ At("delete")
  /\ admin' = "missing"
  /\ Proceed("restart")
  /\ UNCHANGED <<envs, infra, agent, connected, saved, firstLogin, litmusFaults>>

\* The restarted auth server creates a missing admin from the secret; one that
\* exists keeps its password.
RestartAuth ==
  /\ At("restart")
  /\ IF admin = "missing"
     THEN admin' = "ok" /\ firstLogin' = TRUE
     ELSE UNCHANGED <<admin, firstLogin>>
  /\ Proceed("reprobe")
  /\ UNCHANGED <<envs, infra, agent, connected, saved, litmusFaults>>

ReprobeLogin ==
  /\ At("reprobe")
  /\ IF admin = "ok" THEN Proceed("unlock") ELSE Ended("failed")
  /\ UNCHANGED <<server, litmusFaults>>

ClearInitialLogin ==
  /\ At("unlock")
  /\ firstLogin' = FALSE
  /\ AfterAdmin
  /\ UNCHANGED <<envs, infra, agent, connected, saved, admin, litmusFaults>>

-----------------------------------------------------------------------------
(* The environment and its infrastructure *)

\* Whether "test" has to be hidden is decided now, and used much later.
ListEnvironments ==
  /\ At("environments")
  /\ Request(UNCHANGED server,
             chaos' = [chaos EXCEPT !.pc = "create",
                                    !.legacy = "test" \in envs,
                                    !.create = "default" \notin envs])

CreateEnvironment ==
  /\ At("create")
  /\ IF chaos.create
     THEN Request(/\ envs' = envs \cup {"default"}
                  /\ UNCHANGED <<infra, agent, connected, saved, admin,
                                 firstLogin>>,
                  Proceed("infras"))
     ELSE Proceed("infras") /\ UNCHANGED <<server, litmusFaults>>

StaleKept == {}     \* mutant: nothing is replaced
StaleInfras == {i \in Infras : infra[i] = "own"}

\* Any active infrastructure of the environment will do; otherwise the records
\* with the managed name are replaced.
ListInfras ==
  /\ At("infras")
  /\ Request(UNCHANGED server,
       \/ \E i \in Infras :
            Active(i) /\ chaos' = [chaos EXCEPT !.pc = "hide", !.target = i]
       \/ /\ \A i \in Infras : ~Active(i)
          /\ chaos' = [chaos EXCEPT !.pc = "replace",
                                    !.stale = StaleInfras])

DeleteInfra ==
  /\ At("replace")
  /\ \E i \in chaos.stale :
       Request(/\ infra' = [infra EXCEPT ![i] = "none"]
               /\ UNCHANGED <<envs, agent, connected, saved, admin, firstLogin>>,
               chaos' = [chaos EXCEPT !.stale = @ \ {i}])

RegisterInfra ==
  /\ At("replace")
  /\ chaos.stale = {}
  /\ Unused # {}
  /\ LET new == CHOOSE i \in Unused : TRUE IN
       Request(/\ infra' = [infra EXCEPT ![new] = "own"]
               /\ UNCHANGED <<envs, agent, connected, saved, admin, firstLogin>>,
               chaos' = [chaos EXCEPT !.pc = "apply", !.target = new])

\* kubectl apply of the manifest, which moves the one agent to the new record.
ApplyManifest ==
  /\ At("apply")
  /\ agent' = chaos.target
  /\ connected' = FALSE
  /\ Proceed("await")
  /\ UNCHANGED <<envs, infra, saved, admin, firstLogin, litmusFaults>>

\* wait_for_litmus_infra_active goes by name and environment.
AwaitActive ==
  /\ At("await")
  /\ \/ \E i \in Infras :
          /\ infra[i] = "own" /\ Active(i)
          /\ chaos' = [chaos EXCEPT !.pc = "hide", !.target = i]
          /\ UNCHANGED litmusFaults
     \/ ~connected /\ LitmusFault /\ Ended("failed")
  /\ UNCHANGED server

OnlyInfraLeft == \E i \in Infras : infra[i] = "test"     \* mutant: the environment alone is not seen
LegacyLeft == "test" \in envs \/ \E i \in Infras : infra[i] = "test"

\* The database is changed through kubectl exec; the server is restarted if
\* anything changed, which breaks the port-forward.
HideLegacy ==
  /\ At("hide")
  /\ IF chaos.legacy /\ LegacyLeft
     THEN /\ envs' = envs \ {"test"}
          /\ infra' = [i \in Infras |->
                         IF infra[i] = "test" THEN "none" ELSE infra[i]]
          /\ chaos' = [chaos EXCEPT !.pc = "catalog", !.forward = FALSE]
     ELSE UNCHANGED <<envs, infra>> /\ Proceed("catalog")
  /\ UNCHANGED <<agent, connected, saved, admin, firstLogin, litmusFaults>>

-----------------------------------------------------------------------------
(* The catalog of experiments *)

\* Content and infrastructure of the saved experiment are compared with the
\* catalog's.
SameContent(e, i) == saved[e].fresh     \* mutant: the infrastructure is not compared
UpToDate(e, i) == saved[e] = [fresh |-> TRUE, infra |-> i]

ListExperiments ==
  /\ At("catalog")
  /\ Request(UNCHANGED server,
             chaos' = [chaos EXCEPT !.pc = "save",
                         !.todo = {e \in Experiments : ~UpToDate(e, chaos.target)}])

SaveExperiment ==
  /\ At("save")
  /\ \E e \in chaos.todo :
       Request(/\ saved' = [saved EXCEPT ![e] = [fresh |-> TRUE,
                                                 infra |-> chaos.target]]
               /\ UNCHANGED <<envs, infra, agent, connected, admin, firstLogin>>,
               chaos' = [chaos EXCEPT !.todo = @ \ {e}])

Seeded ==
  /\ At("save") /\ chaos.todo = {}
  /\ Ended("ok")
  /\ UNCHANGED <<server, litmusFaults>>

-----------------------------------------------------------------------------
(* Failures and the agent *)

\* Ctrl-C, a kubectl that must succeed fails, the tunnel dies; within an attempt
\* the message of the error may look transient.
LitmusKilled ==
  /\ ~At("idle") /\ LitmusFault
  /\ Ended("failed") \/ (chaos.tries > 0 /\ Retried)
  /\ UNCHANGED server

AgentConnects ==
  /\ ~connected /\ agent # Nobody
  /\ connected' = TRUE
  /\ UNCHANGED <<envs, infra, agent, saved, admin, firstLogin, chaos,
                 litmusFaults>>

AgentDrops ==
  /\ connected /\ LitmusFault
  /\ connected' = FALSE
  /\ UNCHANGED <<envs, infra, agent, saved, admin, firstLogin, chaos>>

\* What an earlier release, an operator and killed runs may have left behind.
LitmusInit ==
  /\ envs \in SUBSET {"default", "test"}
  /\ infra \in [Infras -> {"none", "own", "other", "test"}]
  /\ \A i \in Infras :
       /\ i \notin OldInfras => infra[i] = "none"
       /\ InDefault(i) => "default" \in envs
       /\ infra[i] = "test" => "test" \in envs
  /\ agent \in {Nobody} \cup {i \in OldInfras : infra[i] # "none"}
  /\ connected = FALSE
  /\ \E e \in [fresh : BOOLEAN, infra : {i \in OldInfras : infra[i] # "none"}]
              \cup {Missing} :
       saved = [x \in Experiments |-> e]
  /\ admin \in {"ok", "drifted"}
  /\ firstLogin = TRUE
  /\ chaos = Idle
  /\ litmusFaults = 0

LitmusStep ==
  \/ StartLitmus \/ ProbeLogin \/ DeleteAdmin \/ RestartAuth \/ ReprobeLogin
  \/ ClearInitialLogin \/ ListEnvironments \/ CreateEnvironment \/ ListInfras
  \/ DeleteInfra \/ RegisterInfra \/ ApplyManifest \/ AwaitActive \/ HideLegacy
  \/ ListExperiments \/ SaveExperiment \/ Seeded

LitmusNext == LitmusStep \/ LitmusKilled \/ AgentConnects \/ AgentDrops

LitmusSpec == LitmusInit /\ [][LitmusNext]_litmusVars

\* The commands are run again until they succeed, not always the shorter one,
\* and the agent connects.
ChaosCommand == ClearInitialLogin /\ chaos' = Attempt

LitmusFairness ==
  /\ WF_litmusVars(LitmusStep) /\ SF_litmusVars(ChaosCommand)
  /\ WF_litmusVars(AgentConnects)

-----------------------------------------------------------------------------
(* Properties *)

LitmusTypeOK ==
  /\ envs \subseteq {"default", "test"}
  /\ infra \in [Infras -> {"none", "own", "other", "test"}]
  /\ agent \in Infras \cup {Nobody} /\ connected \in BOOLEAN
  /\ saved \in [Experiments -> [fresh : BOOLEAN, infra : Infras \cup {Nobody}]]
  /\ admin \in {"ok", "drifted", "missing"} /\ firstLogin \in BOOLEAN
  /\ chaos.pc \in {"idle", "probe", "delete", "restart", "reprobe", "unlock",
                   "environments", "create", "infras", "replace", "apply",
                   "await", "hide", "catalog", "save"}
  /\ chaos.tries \in 0..MaxTries
  /\ chaos.target \in Infras \cup {Nobody}
  /\ chaos.stale \subseteq Infras /\ chaos.todo \subseteq Experiments
  /\ chaos.verdict \in {"new", "", "ok", "admin", "failed"}
  /\ litmusFaults \in 0..MaxLitmusFaults

\* A reconciliation that ended well leaves every experiment of the catalog as
\* the repository has it, bound to an infrastructure that exists in the default
\* environment, whatever was lost or repeated on the way.
CatalogIsBound ==
  chaos.verdict = "ok" =>
    \A e \in Experiments :
      saved[e].fresh /\ saved[e].infra \in Infras /\ InDefault(saved[e].infra)

\* Registrations whose reply was lost, and runs killed before the manifest was
\* applied, leave no second record with the managed name behind.
OneManagedInfra ==
  [][\A i, j \in Infras :
       infra[i] = "none" /\ infra'[i] = "own" /\ i # j => infra'[j] # "own"
    ]_litmusVars

\* The legacy environment disappears only once the default environment has an
\* infrastructure, and the experiments are never seeded before that.
LegacyGoesLast ==
  [][("test" \in envs /\ "test" \notin envs') \/ saved' # saved
       => "default" \in envs /\ \E i \in Infras : InDefault(i)
                                      /\ i = chaos.target]_litmusVars

\* Whatever a killed run, a lost reply or the restart of the server in the
\* middle of an attempt leaves behind, running the command again ends with the
\* experiments seeded and the legacy environment hidden.
LitmusConverges == chaos.pc = "environments" ~> (chaos.verdict = "ok" /\ "test" \notin envs)
=============================================================================
