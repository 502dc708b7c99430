------------------------------ MODULE EdgeProofs ------------------------------
(***************************************************************************)
(* Theorems about the components at the edge: the verification of the      *)
(* public URLs and its ban recovery (EdgeAccess), the publication of DNS   *)
(* records and tunnel routes (EdgePublication) and the recovery of         *)
(* CrowdSec's agents (CrowdSecAgents), for all endpoints, hosts, pods and  *)
(* numbers of faults.                                                      *)
(***************************************************************************)
EXTENDS EdgeAccess, EdgePublication, CrowdSecAgents, TLAPS

-----------------------------------------------------------------------------
(* EdgeAccess *)

WebState == [pc : {"idle", "probe", "judge", "clear", "lift", "flush"},
             round : 0..Rounds, todo : SUBSET Endpoints,
             passed : SUBSET Endpoints, refused : SUBSET Endpoints,
             recover : BOOLEAN, cleared : BOOLEAN, lift : SUBSET Ban,
             verdict : {"new", "", "full-success", "failed", "cleared"}]

\* What the recovery is about to lift is on the false-positive surface.
AccessInv ==
  /\ route \in [Endpoints -> {"ready", "bare", "down"}]
  /\ bans \subseteq Ban /\ denied \subseteq Addresses
  /\ web \in WebState
  /\ edgeFaults \in 0..MaxEdgeFaults
  /\ \A b \in web.lift : b.surface

LEMMA EdgeFaultType ==
  ASSUME edgeFaults \in 0..MaxEdgeFaults, EdgeFault \/ UNCHANGED edgeFaults
  PROVE  edgeFaults' \in 0..MaxEdgeFaults
  BY EdgeAssumption DEF EdgeFault

\* The states from which a process starts, and in which one ends.
LEMMA DoneType == Done \in WebState /\ Done.lift = {}
  <1>1. 0 \in 0..Rounds
    BY EdgeAssumption
  <1> QED
    BY <1>1 DEF Done, WebState

LEMMA VerdictType ==
  ASSUME NEW v \in {"full-success", "failed", "cleared"}, Verdict(v)
  PROVE  web' \in WebState /\ web'.lift = {}
  BY DoneType DEF Verdict, WebState

LEMMA VerifyType ==
  ASSUME NEW r \in BOOLEAN
  PROVE  Verify(r) \in WebState /\ Verify(r).lift = {}
  <1>1. 1 \in 0..Rounds
    BY EdgeAssumption
  <1> QED
    BY <1>1, DoneType DEF Verify, WebState

LEMMA AfterClearType ==
  ASSUME AccessInv, AfterClear
  PROVE  web' \in WebState /\ web'.lift \subseteq web.lift
  <1>1. CASE web' = [web EXCEPT !.pc = "flush"]
    BY <1>1 DEF AccessInv, WebState
  <1> QED
    BY <1>1, VerdictType DEF AfterClear

LEMMA LiftType ==
  ASSUME AccessInv, NEW ip, Lift(FalsePositives(ip))
  PROVE  web' \in WebState /\ \A b \in web'.lift : b.surface
  <1>1. /\ FalsePositives(ip) \subseteq Ban
        /\ \A b \in FalsePositives(ip) : b.surface
    BY DEF FalsePositives, AccessInv
  <1> QED
    BY <1>1 DEF Lift, AccessInv, WebState

LEMMA AccessStep == AccessInv /\ [EdgeNext]_edgeVars => AccessInv'
  <1> SUFFICES ASSUME AccessInv, [EdgeNext]_edgeVars PROVE AccessInv'
    OBVIOUS
  <1> DEFINE WebOK == web' \in WebState /\ \A b \in web'.lift : b.surface
  <1>1. ASSUME UNCHANGED edge, EdgeFault \/ UNCHANGED edgeFaults, WebOK
        PROVE  AccessInv'
    BY <1>1, EdgeFaultType DEF AccessInv, edge
  <1>2. CASE StartVerify \/ StartClear
    <2>1. StartVerify => WebOK
      BY VerifyType DEF StartVerify
    <2>2. StartClear => WebOK
      BY DoneType DEF StartClear, WebState
    <2> QED
      BY <1>1, <1>2, <2>1, <2>2 DEF StartVerify, StartClear
  <1>3. CASE ProbeEndpoint \/ EndRound
    <2>1. ASSUME NEW e \in web.todo, NEW P \in SUBSET Endpoints,
                 NEW R \in SUBSET Endpoints,
                 web' = [web EXCEPT !.todo = @ \ {e}, !.passed = P, !.refused = R]
          PROVE  WebOK
      BY <2>1 DEF AccessInv, WebState
    <2>2. ProbeEndpoint => WebOK
      <3> SUFFICES ASSUME ProbeEndpoint PROVE WebOK
        OBVIOUS
      <3> PICK e \in web.todo :
            LET r == Response(e) IN
            web' = [web EXCEPT !.todo = @ \ {e},
                      !.passed = IF Verified(e, r) THEN @ \cup {e} ELSE @,
                      !.refused = IF r = "403" THEN @ \cup {e} ELSE @ \ {e}]
        BY DEF ProbeEndpoint
      <3> DEFINE P == IF Verified(e, Response(e)) THEN web.passed \cup {e}
                                                  ELSE web.passed
                 R == IF Response(e) = "403" THEN web.refused \cup {e}
                                             ELSE web.refused \ {e}
      <3>1. P \in SUBSET Endpoints /\ R \in SUBSET Endpoints
        <4>1. /\ web.passed \subseteq Endpoints /\ web.refused \subseteq Endpoints
              /\ web.todo \subseteq Endpoints
          BY DEF AccessInv, WebState
        <4> QED
          BY <4>1
      <3>2. web' = [web EXCEPT !.todo = @ \ {e}, !.passed = P, !.refused = R]
        OBVIOUS
      <3> HIDE DEF P, R
      <3> QED
        BY <2>1, <3>1, <3>2
    <2>3. EndRound => WebOK
      <3>1. Rounds \in Nat /\ web.round \in 0..Rounds
        BY EdgeAssumption DEF AccessInv, WebState
      <3>2. web.round < Rounds => web.round + 1 \in 0..Rounds
        BY <3>1
      <3>3. ASSUME web.round < Rounds,
                   web' = [web EXCEPT !.round = @ + 1,
                                      !.todo = Endpoints \ web.passed]
            PROVE  WebOK
        BY <3>2, <3>3 DEF AccessInv, WebState
      <3>4. ASSUME web' = [web EXCEPT !.pc = "judge"]
            PROVE  WebOK
        BY <3>4 DEF AccessInv, WebState
      <3> HIDE DEF WebOK
      <3> QED
        BY <3>3, <3>4 DEF EndRound
    <2> QED
      BY <1>1, <1>3, <2>2, <2>3 DEF ProbeEndpoint, EndRound
  <1>4. CASE Judge
    <2>1. CASE web' = [web EXCEPT !.pc = "clear"]
      <3>1. WebOK
        BY <2>1 DEF AccessInv, WebState
      <3> QED
        BY <1>1, <1>4, <3>1 DEF Judge
    <2> QED
      BY <1>1, <1>4, <2>1, VerdictType DEF Judge
  <1>5. CASE ClearDetected
    BY <1>1, <1>5, LiftType DEF ClearDetected
  <1>6. CASE ClearCandidate
    <2>1. WebOK
      BY <1>6, LiftType, AfterClearType, VerdictType
         DEF ClearCandidate, AccessInv
    <2> QED
      BY <1>1, <1>6, <2>1 DEF ClearCandidate
  <1>7. CASE LiftBan
    <2>1. CASE web.lift = {} /\ AfterClear /\ UNCHANGED <<bans, edgeFaults>>
      BY <1>1, <1>7, <2>1, AfterClearType DEF LiftBan, edge, AccessInv
    <2>2. ASSUME NEW b \in web.lift, web' = [web EXCEPT !.lift = @ \ {b}],
                 bans' \subseteq bans, EdgeFault \/ UNCHANGED edgeFaults
          PROVE  AccessInv'
      <3>1. WebOK
        BY <2>2 DEF AccessInv, WebState
      <3> QED
        BY <1>7, <2>2, <3>1, EdgeFaultType DEF LiftBan, AccessInv
    <2> QED
      BY <1>7, <2>1, <2>2 DEF LiftBan
  <1>8. CASE RestartTraefik
    <2>1. WebOK
      <3>1. web' = Verify(FALSE) \/ Verdict("failed")
        BY <1>8 DEF RestartTraefik
      <3> QED
        BY <3>1, VerifyType, VerdictType
    <2>2. denied' \subseteq Addresses
      <3>1. denied' = Reloaded \/ denied' = denied
        BY <1>8 DEF RestartTraefik
      <3>2. Reloaded \subseteq Addresses
        BY DEF Reloaded, AccessInv, Ban
      <3> QED
        BY <3>1, <3>2 DEF AccessInv
    <2> QED
      BY <1>8, <2>1, <2>2, EdgeFaultType DEF RestartTraefik, AccessInv
  <1>9. CASE BanOperator
    <2>1. [ip |-> "operator", surface |-> TRUE] \in Ban /\ "operator" \in Addresses
      BY DEF Ban, Addresses
    <2> QED
      BY <1>9, <2>1, EdgeFaultType DEF BanOperator, AccessInv
  <1>10. ASSUME NEW e \in Endpoints, RouteFails(e) \/ RouteRecovers(e)
         PROVE  AccessInv'
    BY <1>10, EdgeFaultType DEF RouteFails, RouteRecovers, AccessInv
  <1>11. CASE UNCHANGED edgeVars
    BY <1>1, <1>11 DEF edgeVars, AccessInv
  <1> QED
    BY <1>2, <1>3, <1>4, <1>5, <1>6, <1>7, <1>8, <1>9, <1>10, <1>11
       DEF EdgeNext, EdgeStep

LEMMA AccessInit == EdgeInit => AccessInv
  BY EdgeAssumption DEF EdgeInit, AccessInv, WebState, Done, Ban, Addresses

\* The variables of the verification keep their types.
THEOREM EdgeTypeCorrect == EdgeSpec => []EdgeTypeOK
  <1>1. AccessInv => EdgeTypeOK
    BY DEF AccessInv, EdgeTypeOK, WebState
  <1> QED
    BY <1>1, AccessInit, AccessStep, PTL DEF EdgeSpec

\* No ban is lifted that CrowdSec decided for anything but the traffic of an
\* operator's own browser, although the address may be a guess and the
\* decisions may change between the moment they are read and the deletions.
THEOREM GenuineBansAreKept == EdgeSpec => GenuineBansStay
  <1> DEFINE Keeps == \A b \in bans : ~b.surface => b \in bans'
  <1>1. AccessInv /\ [EdgeNext]_edgeVars => [Keeps]_edgeVars
    <2> SUFFICES ASSUME AccessInv, EdgeNext, NEW b \in bans, ~b.surface
                 PROVE  b \in bans'
      OBVIOUS
    <2>1. CASE LiftBan
      BY <2>1 DEF LiftBan, AccessInv
    <2>2. CASE \/ StartVerify \/ ProbeEndpoint \/ EndRound \/ Judge
               \/ ClearDetected \/ ClearCandidate \/ RestartTraefik \/ StartClear
      BY <2>2 DEF StartVerify, ProbeEndpoint, EndRound, Judge, ClearDetected,
         ClearCandidate, RestartTraefik, StartClear, edge
    <2>3. CASE BanOperator \/ \E e \in Endpoints : RouteFails(e) \/ RouteRecovers(e)
      BY <2>3 DEF BanOperator, RouteFails, RouteRecovers
    <2> QED
      BY <2>1, <2>2, <2>3 DEF EdgeNext, EdgeStep
  <1> HIDE DEF Keeps
  <1>2. EdgeSpec => [][Keeps]_edgeVars
    BY <1>1, AccessInit, AccessStep, PTL DEF EdgeSpec
  <1> QED
    BY <1>2 DEF GenuineBansStay, Keeps

-----------------------------------------------------------------------------
(* EdgePublication *)

SyncState == [pc : {"idle", "ingress", "list", "delete", "create"},
              listed : SUBSET Record, todo : SUBSET Record,
              verdict : {"new", "", "ok", "failed"}]

\* What is about to be looked at for deletion is in the managed domain.
RecordsInv ==
  /\ ingress \subseteq Hosts /\ served \subseteq Hosts
  /\ records \subseteq Record
  /\ dns \in SyncState
  /\ dnsFaults \in 0..MaxDnsFaults
  /\ dns.pc = "delete" => \A r \in dns.todo : InDomain(r)

\* A request leaves what it may: its effect, or nothing.
LEMMA EndsFailed ==
  ASSUME dnsFaults \in 0..MaxDnsFaults, DnsFault,
         dns' = [NoSync EXCEPT !.verdict = "failed"]
  PROVE  /\ dns' \in SyncState /\ dns'.pc = "idle"
         /\ dnsFaults' \in 0..MaxDnsFaults
  <1>1. dnsFaults' \in 0..MaxDnsFaults
    BY PublicationAssumption DEF DnsFault
  <1> QED
    BY <1>1 DEF NoSync, SyncState

LEMMA RecordsStep == RecordsInv /\ [PublicationNext]_dnsVars => RecordsInv'
  <1> SUFFICES ASSUME RecordsInv, [PublicationNext]_dnsVars PROVE RecordsInv'
    OBVIOUS
  <1> USE PublicationAssumption
  <1>1. CASE StartSync
    BY <1>1 DEF StartSync, RecordsInv, NoSync, SyncState, cloudflare
  <1>2. CASE PutIngress
    <2>1. \/ UNCHANGED <<served, records>> /\ ingress' \subseteq Hosts
          \/ UNCHANGED cloudflare
      BY <1>2 DEF PutIngress, Call
    <2>2. CASE dns' = [dns EXCEPT !.pc = "list"] /\ UNCHANGED dnsFaults
      BY <2>1, <2>2 DEF RecordsInv, SyncState, cloudflare
    <2> QED
      BY <1>2, <2>1, <2>2, EndsFailed DEF PutIngress, Call, RecordsInv, cloudflare
  <1>3. CASE ListRecords
    <2> PICK page \in Pages :
          Call(UNCHANGED cloudflare,
               dns' = [dns EXCEPT !.pc = "delete",
                         !.listed = {r \in page : InDomain(r)},
                         !.todo = {r \in page : InDomain(r)}])
      BY <1>3 DEF ListRecords
    <2>1. UNCHANGED cloudflare
      BY DEF Call
    <2> DEFINE seen == {r \in page : InDomain(r)}
    <2>2. seen \subseteq Record /\ \A r \in seen : InDomain(r)
      BY DEF Pages, RecordsInv
    <2>3. CASE /\ UNCHANGED dnsFaults
               /\ dns' = [dns EXCEPT !.pc = "delete", !.listed = seen,
                                     !.todo = seen]
      <3> HIDE DEF seen
      <3> QED
        BY <2>1, <2>2, <2>3 DEF RecordsInv, SyncState, cloudflare
    <2> QED
      BY <2>1, <2>3, EndsFailed DEF Call, RecordsInv, cloudflare
  <1>4. CASE DeleteRecord
    <2> PICK r \in dns.todo :
          IF ShouldKeep(r)
          THEN dns' = [dns EXCEPT !.todo = @ \ {r}]
               /\ UNCHANGED <<cloudflare, dnsFaults>>
          ELSE Call(/\ records' = records \ {r}
                    /\ UNCHANGED <<ingress, served>>,
                    dns' = [dns EXCEPT !.todo = @ \ {r}])
      BY <1>4 DEF DeleteRecord
    <2>1. UNCHANGED <<ingress, served>> /\ records' \subseteq records
      BY DEF Call, cloudflare
    <2>2. CASE dns' = [dns EXCEPT !.todo = @ \ {r}] /\ UNCHANGED dnsFaults
      <3>1. /\ dns' \in SyncState /\ dns'.pc = dns.pc
            /\ dns'.todo \subseteq dns.todo
        BY <2>2 DEF RecordsInv, SyncState
      <3> QED
        BY <2>1, <2>2, <3>1 DEF RecordsInv, InDomain
    <2> QED
      BY <2>1, <2>2, EndsFailed DEF Call, RecordsInv
  <1>5. CASE PlanCreation
    <2>1. [name : Declared \ ExistingNames, exact : {TRUE}] \subseteq Record
      BY DEF Record
    <2> QED
      BY <1>5, <2>1 DEF PlanCreation, RecordsInv, SyncState, cloudflare
  <1>6. CASE CreateRecord
    <2> PICK r \in dns.todo :
          IF \E other \in records : other.name = r.name
          THEN dns' = [NoSync EXCEPT !.verdict = "failed"]
               /\ UNCHANGED <<cloudflare, dnsFaults>>
          ELSE Call(records' = records \cup {r} /\ UNCHANGED <<ingress, served>>,
                    dns' = [dns EXCEPT !.todo = @ \ {r}])
      BY <1>6 DEF CreateRecord
    <2>1. UNCHANGED <<ingress, served>> /\ records' \subseteq records \cup {r}
      BY DEF Call, cloudflare
    <2>2. r \in Record /\ dns.pc = "create"
      BY <1>6 DEF RecordsInv, SyncState, CreateRecord
    <2>3. CASE dns' = [dns EXCEPT !.todo = @ \ {r}] /\ UNCHANGED dnsFaults
      BY <2>1, <2>2, <2>3 DEF RecordsInv, SyncState
    <2>4. CASE dns' = [NoSync EXCEPT !.verdict = "failed"] /\ UNCHANGED dnsFaults
      BY <2>1, <2>2, <2>4 DEF RecordsInv, SyncState, NoSync
    <2> QED
      BY <2>1, <2>2, <2>3, <2>4, EndsFailed DEF Call, RecordsInv
  <1>7. CASE RestartConnector
    <2>1. UNCHANGED <<ingress, records>> /\ served' \subseteq Hosts
      BY <1>7 DEF RestartConnector, Call, RecordsInv, cloudflare
    <2>2. CASE dns' = [NoSync EXCEPT !.verdict = "ok"] /\ UNCHANGED dnsFaults
      BY <2>1, <2>2 DEF RecordsInv, SyncState, NoSync
    <2> QED
      BY <1>7, <2>1, <2>2, EndsFailed DEF RestartConnector, Call, RecordsInv
  <1>8. CASE UNCHANGED dnsVars
    BY <1>8 DEF dnsVars, cloudflare, RecordsInv, InDomain
  <1> QED
    BY <1>1, <1>2, <1>3, <1>4, <1>5, <1>6, <1>7, <1>8 DEF PublicationNext

LEMMA RecordsInit == PublicationInit => RecordsInv
  BY PublicationAssumption DEF PublicationInit, RecordsInv, SyncState, NoSync

\* The variables of the publication keep their types.
THEOREM PublicationTypeCorrect == PublicationSpec => []PublicationTypeOK
  <1>1. RecordsInv => PublicationTypeOK
    BY DEF RecordsInv, PublicationTypeOK, SyncState
  <1> QED
    BY <1>1, RecordsInit, RecordsStep, PTL DEF PublicationSpec

\* No synchronisation, complete or cut off anywhere, removes a record that
\* publishes a declared host right, nor one of another domain.
THEOREM PublishedHostsStayUp == PublicationSpec => PublishedStaysUp
  <1> DEFINE Keeps ==
        \A r \in records : (r.name \in Declared /\ r.exact) \/ r.name \in Foreign
          => r \in records'
  <1>1. RecordsInv /\ [PublicationNext]_dnsVars => [Keeps]_dnsVars
    <2> SUFFICES ASSUME RecordsInv, PublicationNext, NEW r \in records,
                        (r.name \in Declared /\ r.exact) \/ r.name \in Foreign
                 PROVE  r \in records'
      OBVIOUS
    <2>1. CASE DeleteRecord
      <3> PICK d \in dns.todo :
            \/ ~ShouldKeep(d) /\ records' = records \ {d}
            \/ UNCHANGED records
        BY <2>1 DEF DeleteRecord, Call, cloudflare
      <3>1. d.name \notin Foreign
        BY <2>1 DEF RecordsInv, InDomain, DeleteRecord
      <3> QED
        BY <3>1 DEF ShouldKeep
    <2>2. CASE CreateRecord
      BY <2>2 DEF CreateRecord, Call, cloudflare
    <2>3. CASE \/ StartSync \/ PutIngress \/ ListRecords \/ PlanCreation
               \/ RestartConnector
      BY <2>3 DEF StartSync, PutIngress, ListRecords, PlanCreation,
         RestartConnector, Call, cloudflare
    <2> QED
      BY <2>1, <2>2, <2>3 DEF PublicationNext
  <1> HIDE DEF Keeps
  <1>2. PublicationSpec => [][Keeps]_dnsVars
    BY <1>1, RecordsInit, RecordsStep, PTL DEF PublicationSpec
  <1> QED
    BY <1>2 DEF PublishedStaysUp, Keeps

-----------------------------------------------------------------------------
(* CrowdSecAgents *)

LEMMA AgentFaultType ==
  ASSUME agentFaults \in 0..MaxAgentFaults, AgentFault \/ UNCHANGED agentFaults
  PROVE  agentFaults' \in 0..MaxAgentFaults
  BY AgentsAssumption DEF AgentFault

LEMMA AgentsStep == AgentsTypeOK /\ [AgentsNext]_agentVars => AgentsTypeOK'
  <1> SUFFICES ASSUME AgentsTypeOK, [AgentsNext]_agentVars PROVE AgentsTypeOK'
    OBVIOUS
  <1> DEFINE HealState == [pc : {"idle", "machines", "prune"}, unready : SUBSET Pods,
                           todo : SUBSET Pods, half : SUBSET Pods]
  <1>1. heal' \in HealState
    <2>1. CASE heal' = Resting
      BY <2>1 DEF Resting
    <2>2. CASE ReadPods
      BY <2>2 DEF ReadPods, Resting
    <2>3. CASE heal' = [heal EXCEPT !.pc = "prune", !.todo = StaleNames]
      <3>1. StaleNames \subseteq Pods
        BY DEF StaleNames, AgentsTypeOK
      <3> QED
        BY <2>3, <3>1 DEF AgentsTypeOK
    <2>4. ASSUME NEW p \in Pods, DeleteRegistration(p)
          PROVE  heal' \in HealState
      BY <2>4 DEF DeleteRegistration, AgentsTypeOK
    <2>5. ASSUME NEW p \in Pods, heal' = [heal EXCEPT !.half = {}, !.todo = @ \ {p}]
          PROVE  heal' \in HealState
      BY <2>5 DEF AgentsTypeOK
    <2>6. CASE UNCHANGED heal
      BY <2>6 DEF AgentsTypeOK
    <2> HIDE DEF HealState
    <2> QED
      BY <2>1, <2>2, <2>3, <2>4, <2>5, <2>6
         DEF AgentsNext, HealStep, Settle, ReadMachines, DeletePod, Join,
             HeartbeatAges, Falter, Steady, agentVars
  <1>2. /\ ready' \in [Pods -> BOOLEAN]
        /\ machine' \in [Pods -> {"none", "fresh", "stale"}]
    <2>1. CASE ReadPods \/ ReadMachines \/ UNCHANGED agentVars
      BY <2>1 DEF ReadPods, ReadMachines, agentVars, agents, AgentsTypeOK
    <2>2. ASSUME NEW p \in Pods,
                 \/ DeleteRegistration(p) \/ DeletePod(p) \/ Join(p)
                 \/ HeartbeatAges(p) \/ Falter(p) \/ Steady(p)
          PROVE  /\ ready' \in [Pods -> BOOLEAN]
                 /\ machine' \in [Pods -> {"none", "fresh", "stale"}]
      BY <2>2 DEF DeleteRegistration, DeletePod, Join, HeartbeatAges, Falter,
         Steady, agents, AgentsTypeOK
    <2> QED
      BY <2>1, <2>2 DEF AgentsNext, HealStep, Settle
  <1>3. AgentFault \/ UNCHANGED agentFaults
    BY DEF AgentsNext, HealStep, Settle, ReadPods, ReadMachines, DeletePod,
       DeleteRegistration, Join, HeartbeatAges, Falter, Steady, agentVars
  <1> QED
    BY <1>1, <1>2, <1>3, AgentFaultType DEF AgentsTypeOK

\* The variables of the agents' recovery keep their types.
THEOREM AgentsTypeCorrect == AgentsSpec => []AgentsTypeOK
  <1>1. AgentsInit => AgentsTypeOK
    BY AgentsAssumption DEF AgentsInit, AgentsTypeOK, Resting
  <1> QED
    BY <1>1, AgentsStep, PTL DEF AgentsSpec
=============================================================================
