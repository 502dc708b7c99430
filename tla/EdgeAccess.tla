----------------------------- MODULE EdgeAccess -----------------------------
(***************************************************************************)
(* `verify-web` (verify_web) of scripts/haac.py: it probes every public    *)
(* URL in rounds until each has answered as its access policy demands, and *)
(* when every failure is a 403 it assumes that CrowdSec has banned the     *)
(* operator, lifts the bans that look like false positives, restarts       *)
(* Traefik, which caches what the bouncer denies, and verifies once more.  *)
(* CrowdSec may ban the operator at any moment, also because of the        *)
(* probes; decisions do not expire within a run.  The command              *)
(* `clear-crowdsec-operator-ban` lifts the same bans and does no more.     *)
(***************************************************************************)
EXTENDS Naturals, FiniteSets

CONSTANTS
  Endpoints,      \* the enabled ingresses of values.yaml
  Auth,           \* auth_strategy of each
  Rounds,         \* retries of verify_web
  MaxEdgeFaults   \* bans, outages, failing commands and clear commands

ASSUME EdgeAssumption ==
  /\ Auth \in [Endpoints -> {"public", "edge_forward_auth", "native_oidc",
                             "app_native"}]
  /\ Rounds \in Nat \ {0} /\ MaxEdgeFaults \in Nat

VARIABLES
  route,     \* "ready", "down", or "bare": the service without its policy
  bans,      \* decisions of CrowdSec: the address, and whether the alert is on
             \* the operator's false-positive surface
  denied,    \* addresses the bouncer in Traefik denies
  web,       \* the process
  edgeFaults

edge == <<route, bans, denied>>
edgeVars == <<edge, web, edgeFaults>>

Addresses == {"operator", "stranger"}
Ban == [ip : Addresses, surface : BOOLEAN]

EdgeFault == edgeFaults < MaxEdgeFaults /\ edgeFaults' = edgeFaults + 1

-----------------------------------------------------------------------------
(* Probes *)

\* What an endpoint that works answers, by its access policy.
ReadyAnswer(e) ==
  CASE Auth[e] = "public"            -> "page"
    [] Auth[e] = "edge_forward_auth" -> "to-auth"
    [] Auth[e] = "native_oidc"       -> "to-login"
    [] Auth[e] = "app_native"        -> "own-login"

\* probe_web_response, which follows no redirect.
Response(e) ==
  CASE "operator" \in denied -> "403"
    [] route[e] = "down"     -> "none"
    [] route[e] = "bare"     -> "page"
    [] OTHER                 -> ReadyAnswer(e)

\* endpoint_verification_success
Verified(e, response) ==
  response \in CASE Auth[e] = "public"            -> {"page"}
                 [] Auth[e] = "edge_forward_auth" -> {"401", "to-auth"}
                 [] Auth[e] = "native_oidc"       -> {"to-login"}
                 [] Auth[e] = "app_native"        -> {"page", "401", "own-login"}

Done == [pc |-> "idle", round |-> 0, todo |-> {}, passed |-> {}, refused |-> {},
         recover |-> FALSE, cleared |-> FALSE, lift |-> {}, verdict |-> "new"]

VerifyAgain(recover) ==     \* mutant: every verification may recover
  [Done EXCEPT !.pc = "probe", !.round = 1, !.todo = Endpoints,
               !.recover = TRUE, !.verdict = ""]

Verify(recover) ==
  [Done EXCEPT !.pc = "probe", !.round = 1, !.todo = Endpoints,
               !.recover = recover, !.verdict = ""]

Verdict(v) == web' = [Done EXCEPT !.verdict = v]

StartVerify ==
  /\ web.pc = "idle"
  /\ web' = Verify(TRUE)
  /\ UNCHANGED <<edge, edgeFaults>>

\* cmd_clear_crowdsec_operator_ban, which verifies nothing
StartClear ==
  /\ web.pc = "idle" /\ EdgeFault
  /\ web' = [Done EXCEPT !.pc = "clear", !.verdict = ""]
  /\ UNCHANGED edge

\* One success is enough for the whole verification.
ProbeEndpoint ==
  /\ web.pc = "probe"
  /\ \E e \in web.todo :
       LET r == Response(e) IN
       web' = [web EXCEPT !.todo = @ \ {e},
                 !.passed = IF Verified(e, r) THEN @ \cup {e} ELSE @,
                 !.refused = IF r = "403" THEN @ \cup {e} ELSE @ \ {e}]
  /\ UNCHANGED <<edge, edgeFaults>>

EndRound ==
  /\ web.pc = "probe" /\ web.todo = {}
  /\ IF web.passed # Endpoints /\ web.round < Rounds
     THEN web' = [web EXCEPT !.round = @ + 1, !.todo = Endpoints \ web.passed]
     ELSE web' = [web EXCEPT !.pc = "judge"]
  /\ UNCHANGED <<edge, edgeFaults>>

AllRefused == \A e \in Endpoints \ web.passed : e \in web.refused

\* The recovery runs only in the first verification, and only if the last
\* answer of every failed URL was a 403.
Judge ==
  /\ web.pc = "judge"
  /\ CASE web.passed = Endpoints    -> Verdict("full-success")
       [] web.passed # Endpoints /\ web.recover /\ AllRefused
                                    -> web' = [web EXCEPT !.pc = "clear"]
       [] OTHER                     -> Verdict("failed")
  /\ UNCHANGED <<edge, edgeFaults>>

-----------------------------------------------------------------------------
(* Recovery *)

\* crowdsec_operator_probe_ban_decision_ids
EveryBan(ip) == {b \in bans : b.ip = ip}     \* mutant: the alert is not looked at
FalsePositives(ip) == {b \in bans : b.ip = ip /\ b.surface}

\* crowdsec_operator_probe_ban_ips
Candidates == {b.ip : b \in {d \in bans : d.surface}}

\* verify_web restarts Traefik whether a ban was lifted or not.
AfterClear == IF web.recover THEN web' = [web EXCEPT !.pc = "flush"]
                             ELSE Verdict("cleared")

Lift(found) == web' = [web EXCEPT !.pc = "lift", !.lift = found, !.cleared = TRUE]

\* clear_operator_crowdsec_probe_ban with the address that detect_public_ip found
ClearDetected ==
  /\ web.pc = "clear"
  /\ FalsePositives("operator") # {}
  /\ Lift(FalsePositives("operator"))
  /\ UNCHANGED <<edge, edgeFaults>>

\* The address could not be detected, or has no such ban: the fallback acts if
\* the false positives are all about one address.  Nothing to clear, no LAPI
\* pod and unreadable decisions are the same to it; without a session the
\* process fails.
ClearCandidate ==
  /\ web.pc = "clear"
  /\ \/ /\ Cardinality(Candidates) = 1
        /\ \E ip \in Candidates : Lift(FalsePositives(ip))
        /\ UNCHANGED edgeFaults
     \/ /\ Cardinality(Candidates) # 1
        /\ AfterClear
        /\ UNCHANGED edgeFaults
     \/ /\ EdgeFault
        /\ AfterClear \/ Verdict("failed")
  /\ UNCHANGED edge

\* `cscli decisions delete --id`; that it fails goes unnoticed.
LiftBan ==
  /\ web.pc = "lift"
  /\ \/ /\ web.lift = {}
        /\ AfterClear
        /\ UNCHANGED <<bans, edgeFaults>>
     \/ \E b \in web.lift :
          /\ web' = [web EXCEPT !.lift = @ \ {b}]
          /\ \/ bans' = bans \ {b} /\ UNCHANGED edgeFaults
             \/ EdgeFault /\ UNCHANGED bans
  /\ UNCHANGED <<route, denied>>

StillCached == denied     \* mutant: the bouncer is not restarted
Reloaded == {b.ip : b \in bans}

\* restart_traefik_for_crowdsec_recovery: the bouncer starts with the decisions
\* there are.  One of the two repairs is enough for the retry.
RestartTraefik ==
  /\ web.pc = "flush"
  /\ \/ denied' = Reloaded /\ web' = Verify(FALSE) /\ UNCHANGED edgeFaults
     \/ /\ EdgeFault
        /\ IF web.cleared THEN web' = Verify(FALSE) ELSE Verdict("failed")
        /\ UNCHANGED denied
  /\ UNCHANGED <<route, bans>>

-----------------------------------------------------------------------------
(* The edge *)

BanOperator ==
  /\ EdgeFault
  /\ bans' = bans \cup {[ip |-> "operator", surface |-> TRUE]}
  /\ denied' = denied \cup {"operator"}
  /\ UNCHANGED <<route, web>>

RouteFails(e) ==
  /\ route[e] = "ready" /\ EdgeFault
  /\ route' = [route EXCEPT ![e] = "down"]
  /\ UNCHANGED <<bans, denied, web>>

RouteRecovers(e) ==
  /\ route[e] # "ready"
  /\ route' = [route EXCEPT ![e] = "ready"]
  /\ UNCHANGED <<bans, denied, web, edgeFaults>>

EdgeInit ==
  /\ route \in [Endpoints -> {"ready", "bare", "down"}]
  /\ bans \in SUBSET Ban
  /\ denied = {b.ip : b \in bans}
  /\ web = Done
  /\ edgeFaults = 0

EdgeStep ==
  \/ StartVerify \/ ProbeEndpoint \/ EndRound \/ Judge
  \/ ClearDetected \/ ClearCandidate \/ LiftBan \/ RestartTraefik

EdgeNext ==
  \/ EdgeStep \/ BanOperator \/ StartClear
  \/ \E e \in Endpoints : RouteFails(e) \/ RouteRecovers(e)

EdgeSpec == EdgeInit /\ [][EdgeNext]_edgeVars

\* The command is run again until it succeeds; the public address is not
\* undetectable for ever; services come up.
RoutesRecover == \E e \in Endpoints : RouteRecovers(e)
EdgeFairness ==
  /\ WF_edgeVars(EdgeStep) /\ SF_edgeVars(ClearDetected)
  /\ WF_edgeVars(RoutesRecover)

-----------------------------------------------------------------------------
(* Properties *)

EdgeTypeOK ==
  /\ route \in [Endpoints -> {"ready", "bare", "down"}]
  /\ bans \subseteq Ban /\ denied \subseteq Addresses
  /\ web.pc \in {"idle", "probe", "judge", "clear", "lift", "flush"}
  /\ web.round \in 0..Rounds
  /\ web.todo \subseteq Endpoints /\ web.passed \subseteq Endpoints
  /\ web.refused \subseteq Endpoints /\ web.lift \subseteq Ban
  /\ web.recover \in BOOLEAN /\ web.cleared \in BOOLEAN
  /\ web.verdict \in {"new", "", "full-success", "failed", "cleared"}
  /\ edgeFaults \in 0..MaxEdgeFaults

\* The recovery never lifts a ban for anything but the traffic an operator's
\* own browser produces, also when the address is only guessed.
GenuineBansStay ==
  [][\A b \in bans : ~b.surface => b \in bans']_edgeVars

\* A verification ends although CrowdSec goes on banning the operator for the
\* probes it makes: the recovery is not repeated.
VerificationEnds == (web.pc # "idle") ~> (web.pc = "idle")

\* With no genuine ban of the operator, running the command again ends with
\* every URL verified, whatever the bouncer had cached and however the repair
\* failed before.
FalsePositivesHeal ==
  (web.pc = "probe" /\ [ip |-> "operator", surface |-> FALSE] \notin bans)
    ~> web.verdict = "full-success"
=============================================================================
