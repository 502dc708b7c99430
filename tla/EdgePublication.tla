-------------------------- MODULE EdgePublication ---------------------------
(***************************************************************************)
(* `sync-cloudflare` (sync_cloudflare) and `restart-cloudflared` of        *)
(* scripts/haac.py: the ingress of the Cloudflare tunnel and the DNS       *)
(* records of the zone are made to publish exactly the declared hosts.     *)
(* The whole ingress is written at once; the records are listed once and   *)
(* then deleted and created one by one, so a failure may come between any  *)
(* two of them, or after a request took effect.                            *)
(***************************************************************************)
EXTENDS Naturals, FiniteSets

CONSTANTS
  Hosts,        \* names under the managed domain, and others of the zone
  Declared,     \* hosts of the enabled endpoints
  Foreign,      \* hosts outside the managed domain
  PageSize,     \* records in the reply of the list request
  MaxDnsFaults

ASSUME PublicationAssumption ==
  /\ Declared \subseteq Hosts /\ Foreign \subseteq Hosts \ Declared
  /\ PageSize \in Nat /\ MaxDnsFaults \in Nat

VARIABLES
  ingress,     \* hosts the tunnel routes
  served,      \* hosts the connector routes since it was last started
  records,     \* records of the zone: name, and is it the tunnel's CNAME
  dns,         \* the process
  dnsFaults

cloudflare == <<ingress, served, records>>
dnsVars == <<cloudflare, dns, dnsFaults>>

Record == [name : Hosts, exact : BOOLEAN]
NoSync == [pc |-> "idle", listed |-> {}, todo |-> {}, verdict |-> "new"]

DnsFault == dnsFaults < MaxDnsFaults /\ dnsFaults' = dnsFaults + 1

\* cloudflare_request: a reply that does not arrive, or says no success, ends
\* the process; the request may have had its effect.
Call(Effect, Reply) ==
  \/ Effect /\ Reply /\ UNCHANGED dnsFaults
  \/ (Effect \/ UNCHANGED cloudflare)
     /\ DnsFault /\ dns' = [NoSync EXCEPT !.verdict = "failed"]

StartSync ==
  /\ dns.pc = "idle"
  /\ dns' = [NoSync EXCEPT !.pc = "ingress", !.verdict = ""]
  /\ UNCHANGED <<cloudflare, dnsFaults>>

\* GET and PUT of the configuration: the routes of other domains stay.
PutIngress ==
  /\ dns.pc = "ingress"
  /\ Call(/\ ingress' = (ingress \cap Foreign) \cup Declared
          /\ UNCHANGED <<served, records>>,
          dns' = [dns EXCEPT !.pc = "list"])

\* One page of the zone's records, in the order of the service.
Pages == {p \in SUBSET records :
            \/ p = records /\ Cardinality(p) <= PageSize
            \/ Cardinality(p) = PageSize /\ Cardinality(records) > PageSize}

AnyName(r) == TRUE     \* mutant: the domain is not compared
InDomain(r) == r.name \notin Foreign

ListRecords ==
  /\ dns.pc = "list"
  /\ \E page \in Pages :
       Call(UNCHANGED cloudflare,
            dns' = [dns EXCEPT !.pc = "delete",
                      !.listed = {r \in page : InDomain(r)},
                      !.todo = {r \in page : InDomain(r)}])

KeepsName(r) == r.name \in Declared     \* mutant: the content is not compared
ShouldKeep(r) == r.name \in Declared /\ r.exact

DeleteRecord ==
  /\ dns.pc = "delete"
  /\ \E r \in dns.todo :
       IF ShouldKeep(r)
       THEN dns' = [dns EXCEPT !.todo = @ \ {r}] /\ UNCHANGED <<cloudflare, dnsFaults>>
       ELSE Call(/\ records' = records \ {r}
                 /\ UNCHANGED <<ingress, served>>,
                 dns' = [dns EXCEPT !.todo = @ \ {r}])

\* existing_names comes from the same list, not from what is there now.
ExistingNames == {r.name : r \in {x \in dns.listed : x.exact}}

PlanCreation ==
  /\ dns.pc = "delete" /\ dns.todo = {}
  /\ dns' = [dns EXCEPT !.pc = "create",
               !.todo = [name : Declared \ ExistingNames, exact : {TRUE}]]
  /\ UNCHANGED <<cloudflare, dnsFaults>>

\* Cloudflare refuses a CNAME whose name has a record already.
CreateRecord ==
  /\ dns.pc = "create"
  /\ \E r \in dns.todo :
       IF \E other \in records : other.name = r.name
       THEN dns' = [NoSync EXCEPT !.verdict = "failed"]
            /\ UNCHANGED <<cloudflare, dnsFaults>>
       ELSE Call(records' = records \cup {r} /\ UNCHANGED <<ingress, served>>,
                 dns' = [dns EXCEPT !.todo = @ \ {r}])

\* restart_cloudflared_rollout: the connector reads the ingress when it starts.
RestartConnector ==
  /\ dns.pc = "create" /\ dns.todo = {}
  /\ Call(served' = ingress /\ UNCHANGED <<ingress, records>>,
          dns' = [NoSync EXCEPT !.verdict = "ok"])

PublicationInit ==
  /\ ingress \in {Foreign, Foreign \cup (Hosts \ Declared), Hosts}
  /\ served = ingress
  /\ records \in SUBSET Record
  /\ \A r \in records : r.name \in Foreign => ~r.exact
  /\ \A r, s \in records : r.name = s.name => r = s
  /\ dns = NoSync
  /\ dnsFaults = 0

PublicationNext ==
  \/ StartSync \/ PutIngress \/ ListRecords \/ DeleteRecord \/ PlanCreation
  \/ CreateRecord \/ RestartConnector

PublicationSpec == PublicationInit /\ [][PublicationNext]_dnsVars
PublicationFairness == WF_dnsVars(PublicationNext)

-----------------------------------------------------------------------------
(* Properties *)

PublicationTypeOK ==
  /\ ingress \subseteq Hosts /\ served \subseteq Hosts
  /\ records \subseteq Record
  /\ dns.pc \in {"idle", "ingress", "list", "delete", "create"}
  /\ dns.listed \subseteq Record /\ dns.todo \subseteq Record
  /\ dns.verdict \in {"new", "", "ok", "failed"}
  /\ dnsFaults \in 0..MaxDnsFaults

\* A synchronisation never takes down a declared host that was published
\* right, at no moment between its requests, nor a record of another domain.
PublishedStaysUp ==
  [][\A r \in records : (r.name \in Declared /\ r.exact) \/ r.name \in Foreign
       => r \in records']_dnsVars

\* A successful run publishes exactly the declared hosts in DNS and ingress,
\* and a run after a failed one gets there.
PublicationConverges ==
  (dns.pc = "ingress") ~>
    (/\ dns.verdict = "ok"
     /\ {r \in records : InDomain(r)} = [name : Declared, exact : {TRUE}]
     /\ served = ingress /\ ingress \ Foreign = Declared)
=============================================================================
