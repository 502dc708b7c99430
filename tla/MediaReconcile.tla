--------------------------- MODULE MediaReconcile ---------------------------
(***************************************************************************)
(* `task media:post-install` (reconcile_media_stack of scripts/haac.py):   *)
(* it reads the API keys of the media services once, configures one        *)
(* service after the other, wires them to each other with those keys, and  *)
(* checks the result.  Plan is the order of the calls; each call is one    *)
(* action that takes full effect, or fails after a part of it.  A failed   *)
(* run is run again.                                                       *)
(*                                                                         *)
(* The services are external: what they keep is the set of managed         *)
(* settings they have, their key, and their integrations with one another. *)
(* A service may lose its configuration and come back with another key.    *)
(***************************************************************************)
EXTENDS Naturals, Sequences

CONSTANTS
  Arrs,         \* the ARR applications, in the order they are configured
  Late,         \* those whose key is read only when they are reached
  Managed,      \* those Bazarr, Seerr and Recyclarr work for, in order
  Libraries,    \* the Jellyfin libraries
  MaxMediaFaults

ArrSet == {Arrs[k] : k \in DOMAIN Arrs}
ManagedSet == {Managed[k] : k \in DOMAIN Managed}

ASSUME MediaAssumption ==
  /\ Arrs \in Seq(ArrSet) /\ Arrs # << >> /\ Managed \in Seq(ManagedSet)
  /\ Late \subseteq ArrSet /\ ManagedSet \subseteq ArrSet \ Late
  /\ ArrSet \cap {"qbittorrent", "sabnzbd", "prowlarr", "bazarr", "jellyfin",
                  "seerr"} = {}
  /\ MaxMediaFaults \in Nat

VARIABLES
  key,          \* generation of the credential of each service
  config,       \* managed settings that each service has
  link,         \* per consumer and service: its integration
  secret,       \* keys in the Secret recyclarr-secrets
  exporter,     \* key that each metrics exporter was started with
  downloader,   \* the downloader pod behind the VPN
  token,        \* Jellyfin's API key that Seerr keeps: "none", "good", or
                \* "stale", of a Jellyfin that has lost its volume since
  media,        \* the process
  touched,      \* has anything been lost or changed since the process began
  mediaFaults

stack == <<key, config, link, secret, exporter, downloader, token>>
mediaVars == <<stack, media, touched, mediaFaults>>

Keyed == ArrSet \cup {"sabnzbd", "prowlarr", "bazarr"}
Services == Keyed \cup {"qbittorrent", "jellyfin", "seerr"}

Links ==
  ((ArrSet \cup {"prowlarr"}) \X {"qbittorrent", "sabnzbd"})
    \cup ({"prowlarr"} \X ArrSet) \cup ({"bazarr", "seerr"} \X ManagedSet)

\* Deployments that read their key from the Secret when they start.
Exporters == (ArrSet \ ManagedSet) \cup {"sabnzbd", "bazarr"}
SecretKeys == ArrSet \cup {"sabnzbd", "bazarr"}

Settings(s) ==
  CASE s \in ManagedSet -> {"folder", "common", "profile", "language"}
    [] s \in ArrSet \ ManagedSet -> {"folder", "common"}
    [] s = "qbittorrent" -> {"preferences", "categories"}
    [] s = "sabnzbd" -> {"bootstrap"}
    [] s = "prowlarr" -> {"tag", "proxy", "indexers"}
    [] s = "bazarr" -> {"settings", "auth"}
    [] s = "jellyfin" -> {"admin", "posture"} \cup Libraries
    [] s = "seerr" -> {"server", "url", "libraries", "initialized"}

\* The same call for each application, and several calls for one service.
Each(op, apps) == [n \in DOMAIN apps |-> <<op, apps[n]>>]
Whole(ops, s) == [n \in DOMAIN ops |-> <<ops[n], s>>]

PerArr ==
  LET ops == <<"key", "folder", "torrents", "usenet", "common">> IN
  [n \in 1..(5 * Len(Arrs)) |-> <<ops[((n - 1) % 5) + 1], Arrs[((n - 1) \div 5) + 1]>>]

Opening == Whole(<<"gate", "downloader", "preferences", "categories", "sabnzbd">>, "none")
ProwlarrClients == Whole(<<"torrents", "usenet">>, "prowlarr")
Indexing == Whole(<<"proxy", "indexers", "bazarr">>, "none")
Serving == Whole(<<"secret", "restart", "wizard", "posture", "libraries", "login",
                   "url", "discovery">>, "none")
Finishing == Whole(<<"initialize", "quality">>, "none")
Metrics == Whole(<<"metrics">>, "none")

\* reconcile_media_stack
Plan ==
  Opening \o PerArr \o ProwlarrClients \o Each("application", Arrs)
    \o Indexing \o Serving \o Each("server", Managed) \o Finishing
    \o Each("language", Managed) \o Metrics

Doing(op, s) == media.at > 0 /\ Plan[media.at] = <<op, s>>

held == media.held
NoKeys == [s \in Keyed |-> 0]
Stopped(verdict) ==
  [at |-> 0, held |-> NoKeys, snapshot |-> FALSE, verdict |-> verdict]

GoOn == media' = [media EXCEPT !.at = @ + 1]
Fail == media' = Stopped("failed")

MediaFault ==
  mediaFaults < MaxMediaFaults /\ mediaFaults' = mediaFaults + 1

\* A key-protected service answers only to its present key.
Knows(s) == s \in Keyed => held[s] = key[s]

Refused(s) == ~Knows(s) /\ Fail /\ UNCHANGED <<stack, touched, mediaFaults>>

\* The requests that give s the settings `want`: all of them, or some and then
\* an error.
Configure(s, want) ==
  \/ /\ Knows(s)
     /\ \/ /\ config' = [config EXCEPT ![s] = @ \cup want]
           /\ GoOn /\ UNCHANGED mediaFaults
        \/ /\ \E part \in SUBSET want : config' = [config EXCEPT ![s] = @ \cup part]
           /\ Fail /\ MediaFault
     /\ UNCHANGED <<key, link, secret, exporter, downloader, token, touched>>
  \/ Refused(s)

-----------------------------------------------------------------------------
(* Integrations of one service with another *)

Unlinked == [own |-> 0, manual |-> FALSE, key |-> 0]

\* find_service_integration: the one with the managed name, or else the first
\* of the same implementation, which somebody else may have made.
FoundByName(e) == e.own > 0     \* mutant: only the managed name is looked for
Found(e) == e.own > 0 \/ e.manual

\* The one that was found is overwritten and renamed, otherwise one is added.
Saved(e, k) ==
  IF Found(e)
  THEN [own |-> 1, manual |-> e.manual /\ e.own > 0, key |-> k]
  ELSE [e EXCEPT !.own = IF @ < 2 THEN @ + 1 ELSE @, !.key = k]

\* One POST or PUT, whose reply may be lost.
Wire(c, s, k) ==
  /\ link' = [link EXCEPT ![<<c, s>>] = Saved(@, k)]
  /\ (GoOn /\ UNCHANGED mediaFaults) \/ (Fail /\ MediaFault)
  /\ UNCHANGED <<key, config, secret, exporter, downloader, token, touched>>

QbittorrentClient(c) ==
  /\ Doing("torrents", c)
  /\ (Knows(c) /\ Wire(c, "qbittorrent", 1)) \/ Refused(c)

\* The consumer tests the client before it is saved.
SabnzbdClient(c) ==
  /\ Doing("usenet", c)
  /\ \/ Knows(c) /\ Knows("sabnzbd") /\ Wire(c, "sabnzbd", held["sabnzbd"])
     \/ Refused(c) \/ Refused("sabnzbd")

\* Prowlarr may or may not notice a key that the application does not accept.
ProwlarrApplication(a) ==
  /\ Doing("application", a)
  /\ \/ Knows("prowlarr") /\ Wire("prowlarr", a, held[a])
     \/ Refused("prowlarr") \/ Refused(a)

-----------------------------------------------------------------------------
(* The downloaders and the ARR applications *)

StartMedia ==
  /\ media.at = 0
  /\ media' = [Stopped("running") EXCEPT !.at = 1]
  /\ touched' = FALSE
  /\ UNCHANGED <<stack, mediaFaults>>

\* The rollouts are waited for, then the keys of all but Late are read.
ReadKeys ==
  /\ Doing("gate", "none")
  /\ media' = [media EXCEPT !.at = @ + 1,
                 !.held = [s \in Keyed |->
                             IF s \in Late \cup {"bazarr"} THEN 0 ELSE key[s]]]
  /\ UNCHANGED <<stack, touched, mediaFaults>>

\* detect_vpn_blocker: the logs may or may not tell why the pod is not ready.
VpnBlocker == downloader = "blocked"

DownloaderGate ==
  /\ Doing("downloader", "none")
  /\ \/ downloader = "ready" /\ GoOn
     \/ VpnBlocker /\ media' = Stopped("vpn")
     \/ downloader # "ready" /\ Fail
  /\ UNCHANGED <<stack, touched, mediaFaults>>

QbittorrentPreferences ==
  Doing("preferences", "none") /\ Configure("qbittorrent", {"preferences"})

QbittorrentCategories ==
  Doing("categories", "none") /\ Configure("qbittorrent", {"categories"})

SabnzbdBootstrap ==
  Doing("sabnzbd", "none") /\ Configure("sabnzbd", {"bootstrap"})

ReadLateKey(a) ==
  /\ Doing("key", a)
  /\ media' = [media EXCEPT !.at = @ + 1,
                            !.held[a] = IF a \in Late THEN key[a] ELSE @]
  /\ UNCHANGED <<stack, touched, mediaFaults>>

RootFolder(a) == Doing("folder", a) /\ Configure(a, {"folder"})
CommonSettings(a) == Doing("common", a) /\ Configure(a, {"common"})

FlaresolverrProxy == Doing("proxy", "none") /\ Configure("prowlarr", {"tag", "proxy"})
Indexers == Doing("indexers", "none") /\ Configure("prowlarr", {"tag", "indexers"})

\* The key of Bazarr is read just before its settings are sent.
BazarrBootstrap ==
  /\ Doing("bazarr", "none")
  /\ config' = [config EXCEPT !["bazarr"] = {"settings", "auth"}]
  /\ link' = [l \in Links |-> IF l[1] = "bazarr"
                             THEN [Unlinked EXCEPT !.own = 1, !.key = held[l[2]]]
                             ELSE link[l]]
  /\ \/ /\ media' = [media EXCEPT !.at = @ + 1, !.held["bazarr"] = key["bazarr"]]
        /\ UNCHANGED mediaFaults
     \/ Fail /\ MediaFault
  /\ UNCHANGED <<key, secret, exporter, downloader, token, touched>>

-----------------------------------------------------------------------------
(* The Secret, the exporters and Recyclarr *)

OnlyKeys(known) == [x \in SecretKeys |-> IF x \in known THEN held[x] ELSE 0]     \* mutant: the Secret is replaced

\* kubectl apply of stringData: keys that are left out keep their value.
WithKeys(known) ==
  [x \in SecretKeys |-> IF x \in known THEN held[x] ELSE secret[x]]

RuntimeSecret ==
  /\ Doing("secret", "none")
  /\ secret' = WithKeys(SecretKeys)
  /\ (GoOn /\ UNCHANGED mediaFaults) \/ (Fail /\ MediaFault)
  /\ UNCHANGED <<key, config, link, exporter, downloader, token, touched>>

\* A restart that fails is not noticed.
RestartExporters ==
  /\ Doing("restart", "none")
  /\ \E done \in SUBSET Exporters :
       /\ exporter' = [x \in Exporters |-> IF x \in done THEN secret[x] ELSE exporter[x]]
       /\ \/ done = Exporters /\ GoOn /\ UNCHANGED mediaFaults
          \/ done # Exporters /\ MediaFault /\ (GoOn \/ Fail)
  /\ UNCHANGED <<key, config, link, secret, downloader, token, touched>>

\* Recyclarr sets the scores of everything it does not manage to zero.
Synced(s) == (config[s] \cup {"profile"}) \ {"language"}

Recyclarr(done) ==
  config' = [s \in Services |-> IF s \in done THEN Synced(s) ELSE config[s]]

\* The Secret again, without the late keys, and a job made from the CronJob.
QualityPolicy ==
  /\ Doing("quality", "none")
  /\ secret' = WithKeys(SecretKeys \ Late)
  /\ \/ /\ \A a \in ManagedSet : held[a] = key[a]
        /\ \/ Recyclarr(ManagedSet) /\ GoOn /\ UNCHANGED mediaFaults
           \/ \E done \in SUBSET ManagedSet :
                Recyclarr(done) /\ Fail /\ MediaFault
     \/ /\ \E a \in ManagedSet : held[a] # key[a]
        /\ Fail /\ UNCHANGED <<config, mediaFaults>>
  /\ UNCHANGED <<key, link, exporter, downloader, token, touched>>

\* verify_recyclarr_sync_surface, then the language preferences.
LanguagePreferences(a) ==
  /\ Doing("language", a)
  /\ IF "profile" \in config[a] \/ ~Knows(a)
     THEN Configure(a, {"language"})
     ELSE Fail /\ UNCHANGED <<stack, touched, mediaFaults>>

\* verify_media_metrics_surface, which does not look at the late applications.
MetricsGate ==
  /\ Doing("metrics", "none")
  /\ IF \A x \in Exporters \ Late : exporter[x] = key[x]
     THEN media' = [media EXCEPT !.at = 0, !.verdict = "ok"]
     ELSE Fail
  /\ UNCHANGED <<stack, touched, mediaFaults>>

-----------------------------------------------------------------------------
(* Jellyfin and Seerr *)

\* Only an unfinished startup wizard is gone through.
JellyfinWizard ==
  /\ Doing("wizard", "none")
  /\ IF "admin" \in config["jellyfin"]
     THEN GoOn /\ UNCHANGED <<stack, touched, mediaFaults>>
     ELSE Configure("jellyfin", {"admin", "posture"})

JellyfinPosture == Doing("posture", "none") /\ Configure("jellyfin", {"posture"})
JellyfinLibraries == Doing("libraries", "none") /\ Configure("jellyfin", Libraries)

AlwaysSends == TRUE     \* mutant: the connection is always sent

\* The connection of Jellyfin is sent unless Seerr says it has one; Seerr
\* refuses it if it has.
SendsServer == "server" \notin config["seerr"]

\* A Seerr that is given the server makes itself a key there and keeps it.
SeerrLogin ==
  /\ Doing("login", "none")
  /\ IF \/ SendsServer /\ "server" \in config["seerr"]
        \/ "admin" \notin config["jellyfin"]
     THEN Fail /\ UNCHANGED <<config, token, mediaFaults>>
     ELSE /\ config' = [config EXCEPT !["seerr"] = @ \cup {"server"}]
          /\ token' = IF SendsServer THEN "good" ELSE token
          /\ \/ UNCHANGED mediaFaults
                /\ media' = [media EXCEPT !.at = @ + 1,
                               !.snapshot = "initialized" \in config["seerr"]]
             \/ Fail /\ MediaFault
  /\ UNCHANGED <<key, link, secret, exporter, downloader, touched>>

SeerrUrl == Doing("url", "none") /\ Configure("seerr", {"url"})

\* The key is read from Seerr, which must have one, and the same key is saved
\* again.  With it Seerr lists what Jellyfin exposes, everything is enabled, and
\* there must be something.  A key Jellyfin no longer accepts lists nothing new:
\* Seerr refuses it, or goes on with the libraries it had.
SeerrDiscovery ==
  /\ Doing("discovery", "none")
  /\ LET lists == token = "good" /\ config["jellyfin"] \cap Libraries # {} IN
     \/ lists /\ Configure("seerr", {"libraries"})
     \/ /\ token = "stale" /\ "libraries" \in config["seerr"]
        /\ GoOn /\ UNCHANGED <<stack, touched, mediaFaults>>
     \/ ~lists /\ Fail /\ UNCHANGED <<stack, touched, mediaFaults>>

\* A server that Seerr already has is left as it is.
SeerrServer(a) ==
  /\ Doing("server", a)
  /\ IF Found(link[<<"seerr", a>>])
     THEN GoOn /\ UNCHANGED <<stack, touched, mediaFaults>>
     ELSE (Knows(a) /\ Wire("seerr", a, held[a])) \/ Refused(a)

SeerrInitialize ==
  /\ Doing("initialize", "none")
  /\ IF media.snapshot
     THEN (IF "initialized" \in config["seerr"] THEN GoOn ELSE Fail)
            /\ UNCHANGED <<stack, touched, mediaFaults>>
     ELSE Configure("seerr", {"initialized"})

-----------------------------------------------------------------------------
(* Failures and the services *)

MediaKilled ==
  /\ media.at > 0 /\ MediaFault
  /\ Fail
  /\ UNCHANGED <<stack, touched>>

\* The key Seerr keeps of Jellyfin goes with the volume of either.
TokenAfterReset(s) ==
  CASE s = "seerr" -> "none"
    [] s = "jellyfin" /\ token = "good" -> "stale"
    [] OTHER -> token

\* The service loses its volume.
ServiceReset(s) ==
  /\ MediaFault
  /\ config' = [config EXCEPT ![s] = {}]
  /\ link' = [l \in Links |-> IF l[1] = s THEN Unlinked ELSE link[l]]
  /\ key' = [x \in Keyed |-> IF x = s THEN key[x] + 1 ELSE key[x]]
  /\ token' = TokenAfterReset(s)
  /\ touched' = TRUE
  /\ UNCHANGED <<secret, exporter, downloader, media>>

\* The weekly run of the CronJob, with the keys of the Secret.
CronSync ==
  /\ MediaFault
  /\ \A a \in ManagedSet : secret[a] = key[a]
  /\ Recyclarr(ManagedSet)
  /\ touched' = TRUE
  /\ UNCHANGED <<key, link, secret, exporter, downloader, token, media>>

\* The port-sync container, once the VPN lets it.
DownloaderReady ==
  /\ downloader # "ready"
  /\ downloader' = "ready"
  /\ UNCHANGED <<key, config, link, secret, exporter, token, media, touched,
                 mediaFaults>>

\* A fresh stack, or one that somebody has set up by hand.
MediaInit ==
  /\ key = [s \in Keyed |-> 1]
  /\ config \in {[s \in Services |-> {}],
                 [s \in Services |-> IF s = "seerr" THEN {"server", "initialized"}
                                     ELSE IF s = "jellyfin" THEN {"admin"} ELSE {}]}
  /\ token = IF "server" \in config["seerr"] THEN "good" ELSE "none"
  /\ \E manual \in SUBSET {"prowlarr", Arrs[1]} :
       link = [l \in Links |-> [Unlinked EXCEPT !.manual = l[1] \in manual]]
  /\ secret = [x \in SecretKeys |-> 0] /\ exporter = [x \in Exporters |-> 0]
  /\ downloader \in {"starting", "blocked"}
  /\ media = Stopped("new") /\ touched = FALSE /\ mediaFaults = 0

MediaStep ==
  \/ StartMedia \/ ReadKeys \/ DownloaderGate
  \/ QbittorrentPreferences \/ QbittorrentCategories \/ SabnzbdBootstrap
  \/ \E a \in ArrSet : ReadLateKey(a) \/ RootFolder(a) \/ CommonSettings(a)
                       \/ ProwlarrApplication(a)
  \/ \E c \in ArrSet \cup {"prowlarr"} : QbittorrentClient(c) \/ SabnzbdClient(c)
  \/ FlaresolverrProxy \/ Indexers \/ BazarrBootstrap \/ RuntimeSecret
  \/ RestartExporters \/ QualityPolicy \/ JellyfinWizard \/ JellyfinPosture
  \/ JellyfinLibraries \/ SeerrLogin \/ SeerrUrl \/ SeerrDiscovery
  \/ \E a \in ManagedSet : SeerrServer(a) \/ LanguagePreferences(a)
  \/ SeerrInitialize \/ MetricsGate

MediaNext ==
  \/ MediaStep \/ MediaKilled \/ CronSync \/ DownloaderReady
  \/ \E s \in Services : ServiceReset(s)

MediaSpec == MediaInit /\ [][MediaNext]_mediaVars

\* The task is run again, and the VPN comes up.
MediaFairness == WF_mediaVars(MediaStep) /\ WF_mediaVars(DownloaderReady)

-----------------------------------------------------------------------------
(* Properties *)

MediaTypeOK ==
  /\ key \in [Keyed -> 1..(MaxMediaFaults + 1)]
  /\ \A s \in Services : config[s] \subseteq Settings(s)
  /\ link \in [Links -> [own : 0..2, manual : BOOLEAN, key : 0..(MaxMediaFaults + 1)]]
  /\ secret \in [SecretKeys -> 0..(MaxMediaFaults + 1)]
  /\ exporter \in [Exporters -> 0..(MaxMediaFaults + 1)]
  /\ downloader \in {"starting", "blocked", "ready"}
  /\ token \in {"none", "good", "stale"}
  /\ media.at \in 0..Len(Plan) /\ media.snapshot \in BOOLEAN
  /\ media.held \in [Keyed -> 0..(MaxMediaFaults + 1)]
  /\ media.verdict \in {"new", "running", "ok", "vpn", "failed"}
  /\ touched \in BOOLEAN /\ mediaFaults \in 0..MaxMediaFaults

\* Every setting is there, and every consumer but Seerr has the present key of
\* the service it talks to.
Wired ==
  /\ \A s \in Services : config[s] = Settings(s)
  /\ \A l \in Links : l[1] # "seerr" /\ l[2] \in Keyed => link[l].key = key[l[2]]
  /\ \A l \in Links : link[l].own > 0
  /\ \A x \in SecretKeys : secret[x] = key[x]
  /\ \A x \in Exporters \ Late : exporter[x] = key[x]

\* A run that ends well, during which no service lost anything, leaves the
\* whole stack wired with the present keys, whatever the runs before it did,
\* and although Recyclarr undoes a setting and the Secret is written twice.
\* (The keys Seerr keeps, which no run renews, are not a part of Wired.)
SettledMeansWired == media.verdict = "ok" /\ ~touched => Wired

\* Integrations of one sort in a consumer: managed ones and a hand-made one.
Integrations(e) == e.own + IF e.manual THEN 1 ELSE 0

\* However many replies were lost and runs repeated, no integration is made
\* twice, and one that somebody made by hand is taken over, never kept beside
\* the managed one.
NoDoubleIntegration == \A l \in Links : Integrations(link[l]) <= 1

\* Whatever was lost, the task run again and again ends with the stack wired;
\* unless Jellyfin lost its volume behind a Seerr that had its key: that key is
\* saved again and again (8347), and no rerun makes another one.
MediaSettles ==
  media.at > 0 ~> (media.verdict = "ok" /\ Wired) \/ token = "stale"
=============================================================================
