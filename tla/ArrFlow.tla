------------------------------ MODULE ArrFlow ------------------------------
(***************************************************************************)
(* `task verify:arr-flow` (verify_arr_flow of scripts/haac.py): it removes *)
(* the unfinished downloads of earlier runs, chooses a film of the curated *)
(* list, requests it in Seerr, has Radarr grab a release of it, and waits  *)
(* for the file on the NAS and for the film in Jellyfin.  Where it stops   *)
(* it names the blocker.  The services go on between its steps, and the    *)
(* command is run again after a failure.                                   *)
(***************************************************************************)
EXTENDS Naturals

CONSTANTS
  Films,          \* ARR_VERIFIER_CANDIDATES
  Releases,       \* releases that the indexers know
  FilmOf,         \* the film of each release
  MaxArrFaults

ASSUME ArrAssumption ==
  FilmOf \in [Releases -> Films] /\ MaxArrFaults \in Nat

VARIABLES
  seeded,      \* releases with seeders
  requested,   \* films with a request, or other media info, in Seerr
  movies,      \* films in Radarr
  grabbed,     \* releases with a grab on the first page of Radarr's history
  torrent,     \* per release: what qBittorrent has of it
  imported,    \* films that Radarr has a file of
  onNas,       \* films whose file is on the NAS
  visible,     \* films that Jellyfin shows
  arr,         \* the process
  arrFaults

services == <<seeded, requested, movies, grabbed, torrent, imported, onNas, visible>>
arrVars == <<services, arr, arrFaults>>

NoRelease == "none"
NoTorrents == [r \in Releases |-> "none"]
OfFilm(f) == {r \in Releases : FilmOf[r] = f}

ArrFault == arrFaults < MaxArrFaults /\ arrFaults' = arrFaults + 1

ArrEnded(blocker) ==
  [pc |-> "idle", film |-> NoRelease, best |-> NoRelease, ask |-> FALSE,
   release |-> NoRelease, current |-> NoTorrents, seen |-> "none",
   blocker |-> blocker]

ArrAt(pc) == arr.pc = pc
ArrGoes(pc) == arr' = [arr EXCEPT !.pc = pc]
Blocked(blocker) == arr' = ArrEnded(blocker)

-----------------------------------------------------------------------------
(* Selection and request *)

StartArr ==
  /\ ArrAt("idle")
  /\ arr' = [ArrEnded("") EXCEPT !.pc = "cleanup"]
  /\ UNCHANGED <<services, arrFaults>>

\* qbittorrent_cleanup_arr_verifier_artifacts: the torrents of the list's titles
\* in Radarr's category, with their progress, ...
ReadDownloads ==
  /\ ArrAt("cleanup")
  /\ arr' = [arr EXCEPT !.pc = "remove", !.current = torrent]
  /\ UNCHANGED <<services, arrFaults>>

AnyTorrent(r) == arr.current[r] # "none"     \* mutant: the progress is not looked at

Unfinished(r) == arr.current[r] \in {"downloading", "stalled"}

\* ... and a second request that deletes the unfinished ones by their hash, with
\* their files, whatever has become of them since.
RemoveUnfinished ==
  /\ ArrAt("remove")
  /\ torrent' = [r \in Releases |-> IF Unfinished(r) THEN "none" ELSE torrent[r]]
  /\ arr' = [arr EXCEPT !.pc = "select", !.current = NoTorrents]
  /\ UNCHANGED <<seeded, requested, movies, grabbed, imported, onNas, visible,
                 arrFaults>>

StuckFirst(f) ==     \* mutant: the ranks are swapped
  CASE f \in movies /\ f \in imported -> 0
    [] f \notin movies /\ ~(f \in requested /\ f \in visible) -> 2
    [] f \in movies /\ f \notin imported -> 1
    [] OTHER -> 3

\* arr_verifier_candidate_rank: imported, not in Radarr yet, not in Radarr but
\* somehow in Jellyfin, in Radarr without a file.
Rank(f) ==
  CASE f \in movies /\ f \in imported -> 0
    [] f \notin movies /\ ~(f \in requested /\ f \in visible) -> 1
    [] f \in movies /\ f \notin imported -> 2
    [] OTHER -> 3

Viable == {f \in Films : OfFilm(f) \cap seeded # {}}

SelectCandidate ==
  /\ ArrAt("select")
  /\ \/ Viable = {} /\ Blocked("availability")
     \/ \E f \in Viable, r \in seeded :
          /\ \A g \in Viable : Rank(f) <= Rank(g)
          /\ FilmOf[r] = f
          /\ arr' = [arr EXCEPT !.pc = "request", !.film = f, !.best = r,
                                !.ask = f \notin requested]
  /\ UNCHANGED <<services, arrFaults>>

RequestFilm ==
  /\ ArrAt("request")
  /\ IF arr.ask
     THEN \/ /\ requested' = requested \cup {arr.film}
             /\ ArrGoes("movie") /\ UNCHANGED arrFaults
          \/ /\ requested' \in {requested, requested \cup {arr.film}}
             /\ (Blocked("error") \/ Blocked("availability")) /\ ArrFault
     ELSE ArrGoes("movie") /\ UNCHANGED <<requested, arrFaults>>
  /\ UNCHANGED <<seeded, movies, grabbed, torrent, imported, onNas, visible>>

\* wait_for_radarr_movie
AwaitMovie ==
  /\ ArrAt("movie")
  /\ IF arr.film \in movies THEN ArrGoes("handoff") ELSE Blocked("search")
  /\ UNCHANGED <<services, arrFaults>>

-----------------------------------------------------------------------------
(* The release *)

\* Radarr's own search, with the titles that match the film exactly.
RadarrFinds(f) == OfFilm(f) \cap seeded

\* In the queue or in the history; both were read before the grab.
AlreadySelected(r) == torrent[r] # "none" \/ r \in grabbed

\* The release that Prowlarr ranks first, if Radarr finds it too.
ChooseRelease ==
  /\ ArrAt("handoff")
  /\ LET known == OfFilm(arr.film) \cap grabbed
         found == RadarrFinds(arr.film)
     IN IF arr.film \in imported
        THEN \E r \in IF known = {} THEN {NoRelease} ELSE known :
               arr' = [arr EXCEPT !.pc = "torrent", !.release = r]
        ELSE \/ found = {} /\ Blocked("search")
             \/ \E r \in IF arr.best \in found THEN {arr.best} ELSE found :
                  arr' = [arr EXCEPT !.release = r,
                            !.pc = IF AlreadySelected(r) THEN "torrent" ELSE "grab"]
  /\ UNCHANGED <<services, arrFaults>>

Grabs(r) ==
  /\ grabbed' = grabbed \cup {r}
  /\ torrent' = [torrent EXCEPT ![r] = IF @ = "none" THEN "downloading" ELSE @]
  /\ UNCHANGED <<seeded, requested, movies, imported, onNas, visible>>

\* trigger_radarr_release_download
GrabRelease ==
  /\ ArrAt("grab")
  /\ Grabs(arr.release)
  /\ \/ ArrGoes("torrent") /\ UNCHANGED arrFaults
     \/ Blocked("error") /\ ArrFault

-----------------------------------------------------------------------------
(* Download, import and Jellyfin *)

\* torrent_matches_selected_release; a bare title matches every release.
Matching ==
  IF arr.release = NoRelease
  THEN {r \in OfFilm(arr.film) : torrent[r] # "none"}
  ELSE {r \in {arr.release} : torrent[r] # "none"}

\* Each poll looks at qBittorrent first, ...
PollTorrent ==
  /\ ArrAt("torrent")
  /\ \/ Matching = {} /\ arr' = [arr EXCEPT !.pc = "import", !.seen = "none"]
     \/ \E r \in Matching :
          arr' = [arr EXCEPT !.pc = "import", !.seen = torrent[r]]
  /\ UNCHANGED <<services, arrFaults>>

\* ... then at Radarr and the NAS.
OnNas == arr.film \in imported \cap onNas

PollImport ==
  /\ ArrAt("import")
  /\ IF OnNas THEN ArrGoes("refresh") ELSE ArrGoes("torrent")
  /\ UNCHANGED <<services, arrFaults>>

\* The blocker is told by what the last poll saw in qBittorrent.
BlockerSeen ==
  IF arr.seen = "none" THEN "unseen"
  ELSE IF arr.seen # "done" THEN "stuck" ELSE "import"

FlowDeadline ==
  /\ ArrAt("import") /\ ~OnNas
  /\ Blocked(BlockerSeen)
  /\ UNCHANGED <<services, arrFaults>>

\* The library is refreshed once, then searched until the film shows up.
Shown == arr.film \in visible

JellyfinShows ==
  /\ ArrAt("refresh")
  /\ IF Shown THEN Blocked("ok") ELSE Blocked("jellyfin")
  /\ UNCHANGED <<services, arrFaults>>

ArrKilled ==
  /\ ~ArrAt("idle") /\ ArrFault
  /\ Blocked("error")
  /\ UNCHANGED services

-----------------------------------------------------------------------------
(* The services *)

SeerrHandsOver(f) ==
  /\ f \in requested \ movies
  /\ movies' = movies \cup {f}
  /\ UNCHANGED <<seeded, requested, grabbed, torrent, imported, onNas, visible,
                 arr, arrFaults>>

\* Radarr searches by itself for a film that it has no file of.
RadarrGrabs(r) ==
  /\ FilmOf[r] \in movies \ imported /\ r \in seeded /\ torrent[r] = "none"
  /\ Grabs(r)
  /\ UNCHANGED <<arr, arrFaults>>

Downloads(r) ==
  /\ torrent[r] = "downloading"
  /\ \/ torrent' = [torrent EXCEPT ![r] = "done"] /\ UNCHANGED arrFaults
     \/ torrent' = [torrent EXCEPT ![r] = "stalled"] /\ ArrFault
  /\ UNCHANGED <<seeded, requested, movies, grabbed, imported, onNas, visible, arr>>

RadarrImports(r) ==
  /\ torrent[r] = "done" /\ FilmOf[r] \notin imported
  /\ imported' = imported \cup {FilmOf[r]}
  /\ onNas' = onNas \cup {FilmOf[r]}
  /\ UNCHANGED <<seeded, requested, movies, grabbed, torrent, visible, arr,
                 arrFaults>>

\* After the import the download has done its work.
RadarrRemoves(r) ==
  /\ torrent[r] = "done" /\ FilmOf[r] \in imported
  /\ torrent' = [torrent EXCEPT ![r] = "none"]
  /\ UNCHANGED <<seeded, requested, movies, grabbed, imported, onNas, visible, arr,
                 arrFaults>>

\* Ten other events push a grab off the first page of the history.
HistoryScrolls(r) ==
  /\ r \in grabbed
  /\ grabbed' = grabbed \ {r}
  /\ UNCHANGED <<seeded, requested, movies, torrent, imported, onNas, visible, arr,
                 arrFaults>>

JellyfinScans(f) ==
  /\ f \in onNas \ visible
  /\ visible' = visible \cup {f}
  /\ UNCHANGED <<seeded, requested, movies, grabbed, torrent, imported, onNas, arr,
                 arrFaults>>

\* Nothing yet, or a film that an earlier run, or somebody else, got.
ArrInit ==
  /\ seeded \in SUBSET Releases
  /\ \E f \in SUBSET Films :
       requested = f /\ movies = f /\ imported = f /\ visible = f
  /\ onNas \in SUBSET imported
  /\ torrent = NoTorrents /\ grabbed = {}
  /\ arr = ArrEnded("new") /\ arrFaults = 0

ArrStep ==
  \/ StartArr \/ ReadDownloads \/ RemoveUnfinished \/ SelectCandidate
  \/ RequestFilm \/ AwaitMovie \/ ChooseRelease \/ GrabRelease \/ PollTorrent
  \/ PollImport \/ FlowDeadline \/ JellyfinShows

ArrService ==
  \/ \E f \in Films : SeerrHandsOver(f) \/ JellyfinScans(f)
  \/ \E r \in Releases : Downloads(r) \/ RadarrImports(r)

ArrNext ==
  \/ ArrStep \/ ArrKilled \/ ArrService
  \/ \E r \in Releases : RadarrGrabs(r) \/ RadarrRemoves(r) \/ HistoryScrolls(r)

ArrSpec == ArrInit /\ [][ArrNext]_arrVars

\* The command is run again, the deadline comes, and the services work: a
\* request is handed over, and a download goes on as long as it is left alone.
ArrFairness ==
  /\ WF_arrVars(ArrStep) /\ SF_arrVars(FlowDeadline) /\ WF_arrVars(ArrService)

-----------------------------------------------------------------------------
(* Properties *)

ArrTypeOK ==
  /\ seeded \subseteq Releases /\ grabbed \subseteq Releases
  /\ requested \subseteq Films /\ movies \subseteq Films
  /\ imported \subseteq Films /\ onNas \subseteq Films /\ visible \subseteq Films
  /\ torrent \in [Releases -> {"none", "downloading", "stalled", "done"}]
  /\ arr.pc \in {"idle", "cleanup", "remove", "select", "request", "movie",
                 "handoff", "grab", "torrent", "import", "refresh"}
  /\ arr.film \in Films \cup {NoRelease}
  /\ {arr.best, arr.release} \subseteq Releases \cup {NoRelease}
  /\ arr.current \in [Releases -> {"none", "downloading", "stalled", "done"}]
  /\ arr.seen \in {"none", "downloading", "stalled", "done"}
  /\ arr.blocker \in {"new", "", "ok", "availability", "search", "unseen", "stuck",
                      "import", "jellyfin", "error"}
  /\ arrFaults \in 0..MaxArrFaults

\* A finished download disappears only after Radarr imported it: the cleanup of
\* a rerun removes nothing that it found finished.  What finished after the
\* cleanup had read the progress, and before its deletion, is the exception: it
\* is deleted with its files (6575, 6587).
FinishedDownloadsStay ==
  [][\A r \in Releases :
       torrent[r] = "done" /\ torrent'[r] = "none"
         => \/ FilmOf[r] \in imported
            \/ ArrAt("remove") /\ arr.current[r] # "done"]_arrVars

\* A film that a run got stuck with is not tried again before the others: run
\* again and again, the command ends well or has requested every film that can
\* be had, unless a film whose file was lost stands in the way.
RerunsTryEveryFilm ==
  (arr.pc # "idle" /\ Viable \cap (imported \ onNas) = {})
    ~> (arr.blocker = "ok" \/ Viable \subseteq requested)
=============================================================================
