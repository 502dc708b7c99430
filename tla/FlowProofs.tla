----------------------------- MODULE FlowProofs -----------------------------
(***************************************************************************)
(* Theorems about ArrFlow and ReplicaResidue, for every set of films,      *)
(* releases, ReplicaSets and kinds of reports and every number of faults:  *)
(* type correctness of both, and that verify-arr-flow removes no download  *)
(* that it found finished.                                                 *)
(***************************************************************************)
EXTENDS ArrFlow, ReplicaResidue, SequenceTheorems, TLAPS

-----------------------------------------------------------------------------
(* verify-arr-flow *)

Torrents == [Releases -> {"none", "downloading", "stalled", "done"}]

ArrState == [pc : {"idle", "cleanup", "remove", "select", "request", "movie",
                   "handoff", "grab", "torrent", "import", "refresh"},
             film : Films \cup {NoRelease}, best : Releases \cup {NoRelease},
             ask : BOOLEAN, release : Releases \cup {NoRelease}, current : Torrents,
             seen : {"none", "downloading", "stalled", "done"},
             blocker : {"new", "", "ok", "availability", "search", "unseen",
                        "stuck", "import", "jellyfin", "error"}]

ServicesType ==
  /\ seeded \subseteq Releases /\ grabbed \subseteq Releases
  /\ requested \subseteq Films /\ movies \subseteq Films
  /\ imported \subseteq Films /\ onNas \subseteq Films /\ visible \subseteq Films
  /\ torrent \in [Releases -> {"none", "downloading", "stalled", "done"}]

Chosen == {"request", "movie", "handoff", "grab", "torrent", "import", "refresh"}

\* What is requested is a film of the list, and what is grabbed is a release.
ProcessType ==
  /\ arr \in ArrState
  /\ arr.pc \in Chosen => arr.film \in Films
  /\ arr.pc = "grab" => arr.release \in Releases

ArrInv == ServicesType /\ ProcessType /\ arrFaults \in 0..MaxArrFaults

LEMMA ArrEndedType ==
  ASSUME NEW b \in {"new", "", "ok", "availability", "search", "unseen", "stuck",
                    "import", "jellyfin", "error"}
  PROVE  ArrEnded(b) \in ArrState /\ ArrEnded(b).pc = "idle"
  <1>1. NoTorrents \in Torrents
    BY DEF NoTorrents, Torrents
  <1> QED
    BY <1>1 DEF ArrEnded, ArrState

LEMMA BlockedType ==
  ASSUME NEW b \in {"ok", "availability", "search", "unseen", "stuck", "import",
                    "jellyfin", "error"},
         Blocked(b)
  PROVE  ProcessType'
  BY ArrEndedType DEF Blocked, ProcessType, Chosen

LEMMA GoesType ==
  ASSUME ArrInv, NEW pc \in {"cleanup", "select", "request", "movie", "handoff",
                             "torrent", "import", "refresh"},
         pc \in {"cleanup", "select"} \/ arr.pc \in Chosen,
         ArrGoes(pc)
  PROVE  ProcessType'
  BY DEF ArrInv, ProcessType, ArrGoes, ArrState, Chosen

LEMMA ArrFaultType ==
  ASSUME arrFaults \in 0..MaxArrFaults, ArrFault \/ UNCHANGED arrFaults
  PROVE  arrFaults' \in 0..MaxArrFaults
  BY ArrAssumption DEF ArrFault

\* Steps of the process that only look at the services.
LEMMA ServicesRest == ArrInv /\ UNCHANGED services => ServicesType'
  BY DEF ArrInv, ServicesType, services

LEMMA SelectionSteps ==
  ASSUME ArrInv, StartArr \/ ReadDownloads \/ RemoveUnfinished \/ SelectCandidate
  PROVE  ArrInv'
  <1>1. CASE StartArr
    <2>1. ArrEnded("") \in ArrState
      BY ArrEndedType
    <2>2. ProcessType'
      BY <1>1, <2>1 DEF StartArr, ProcessType, ArrState, Chosen
    <2> QED
      BY <1>1, <2>2, ServicesRest DEF StartArr, ArrInv
  <1>2. CASE ReadDownloads
    <2>1. torrent \in Torrents
      BY DEF ArrInv, ServicesType, Torrents
    <2>2. ProcessType'
      BY <1>2, <2>1 DEF ReadDownloads, ArrInv, ProcessType, ArrState, Chosen
    <2> QED
      BY <1>2, <2>2, ServicesRest DEF ReadDownloads, ArrInv
  <1>3. CASE RemoveUnfinished
    <2>1. torrent' \in [Releases -> {"none", "downloading", "stalled", "done"}]
      BY <1>3 DEF RemoveUnfinished, ArrInv, ServicesType
    <2>2. ServicesType'
      BY <1>3, <2>1 DEF RemoveUnfinished, ArrInv, ServicesType
    <2>3. NoTorrents \in Torrents
      BY DEF NoTorrents, Torrents
    <2>4. ProcessType'
      BY <1>3, <2>3 DEF RemoveUnfinished, ArrInv, ProcessType, ArrState, Chosen
    <2> QED
      BY <1>3, <2>2, <2>4 DEF RemoveUnfinished, ArrInv
  <1>4. CASE SelectCandidate
    <2>1. CASE Blocked("availability")
      BY <1>4, <2>1, BlockedType, ServicesRest DEF SelectCandidate, ArrInv
    <2>2. ASSUME NEW f \in Viable, NEW r \in seeded, NEW b \in BOOLEAN,
                 arr' = [arr EXCEPT !.pc = "request", !.film = f, !.best = r, !.ask = b]
          PROVE  ProcessType'
      <3>1. f \in Films /\ r \in Releases
        BY <2>2 DEF Viable, ArrInv, ServicesType
      <3> QED
        BY <2>2, <3>1 DEF ArrInv, ProcessType, ArrState, Chosen
    <2>3. CASE \E f \in Viable, r \in seeded :
                 arr' = [arr EXCEPT !.pc = "request", !.film = f, !.best = r,
                                    !.ask = f \notin requested]
      <3>1. ProcessType'
        BY <2>2, <2>3
      <3> QED
        BY <1>4, <3>1, ServicesRest DEF SelectCandidate, ArrInv
    <2> QED
      BY <1>4, <2>1, <2>3 DEF SelectCandidate
  <1> QED
    BY <1>1, <1>2, <1>3, <1>4

LEMMA RequestSteps ==
  ASSUME ArrInv, RequestFilm \/ AwaitMovie
  PROVE  ArrInv'
  <1>1. CASE RequestFilm
    <2>1. arr.pc \in Chosen /\ arr.film \in Films
      BY <1>1 DEF RequestFilm, ArrAt, Chosen, ArrInv, ProcessType
    <2>2. ProcessType'
      BY <1>1, <2>1, GoesType, BlockedType DEF RequestFilm
    <2>3. requested' \subseteq Films
      BY <1>1, <2>1 DEF RequestFilm, ArrInv, ServicesType
    <2>4. ServicesType'
      BY <1>1, <2>3 DEF RequestFilm, ArrInv, ServicesType
    <2>5. arrFaults' \in 0..MaxArrFaults
      BY <1>1, ArrFaultType DEF RequestFilm, ArrInv
    <2> QED
      BY <2>2, <2>4, <2>5 DEF ArrInv
  <1>2. CASE AwaitMovie
    <2>1. arr.pc \in Chosen
      BY <1>2 DEF AwaitMovie, ArrAt, Chosen
    <2>2. ProcessType'
      BY <1>2, <2>1, GoesType, BlockedType DEF AwaitMovie
    <2> QED
      BY <1>2, <2>2, ServicesRest DEF AwaitMovie, ArrInv
  <1> QED
    BY <1>1, <1>2

\* Radarr takes the release, for the process or by itself.
LEMMA GrabsType ==
  ASSUME ArrInv, NEW r \in Releases, Grabs(r)
  PROVE  ServicesType'
  <1>1. torrent' \in [Releases -> {"none", "downloading", "stalled", "done"}]
    BY DEF Grabs, ArrInv, ServicesType
  <1> QED
    BY <1>1 DEF Grabs, ArrInv, ServicesType

LEMMA ReleaseSteps ==
  ASSUME ArrInv, ChooseRelease \/ GrabRelease
  PROVE  ArrInv'
  <1>1. CASE ChooseRelease
    <2>1. arr \in ArrState /\ arr.film \in Films
      BY <1>1 DEF ChooseRelease, ArrAt, Chosen, ArrInv, ProcessType
    <2>2. ASSUME NEW r \in Releases \cup {NoRelease},
                 arr' = [arr EXCEPT !.pc = "torrent", !.release = r]
          PROVE  ProcessType'
      BY <2>1, <2>2 DEF ProcessType, ArrState, Chosen
    <2>3. ASSUME NEW r \in Releases, NEW pc \in {"torrent", "grab"},
                 arr' = [arr EXCEPT !.release = r, !.pc = pc]
          PROVE  ProcessType'
      BY <2>1, <2>3 DEF ProcessType, ArrState, Chosen
    <2>4. ASSUME arr.film \in imported
          PROVE  ProcessType'
      <3>1. PICK r \in IF OfFilm(arr.film) \cap grabbed = {} THEN {NoRelease}
                       ELSE OfFilm(arr.film) \cap grabbed :
              arr' = [arr EXCEPT !.pc = "torrent", !.release = r]
        BY <1>1, <2>4 DEF ChooseRelease
      <3>2. r \in Releases \cup {NoRelease}
        BY <3>1 DEF OfFilm
      <3> QED
        BY <2>2, <3>1, <3>2
    <2>5. ASSUME arr.film \notin imported, ~Blocked("search")
          PROVE  ProcessType'
      <3> DEFINE found == RadarrFinds(arr.film)
      <3>1. PICK r \in IF arr.best \in found THEN {arr.best} ELSE found :
              arr' = [arr EXCEPT !.release = r,
                        !.pc = IF AlreadySelected(r) THEN "torrent" ELSE "grab"]
        BY <1>1, <2>5 DEF ChooseRelease
      <3>2. r \in Releases
        BY <3>1 DEF RadarrFinds, OfFilm
      <3> DEFINE pc == IF AlreadySelected(r) THEN "torrent" ELSE "grab"
      <3>3. pc \in {"torrent", "grab"}
        OBVIOUS
      <3>4. arr' = [arr EXCEPT !.release = r, !.pc = pc]
        BY <3>1
      <3> HIDE DEF pc
      <3> QED
        BY <2>3, <3>2, <3>3, <3>4
    <2>6. Blocked("search") => ProcessType'
      BY BlockedType
    <2>7. ProcessType'
      BY <2>4, <2>5, <2>6
    <2> QED
      BY <1>1, <2>7, ServicesRest DEF ChooseRelease, ArrInv
  <1>2. CASE GrabRelease
    <2>1. arr.pc \in Chosen /\ arr.release \in Releases
      BY <1>2 DEF GrabRelease, ArrAt, Chosen, ArrInv, ProcessType
    <2>2. ProcessType'
      BY <1>2, <2>1, GoesType, BlockedType DEF GrabRelease
    <2>3. ServicesType'
      BY <1>2, <2>1, GrabsType DEF GrabRelease
    <2>4. arrFaults' \in 0..MaxArrFaults
      BY <1>2, ArrFaultType DEF GrabRelease, ArrInv
    <2> QED
      BY <2>2, <2>3, <2>4 DEF ArrInv
  <1> QED
    BY <1>1, <1>2

LEMMA WaitingSteps ==
  ASSUME ArrInv, PollTorrent \/ PollImport \/ FlowDeadline \/ JellyfinShows
  PROVE  ArrInv'
  <1>1. CASE PollTorrent
    <2>1. arr \in ArrState /\ arr.film \in Films
      BY <1>1 DEF PollTorrent, ArrAt, Chosen, ArrInv, ProcessType
    <2>2. ASSUME NEW seen \in {"none", "downloading", "stalled", "done"},
                 arr' = [arr EXCEPT !.pc = "import", !.seen = seen]
          PROVE  ProcessType'
      BY <2>1, <2>2 DEF ProcessType, ArrState, Chosen
    <2>3. \A r \in Matching : torrent[r] \in {"none", "downloading", "stalled", "done"}
      <3>1. \A r \in Matching : r \in Releases
        <4>1. CASE arr.release = NoRelease
          BY <4>1 DEF Matching, OfFilm
        <4>2. CASE arr.release # NoRelease
          BY <4>2, <2>1 DEF Matching, ArrState
        <4> QED
          BY <4>1, <4>2
      <3> QED
        BY <3>1 DEF ArrInv, ServicesType
    <2>4. ProcessType'
      BY <1>1, <2>2, <2>3 DEF PollTorrent
    <2> QED
      BY <1>1, <2>4, ServicesRest DEF PollTorrent, ArrInv
  <1>2. CASE PollImport
    <2>1. arr.pc \in Chosen
      BY <1>2 DEF PollImport, ArrAt, Chosen
    <2>2. ProcessType'
      BY <1>2, <2>1, GoesType DEF PollImport
    <2> QED
      BY <1>2, <2>2, ServicesRest DEF PollImport, ArrInv
  <1>3. CASE FlowDeadline
    <2>1. ProcessType'
      BY <1>3, BlockedType DEF FlowDeadline, BlockerSeen
    <2> QED
      BY <1>3, <2>1, ServicesRest DEF FlowDeadline, ArrInv
  <1>4. CASE JellyfinShows
    <2>1. ProcessType'
      BY <1>4, BlockedType DEF JellyfinShows
    <2> QED
      BY <1>4, <2>1, ServicesRest DEF JellyfinShows, ArrInv
  <1> QED
    BY <1>1, <1>2, <1>3, <1>4

LEMMA ServiceSteps ==
  ASSUME ArrInv,
         \/ \E f \in Films : SeerrHandsOver(f) \/ JellyfinScans(f)
         \/ \E r \in Releases : Downloads(r) \/ RadarrImports(r)
         \/ \E r \in Releases : RadarrGrabs(r) \/ RadarrRemoves(r) \/ HistoryScrolls(r)
  PROVE  ArrInv'
  <1>0. ASSUME UNCHANGED arr
        PROVE  ProcessType'
    BY <1>0 DEF ArrInv, ProcessType
  <1>1. CASE \E f \in Films : SeerrHandsOver(f) \/ JellyfinScans(f)
    BY <1>0, <1>1 DEF SeerrHandsOver, JellyfinScans, ArrInv, ServicesType
  <1>2. ASSUME NEW r \in Releases, Downloads(r)
        PROVE  ArrInv'
    <2>1. torrent' \in [Releases -> {"none", "downloading", "stalled", "done"}]
      BY <1>2 DEF Downloads, ArrInv, ServicesType
    <2>2. ServicesType'
      BY <1>2, <2>1 DEF Downloads, ArrInv, ServicesType
    <2>3. arrFaults' \in 0..MaxArrFaults
      BY <1>2, ArrFaultType DEF Downloads, ArrInv
    <2> QED
      BY <1>0, <1>2, <2>2, <2>3 DEF Downloads, ArrInv
  <1>3. ASSUME NEW r \in Releases, RadarrImports(r)
        PROVE  ArrInv'
    <2>1. FilmOf[r] \in Films
      BY ArrAssumption
    <2> QED
      BY <1>0, <1>3, <2>1 DEF RadarrImports, ArrInv, ServicesType
  <1>4. ASSUME NEW r \in Releases, RadarrGrabs(r)
        PROVE  ArrInv'
    BY <1>0, <1>4, GrabsType DEF RadarrGrabs, ArrInv
  <1>5. ASSUME NEW r \in Releases, RadarrRemoves(r)
        PROVE  ArrInv'
    BY <1>0, <1>5 DEF RadarrRemoves, ArrInv, ServicesType
  <1>6. ASSUME NEW r \in Releases, HistoryScrolls(r)
        PROVE  ArrInv'
    BY <1>0, <1>6 DEF HistoryScrolls, ArrInv, ServicesType
  <1> QED
    BY <1>1, <1>2, <1>3, <1>4, <1>5, <1>6

LEMMA ArrInitInv == ArrInit => ArrInv
  <1> SUFFICES ASSUME ArrInit PROVE ArrInv
    OBVIOUS
  <1>1. ServicesType
    BY DEF ArrInit, NoTorrents, ServicesType
  <1>2. arr \in ArrState /\ arr.pc = "idle"
    BY ArrEndedType DEF ArrInit
  <1>3. ProcessType
    BY <1>2 DEF ProcessType, Chosen
  <1> QED
    BY <1>1, <1>3, ArrAssumption DEF ArrInit, ArrInv

LEMMA ArrInductive == ArrInv /\ [ArrNext]_arrVars => ArrInv'
  <1> SUFFICES ASSUME ArrInv, [ArrNext]_arrVars PROVE ArrInv'
    OBVIOUS
  <1>1. CASE ArrStep
    BY <1>1, SelectionSteps, RequestSteps, ReleaseSteps, WaitingSteps DEF ArrStep
  <1>2. CASE ArrKilled
    BY <1>2, BlockedType, ServicesRest, ArrFaultType DEF ArrKilled, ArrInv
  <1>3. CASE \/ ArrService
             \/ \E r \in Releases : RadarrGrabs(r) \/ RadarrRemoves(r) \/ HistoryScrolls(r)
    BY <1>3, ServiceSteps DEF ArrService
  <1>4. CASE UNCHANGED arrVars
    BY <1>4, ServicesRest DEF arrVars, ArrInv, ProcessType
  <1> QED
    BY <1>1, <1>2, <1>3, <1>4 DEF ArrNext

LEMMA ArrAlways == ArrSpec => []ArrInv
  BY ArrInitInv, ArrInductive, PTL DEF ArrSpec

\* Every variable of the flow has its type in every run, whatever the indexers
\* know and whenever the process is killed.
THEOREM ArrTypeCorrect == ArrSpec => []ArrTypeOK
  <1>1. ArrInv => ArrTypeOK
    BY DEF ArrInv, ServicesType, ProcessType, ArrState, Torrents, ArrTypeOK
  <1> QED
    BY <1>1, ArrAlways, PTL

\* A finished download disappears only after Radarr imported it, or when it has
\* finished between the two requests of the cleanup: neither the cleanup of what
\* it found finished nor a grab of the same release removes one.
THEOREM FinishedDownloadsAreKept == ArrSpec => FinishedDownloadsStay
  <1> DEFINE Kept(r) == \/ FilmOf[r] \in imported
                        \/ ArrAt("remove") /\ arr.current[r] # "done"
             K == \A r \in Releases :
                    torrent[r] = "done" /\ torrent'[r] = "none" => Kept(r)
  <1>1. ASSUME ArrInv, ArrNext
        PROVE  K
    <2> SUFFICES ASSUME NEW r \in Releases, torrent[r] = "done", torrent'[r] = "none"
                 PROVE  Kept(r)
      OBVIOUS
    <2>0. torrent \in [Releases -> {"none", "downloading", "stalled", "done"}]
      BY <1>1 DEF ArrInv, ServicesType
    <2>1. CASE UNCHANGED torrent
      BY <2>1
    <2>2. ASSUME NEW q, Grabs(q)
          PROVE  FALSE
      <3>1. torrent' = [torrent EXCEPT ![q] =
                          IF torrent[q] = "none" THEN "downloading" ELSE torrent[q]]
        BY <2>2 DEF Grabs
      <3> QED
        BY <2>0, <3>1
    <2>3. CASE RemoveUnfinished
      BY <2>3 DEF RemoveUnfinished, Unfinished
    <2>4. ASSUME NEW q \in Releases, Downloads(q)
          PROVE  FALSE
      BY <2>0, <2>4 DEF Downloads
    <2>5. ASSUME NEW q \in Releases, RadarrRemoves(q)
          PROVE  FilmOf[r] \in imported
      BY <2>0, <2>5 DEF RadarrRemoves
    <2>6. CASE ArrStep
      BY <2>1, <2>2, <2>3, <2>6
      DEF ArrStep, StartArr, ReadDownloads, SelectCandidate, RequestFilm, AwaitMovie, ChooseRelease,
          GrabRelease, PollTorrent, PollImport, FlowDeadline, JellyfinShows, services
    <2>7. CASE ArrKilled
      BY <2>1, <2>7 DEF ArrKilled, services
    <2>8. CASE ArrService
      BY <2>1, <2>4, <2>8 DEF ArrService, SeerrHandsOver, JellyfinScans, RadarrImports
    <2>9. CASE \E q \in Releases : RadarrGrabs(q) \/ RadarrRemoves(q) \/ HistoryScrolls(q)
      BY <2>1, <2>2, <2>5, <2>9 DEF RadarrGrabs, HistoryScrolls
    <2> QED
      BY <1>1, <2>6, <2>7, <2>8, <2>9 DEF ArrNext
  <1>2. ArrInv /\ [ArrNext]_arrVars => [K]_arrVars
    BY <1>1
  <1> HIDE DEF K
  <1>3. ArrSpec => [][K]_arrVars
    BY <1>2, ArrAlways, PTL DEF ArrSpec
  <1> QED
    BY <1>3 DEF K, FinishedDownloadsStay

-----------------------------------------------------------------------------
(* The cleanup of security signals *)

SweepState == [pc : {"idle", "read", "reports", "replicasets"},
               stale : SUBSET Replicas, kind : 1..Len(Kinds),
               todo : SUBSET Replicas, matched : SUBSET Replicas]

ResidueInv ==
  /\ scale \in [Replicas -> {"gone", "zero", "serving"}]
  /\ reports \in [KindSet -> SUBSET Replicas]
  /\ sweep \in SweepState
  /\ residueFaults \in 0..MaxResidueFaults

LEMMA KindsType ==
  /\ Len(Kinds) \in Nat \ {0}
  /\ \A k \in 1..Len(Kinds) : Kinds[k] \in KindSet
  <1>1. Kinds \in Seq(KindSet) /\ Kinds # << >>
    BY ResidueAssumption
  <1> HIDE DEF KindSet
  <1> QED
    BY <1>1, EmptySeq, LenProperties, ElementOfSeq

LEMMA SweptType == Swept \in SweepState
  <1>1. 1 \in 1..Len(Kinds)
    BY KindsType
  <1> QED
    BY <1>1 DEF Swept, SweepState

LEMMA ResidueFaultType ==
  ASSUME residueFaults \in 0..MaxResidueFaults, ResidueFault
  PROVE  residueFaults' \in 0..MaxResidueFaults
  BY ResidueAssumption DEF ResidueFault

LEMMA ResidueInductive == ResidueInv /\ [ResidueNext]_residueVars => ResidueInv'
  <1> SUFFICES ASSUME ResidueInv, [ResidueNext]_residueVars PROVE ResidueInv'
    OBVIOUS
  <1> USE DEF ResidueInv
  <1>1. CASE FindStale
    <2> DEFINE stale == {r \in Replicas : scale[r] = "zero"}
    <2>1. [Swept EXCEPT !.pc = "read", !.stale = stale] \in SweepState
      BY SweptType DEF SweepState
    <2> QED
      BY <1>1, <2>1, SweptType DEF FindStale
  <1>2. CASE ReadReports
    <2> DEFINE todo == sweep.stale \cap reports[Kinds[sweep.kind]]
    <2>1. todo \in SUBSET Replicas
      BY DEF SweepState
    <2>2. sweep' = [sweep EXCEPT !.pc = "reports", !.todo = todo]
      BY <1>2 DEF ReadReports
    <2> HIDE DEF todo
    <2>3. sweep' \in SweepState
      BY <2>1, <2>2 DEF SweepState
    <2> QED
      BY <1>2, <2>3 DEF ReadReports
  <1>3. CASE DeleteReport
    <2>1. PICK r \in sweep.todo :
            /\ reports' = [reports EXCEPT ![Kinds[sweep.kind]] = @ \ {r}]
            /\ sweep' = [sweep EXCEPT !.todo = @ \ {r}, !.matched = Matched(r)]
      BY <1>3 DEF DeleteReport
    <2>2. reports' \in [KindSet -> SUBSET Replicas]
      BY <2>1
    <2>3. r \in Replicas
      BY <2>1 DEF SweepState
    <2>4. sweep' \in SweepState
      BY <2>1, <2>3 DEF Matched, SweepState
    <2> QED
      BY <1>3, <2>2, <2>4 DEF DeleteReport
  <1>4. CASE NextKind
    <2>1. CASE sweep.kind < Len(Kinds)
      <3>1. sweep.kind + 1 \in 1..Len(Kinds)
        BY <2>1, KindsType DEF SweepState
      <3>2. sweep' = [sweep EXCEPT !.pc = "read", !.kind = sweep.kind + 1]
        BY <1>4, <2>1 DEF NextKind
      <3>3. sweep' \in SweepState
        BY <3>1, <3>2 DEF SweepState
      <3> QED
        BY <1>4, <3>3 DEF NextKind
    <2>2. CASE ~(sweep.kind < Len(Kinds))
      <3>1. sweep' \in SweepState
        BY <1>4, <2>2 DEF NextKind, SweepState
      <3> QED
        BY <1>4, <3>1 DEF NextKind
    <2> QED
      BY <2>1, <2>2
  <1>5. CASE DeleteReplicaSet
    <2>1. PICK r \in sweep.matched :
            /\ scale' = [scale EXCEPT ![r] = "gone"]
            /\ sweep' = [sweep EXCEPT !.matched = @ \ {r}]
      BY <1>5 DEF DeleteReplicaSet
    <2>2. sweep' \in SweepState
      BY <2>1 DEF SweepState
    <2> QED
      BY <1>5, <2>1, <2>2 DEF DeleteReplicaSet
  <1>6. CASE EndSweep
    BY <1>6, SweptType DEF EndSweep
  <1>7. CASE SweepKilled
    BY <1>7, SweptType, ResidueFaultType DEF SweepKilled
  <1>8. ASSUME NEW k \in KindSet, Scan(k)
        PROVE  ResidueInv'
    BY <1>8 DEF Scan
  <1>9. ASSUME NEW r \in Replicas, ScaleUp(r) \/ ScaleDown(r)
        PROVE  ResidueInv'
    BY <1>9, ResidueFaultType DEF ScaleUp, ScaleDown
  <1>10. CASE UNCHANGED residueVars
    BY <1>10 DEF residueVars
  <1> QED
    BY <1>1, <1>2, <1>3, <1>4, <1>5, <1>6, <1>7, <1>8, <1>9, <1>10
    DEF ResidueNext, SweepStep

\* Every variable of the cleanup has its type in every run: the kind that is
\* looked up never leaves the list, and only ReplicaSets of the allowlist are
\* ever matched.
THEOREM ResidueTypeCorrect == ResidueSpec => []ResidueTypeOK
  <1>1. ResidueInit => ResidueInv
    BY SweptType, ResidueAssumption DEF ResidueInit, ResidueInv
  <1>2. ResidueInv => ResidueTypeOK
    BY DEF ResidueInv, SweepState, ResidueTypeOK
  <1> QED
    BY <1>1, <1>2, ResidueInductive, PTL DEF ResidueSpec
=============================================================================
