----------------------------- MODULE MediaProofs -----------------------------
(***************************************************************************)
(* Theorems about MediaReconcile, for every list of ARR applications, every *)
(* set of libraries and every number of faults: type correctness, that no  *)
(* integration is made twice, and that a run that ends well leaves the     *)
(* stack wired.                                                            *)
(*                                                                         *)
(* The last one rests on the order of the calls, so the first part is      *)
(* about Plan: what is in it, and what comes before what.                  *)
(***************************************************************************)
EXTENDS MediaReconcile, SequenceTheorems, TLAPS

-----------------------------------------------------------------------------
(* Sequences of calls *)

Names == ArrSet \cup {"none", "prowlarr"}
Ops == {"gate", "downloader", "preferences", "categories", "sabnzbd", "key",
        "folder", "torrents", "usenet", "common", "application", "proxy",
        "indexers", "bazarr", "secret", "restart", "wizard", "posture",
        "libraries", "login", "url", "discovery", "server", "initialize",
        "quality", "language", "metrics"}
Calls == Ops \X Names

Has(seq, call) == \E k \in 1..Len(seq) : seq[k] = call
OnlyOps(seq, ops) == \A k \in 1..Len(seq) : seq[k][1] \in ops

\* Every call of the kind op comes after `call`.
Before(seq, call, op) ==
  \A i \in 1..Len(seq) : seq[i][1] = op => \E j \in 1..(i - 1) : seq[j] = call

LEMMA Split ==
  ASSUME NEW s \in Seq(Calls), NEW t \in Seq(Calls)
  PROVE  /\ s \o t \in Seq(Calls) /\ Len(s \o t) = Len(s) + Len(t)
         /\ Len(s) \in Nat /\ Len(t) \in Nat
         /\ \A i \in 1..Len(s) : (s \o t)[i] = s[i]
         /\ \A i \in 1..Len(t) : (s \o t)[Len(s) + i] = t[i]
         /\ \A i \in 1..(Len(s) + Len(t)) :
              i > Len(s) => i - Len(s) \in 1..Len(t) /\ (s \o t)[i] = t[i - Len(s)]
  <1>1. Len(s) \in Nat /\ Len(t) \in Nat
    BY LenProperties
  <1>2. s \o t \in Seq(Calls) /\ Len(s \o t) = Len(s) + Len(t)
    BY ConcatProperties
  <1>3. \A i \in 1..(Len(s) + Len(t)) :
          (s \o t)[i] = IF i <= Len(s) THEN s[i] ELSE t[i - Len(s)]
    BY ConcatProperties
  <1> QED
    BY <1>1, <1>2, <1>3

LEMMA HasLeft ==
  ASSUME NEW s \in Seq(Calls), NEW t \in Seq(Calls), NEW call, Has(s, call)
  PROVE  Has(s \o t, call)
  BY Split DEF Has

LEMMA HasRight ==
  ASSUME NEW s \in Seq(Calls), NEW t \in Seq(Calls), NEW call, Has(t, call)
  PROVE  Has(s \o t, call)
  <1>1. PICK k \in 1..Len(t) : t[k] = call
    BY DEF Has
  <1>2. Len(s) + k \in 1..Len(s \o t) /\ (s \o t)[Len(s) + k] = call
    BY <1>1, Split
  <1> QED
    BY <1>2 DEF Has

LEMMA OnlyBoth ==
  ASSUME NEW s \in Seq(Calls), NEW t \in Seq(Calls), NEW ops, NEW more,
         OnlyOps(s, ops), OnlyOps(t, more)
  PROVE  OnlyOps(s \o t, ops \cup more)
  <1> SUFFICES ASSUME NEW i \in 1..Len(s \o t)
               PROVE  (s \o t)[i][1] \in ops \cup more
    BY DEF OnlyOps
  <1>1. CASE i \in 1..Len(s)
    BY <1>1, Split DEF OnlyOps
  <1>2. CASE i \notin 1..Len(s)
    <2>1. i - Len(s) \in 1..Len(t) /\ (s \o t)[i] = t[i - Len(s)]
      BY <1>2, Split
    <2> QED
      BY <2>1 DEF OnlyOps
  <1> QED
    BY <1>1, <1>2

\* What is before every op in the first part stays so, and what is in a first
\* part without an op is before those of the second.
LEMMA BeforeBoth ==
  ASSUME NEW s \in Seq(Calls), NEW t \in Seq(Calls), NEW call, NEW op,
         Has(s, call), Before(s, call, op)
  PROVE  Before(s \o t, call, op)
  <1> SUFFICES ASSUME NEW i \in 1..Len(s \o t), (s \o t)[i][1] = op
               PROVE  \E j \in 1..(i - 1) : (s \o t)[j] = call
    BY DEF Before
  <1>1. CASE i \in 1..Len(s)
    <2>1. PICK j \in 1..(i - 1) : s[j] = call
      BY <1>1, Split DEF Before
    <2>2. j \in 1..Len(s)
      BY <1>1, Split
    <2> QED
      BY <2>1, <2>2, Split
  <1>2. CASE i \notin 1..Len(s)
    <2>1. PICK j \in 1..Len(s) : s[j] = call
      BY DEF Has
    <2>2. j \in 1..(i - 1)
      BY <1>2, Split
    <2> QED
      BY <2>1, <2>2, Split
  <1> QED
    BY <1>1, <1>2

LEMMA BeforeFirst ==
  ASSUME NEW s, NEW call, NEW op, NEW ops, OnlyOps(s, ops), op \notin ops
  PROVE  Before(s, call, op)
  BY DEF Before, OnlyOps

-----------------------------------------------------------------------------
(* The parts of Plan *)

LEMMA ArrNames ==
  /\ \A n \in 1..Len(Arrs) : Arrs[n] \in ArrSet
  /\ \A n \in 1..Len(Managed) : Managed[n] \in ManagedSet
  /\ Len(Arrs) \in Nat /\ Len(Managed) \in Nat
  /\ \A a \in ArrSet : \E n \in 1..Len(Arrs) : Arrs[n] = a
  /\ \A a \in ManagedSet : \E n \in 1..Len(Managed) : Managed[n] = a
  /\ ManagedSet \subseteq ArrSet
  <1>1. /\ DOMAIN Arrs = 1..Len(Arrs) /\ DOMAIN Managed = 1..Len(Managed)
        /\ Len(Arrs) \in Nat /\ Len(Managed) \in Nat
    BY MediaAssumption, LenProperties
  <1> QED
    BY <1>1, MediaAssumption DEF ArrSet, ManagedSet

LEMMA EachCalls ==
  ASSUME NEW op \in Ops, NEW S \in SUBSET ArrSet, NEW apps \in Seq(S)
  PROVE  /\ Each(op, apps) \in Seq(Calls) /\ OnlyOps(Each(op, apps), {op})
         /\ \A n \in 1..Len(apps) : Has(Each(op, apps), <<op, apps[n]>>)
  <1>1. /\ Len(apps) \in Nat /\ DOMAIN apps = 1..Len(apps)
        /\ \A n \in 1..Len(apps) : apps[n] \in S
    BY LenProperties, ElementOfSeq
  <1>2. /\ Len(Each(op, apps)) = Len(apps)
        /\ \A n \in 1..Len(apps) : Each(op, apps)[n] = <<op, apps[n]>>
    BY <1>1 DEF Each
  <1>3. Each(op, apps) \in Seq(Calls)
    <2>1. \A n \in 1..Len(apps) : <<op, apps[n]>> \in Calls
      BY <1>1 DEF Calls, Names
    <2> QED
      BY <1>1, <2>1, IsASeq DEF Each
  <1>4. OnlyOps(Each(op, apps), {op})
    BY <1>2 DEF OnlyOps
  <1>5. \A n \in 1..Len(apps) : Has(Each(op, apps), <<op, apps[n]>>)
    BY <1>2 DEF Has
  <1> QED
    BY <1>3, <1>4, <1>5

ArrOps == {"key", "folder", "torrents", "usenet", "common"}
ArrOp == <<"key", "folder", "torrents", "usenet", "common">>

LEMMA Blocks ==
  ASSUME NEW k \in Nat, NEW j \in 0..4
  PROVE  (5 * k + j) % 5 = j /\ (5 * k + j) \div 5 = k
  OBVIOUS

LEMMA InBlocks ==
  ASSUME NEW m \in Nat, NEW L \in Nat, m < 5 * L
  PROVE  (m % 5) \in 0..4 /\ (m \div 5) \in 0..(L - 1)
  OBVIOUS

LEMMA PerArrCalls ==
  /\ PerArr \in Seq(Calls) /\ OnlyOps(PerArr, ArrOps)
  /\ \A a \in ArrSet, j \in 1..5 : Has(PerArr, <<ArrOp[j], a>>)
  <1>1. Len(Arrs) \in Nat
    BY ArrNames
  <1>2. ASSUME NEW n \in 1..(5 * Len(Arrs))
        PROVE  /\ ArrOp[((n - 1) % 5) + 1] \in ArrOps
               /\ Arrs[((n - 1) \div 5) + 1] \in ArrSet
    <2>1. ((n - 1) % 5) + 1 \in 1..5 /\ ((n - 1) \div 5) + 1 \in 1..Len(Arrs)
      <3>1. n - 1 \in Nat /\ n - 1 < 5 * Len(Arrs)
        BY <1>1
      <3> QED
        BY <3>1, InBlocks, <1>1
    <2>2. Arrs[((n - 1) \div 5) + 1] \in ArrSet
      BY <2>1, ArrNames
    <2>3. ArrOp[((n - 1) % 5) + 1] \in ArrOps
      BY <2>1 DEF ArrOp, ArrOps
    <2> QED
      BY <2>2, <2>3
  <1>3. PerArr = [n \in 1..(5 * Len(Arrs)) |->
                    <<ArrOp[((n - 1) % 5) + 1], Arrs[((n - 1) \div 5) + 1]>>]
    BY DEF PerArr, ArrOp
  <1>4. Len(PerArr) = 5 * Len(Arrs)
    BY <1>1, <1>3
  <1>5. PerArr \in Seq(Calls)
    <2>1. ASSUME NEW n \in 1..(5 * Len(Arrs))
          PROVE  <<ArrOp[((n - 1) % 5) + 1], Arrs[((n - 1) \div 5) + 1]>> \in Calls
      BY <1>2 DEF Calls, Names, Ops, ArrOps
    <2>2. 5 * Len(Arrs) \in Nat
      BY <1>1
    <2>3. PerArr \in [1..(5 * Len(Arrs)) -> Calls]
      BY <1>3, <2>1
    <2> QED
      BY <2>2, <2>3, SeqDef
  <1>6. OnlyOps(PerArr, ArrOps)
    BY <1>2, <1>3, <1>4 DEF OnlyOps
  <1>7. ASSUME NEW a \in ArrSet, NEW j \in 1..5
        PROVE  Has(PerArr, <<ArrOp[j], a>>)
    <2>1. PICK m \in 1..Len(Arrs) : Arrs[m] = a
      BY ArrNames
    <2> DEFINE n == 5 * (m - 1) + j
    <2>2. n \in 1..(5 * Len(Arrs)) /\ m - 1 \in Nat /\ j - 1 \in 0..4
      BY <1>1
    <2>3. n - 1 = 5 * (m - 1) + (j - 1)
      BY <1>1
    <2>4. (n - 1) % 5 = j - 1 /\ (n - 1) \div 5 = m - 1
      BY <2>2, <2>3, Blocks
    <2>5. ((n - 1) % 5) + 1 = j /\ ((n - 1) \div 5) + 1 = m
      BY <2>4, <1>1
    <2>6. PerArr[n] = <<ArrOp[j], a>>
      BY <1>3, <2>1, <2>2, <2>5
    <2> HIDE DEF n
    <2> QED
      BY <1>4, <2>2, <2>6 DEF Has
  <1> QED
    BY <1>5, <1>6, <1>7

-----------------------------------------------------------------------------
(* Plan, part by part *)

UpToArrs == Opening \o PerArr
UpToClients == UpToArrs \o ProwlarrClients
UpToApplications == UpToClients \o Each("application", Arrs)
UpToIndexing == UpToApplications \o Indexing
UpToServing == UpToIndexing \o Serving
UpToServers == UpToServing \o Each("server", Managed)
UpToFinishing == UpToServers \o Finishing
UpToLanguages == UpToFinishing \o Each("language", Managed)

OpeningOps == {"gate", "downloader", "preferences", "categories", "sabnzbd"}
ClientOps == {"torrents", "usenet"}
IndexingOps == {"proxy", "indexers", "bazarr"}
ServingOps == {"secret", "restart", "wizard", "posture", "libraries", "login",
               "url", "discovery"}
FinishingOps == {"initialize", "quality"}

LEMMA PlanParts == Plan = UpToLanguages \o Metrics
  BY DEF Plan, UpToLanguages, UpToFinishing, UpToServers, UpToServing, UpToIndexing,
     UpToApplications, UpToClients, UpToArrs

LEMMA WholeCalls ==
  ASSUME NEW S \in SUBSET Ops, NEW ops \in Seq(S), NEW s \in Names
  PROVE  /\ Whole(ops, s) \in Seq(Calls) /\ Len(Whole(ops, s)) = Len(ops)
         /\ OnlyOps(Whole(ops, s), S)
         /\ \A n \in 1..Len(ops) : Whole(ops, s)[n] = <<ops[n], s>>
         /\ \A n \in 1..Len(ops) : Has(Whole(ops, s), <<ops[n], s>>)
  <1>1. /\ Len(ops) \in Nat /\ DOMAIN ops = 1..Len(ops)
        /\ \A n \in 1..Len(ops) : ops[n] \in S
    BY LenProperties, ElementOfSeq
  <1>2. /\ Len(Whole(ops, s)) = Len(ops)
        /\ \A n \in 1..Len(ops) : Whole(ops, s)[n] = <<ops[n], s>>
    BY <1>1 DEF Whole
  <1>3. Whole(ops, s) \in [1..Len(ops) -> Calls]
    BY <1>1 DEF Whole, Calls
  <1>4. Whole(ops, s) \in Seq(Calls)
    BY <1>1, <1>3, SeqDef
  <1> QED
    BY <1>1, <1>2, <1>4 DEF OnlyOps, Has

LEMMA OpeningCalls ==
  /\ Opening \in Seq(Calls) /\ Len(Opening) = 5 /\ OnlyOps(Opening, OpeningOps)
  /\ \A n \in 1..5 : Opening[n] = <<<<"gate", "downloader", "preferences", "categories", "sabnzbd">>[n], "none">>
  /\ \A op \in OpeningOps : Has(Opening, <<op, "none">>)
  <1> DEFINE ops == <<"gate", "downloader", "preferences", "categories", "sabnzbd">>
  <1>1. ops \in Seq(OpeningOps) /\ Len(ops) = 5 /\ OpeningOps \subseteq Ops
    BY DEF Ops, OpeningOps
  <1>2. \A op \in OpeningOps : \E n \in 1..5 : ops[n] = op
    <2>1. ops[1] = "gate" /\ ops[2] = "downloader" /\ ops[3] = "preferences" /\ ops[4] = "categories" /\ ops[5] = "sabnzbd"
      OBVIOUS
    <2> HIDE DEF ops
    <2> QED
      BY <2>1 DEF OpeningOps
  <1>3. Opening = Whole(ops, "none") /\ "none" \in Names
    BY DEF Opening, Names
  <1> HIDE DEF ops
  <1>4. /\ Opening \in Seq(Calls) /\ Len(Opening) = 5 /\ OnlyOps(Opening, OpeningOps)
        /\ \A n \in 1..5 : Opening[n] = <<ops[n], "none">>
        /\ \A op \in OpeningOps : Has(Opening, <<op, "none">>)
    BY <1>1, <1>2, <1>3, WholeCalls
  <1> QED
    BY <1>4 DEF ops

LEMMA ClientCalls ==
  /\ ProwlarrClients \in Seq(Calls) /\ Len(ProwlarrClients) = 2 /\ OnlyOps(ProwlarrClients, ClientOps)
  /\ \A n \in 1..2 : ProwlarrClients[n] = <<<<"torrents", "usenet">>[n], "prowlarr">>
  /\ \A op \in ClientOps : Has(ProwlarrClients, <<op, "prowlarr">>)
  <1> DEFINE ops == <<"torrents", "usenet">>
  <1>1. ops \in Seq(ClientOps) /\ Len(ops) = 2 /\ ClientOps \subseteq Ops
    BY DEF Ops, ClientOps
  <1>2. \A op \in ClientOps : \E n \in 1..2 : ops[n] = op
    <2>1. ops[1] = "torrents" /\ ops[2] = "usenet"
      OBVIOUS
    <2> HIDE DEF ops
    <2> QED
      BY <2>1 DEF ClientOps
  <1>3. ProwlarrClients = Whole(ops, "prowlarr") /\ "prowlarr" \in Names
    BY DEF ProwlarrClients, Names
  <1> HIDE DEF ops
  <1>4. /\ ProwlarrClients \in Seq(Calls) /\ Len(ProwlarrClients) = 2 /\ OnlyOps(ProwlarrClients, ClientOps)
        /\ \A n \in 1..2 : ProwlarrClients[n] = <<ops[n], "prowlarr">>
        /\ \A op \in ClientOps : Has(ProwlarrClients, <<op, "prowlarr">>)
    BY <1>1, <1>2, <1>3, WholeCalls
  <1> QED
    BY <1>4 DEF ops

LEMMA IndexingCalls ==
  /\ Indexing \in Seq(Calls) /\ Len(Indexing) = 3 /\ OnlyOps(Indexing, IndexingOps)
  /\ \A n \in 1..3 : Indexing[n] = <<<<"proxy", "indexers", "bazarr">>[n], "none">>
  /\ \A op \in IndexingOps : Has(Indexing, <<op, "none">>)
  <1> DEFINE ops == <<"proxy", "indexers", "bazarr">>
  <1>1. ops \in Seq(IndexingOps) /\ Len(ops) = 3 /\ IndexingOps \subseteq Ops
    BY DEF Ops, IndexingOps
  <1>2. \A op \in IndexingOps : \E n \in 1..3 : ops[n] = op
    <2>1. ops[1] = "proxy" /\ ops[2] = "indexers" /\ ops[3] = "bazarr"
      OBVIOUS
    <2> HIDE DEF ops
    <2> QED
      BY <2>1 DEF IndexingOps
  <1>3. Indexing = Whole(ops, "none") /\ "none" \in Names
    BY DEF Indexing, Names
  <1> HIDE DEF ops
  <1>4. /\ Indexing \in Seq(Calls) /\ Len(Indexing) = 3 /\ OnlyOps(Indexing, IndexingOps)
        /\ \A n \in 1..3 : Indexing[n] = <<ops[n], "none">>
        /\ \A op \in IndexingOps : Has(Indexing, <<op, "none">>)
    BY <1>1, <1>2, <1>3, WholeCalls
  <1> QED
    BY <1>4 DEF ops

LEMMA ServingCalls ==
  /\ Serving \in Seq(Calls) /\ Len(Serving) = 8 /\ OnlyOps(Serving, ServingOps)
  /\ \A n \in 1..8 : Serving[n] = <<<<"secret", "restart", "wizard", "posture", "libraries", "login", "url", "discovery">>[n], "none">>
  /\ \A op \in ServingOps : Has(Serving, <<op, "none">>)
  <1> DEFINE ops == <<"secret", "restart", "wizard", "posture", "libraries", "login", "url", "discovery">>
  <1>1. ops \in Seq(ServingOps) /\ Len(ops) = 8 /\ ServingOps \subseteq Ops
    BY DEF Ops, ServingOps
  <1>2. \A op \in ServingOps : \E n \in 1..8 : ops[n] = op
    <2>1. ops[1] = "secret" /\ ops[2] = "restart" /\ ops[3] = "wizard" /\ ops[4] = "posture" /\ ops[5] = "libraries" /\ ops[6] = "login" /\ ops[7] = "url" /\ ops[8] = "discovery"
      OBVIOUS
    <2> HIDE DEF ops
    <2> QED
      BY <2>1 DEF ServingOps
  <1>3. Serving = Whole(ops, "none") /\ "none" \in Names
    BY DEF Serving, Names
  <1> HIDE DEF ops
  <1>4. /\ Serving \in Seq(Calls) /\ Len(Serving) = 8 /\ OnlyOps(Serving, ServingOps)
        /\ \A n \in 1..8 : Serving[n] = <<ops[n], "none">>
        /\ \A op \in ServingOps : Has(Serving, <<op, "none">>)
    BY <1>1, <1>2, <1>3, WholeCalls
  <1> QED
    BY <1>4 DEF ops

LEMMA FinishingCalls ==
  /\ Finishing \in Seq(Calls) /\ Len(Finishing) = 2 /\ OnlyOps(Finishing, FinishingOps)
  /\ \A n \in 1..2 : Finishing[n] = <<<<"initialize", "quality">>[n], "none">>
  /\ \A op \in FinishingOps : Has(Finishing, <<op, "none">>)
  <1> DEFINE ops == <<"initialize", "quality">>
  <1>1. ops \in Seq(FinishingOps) /\ Len(ops) = 2 /\ FinishingOps \subseteq Ops
    BY DEF Ops, FinishingOps
  <1>2. \A op \in FinishingOps : \E n \in 1..2 : ops[n] = op
    <2>1. ops[1] = "initialize" /\ ops[2] = "quality"
      OBVIOUS
    <2> HIDE DEF ops
    <2> QED
      BY <2>1 DEF FinishingOps
  <1>3. Finishing = Whole(ops, "none") /\ "none" \in Names
    BY DEF Finishing, Names
  <1> HIDE DEF ops
  <1>4. /\ Finishing \in Seq(Calls) /\ Len(Finishing) = 2 /\ OnlyOps(Finishing, FinishingOps)
        /\ \A n \in 1..2 : Finishing[n] = <<ops[n], "none">>
        /\ \A op \in FinishingOps : Has(Finishing, <<op, "none">>)
    BY <1>1, <1>2, <1>3, WholeCalls
  <1> QED
    BY <1>4 DEF ops

LEMMA MetricsCalls ==
  /\ Metrics \in Seq(Calls) /\ Len(Metrics) = 1 /\ OnlyOps(Metrics, {"metrics"})
  /\ \A n \in 1..1 : Metrics[n] = <<<<"metrics">>[n], "none">>
  /\ \A op \in {"metrics"} : Has(Metrics, <<op, "none">>)
  <1> DEFINE ops == <<"metrics">>
  <1>1. ops \in Seq({"metrics"}) /\ Len(ops) = 1 /\ {"metrics"} \subseteq Ops
    BY DEF Ops
  <1>2. \A op \in {"metrics"} : \E n \in 1..1 : ops[n] = op
    <2>1. ops[1] = "metrics"
      OBVIOUS
    <2> HIDE DEF ops
    <2> QED
      BY <2>1
  <1>3. Metrics = Whole(ops, "none") /\ "none" \in Names
    BY DEF Metrics, Names
  <1> HIDE DEF ops
  <1>4. /\ Metrics \in Seq(Calls) /\ Len(Metrics) = 1 /\ OnlyOps(Metrics, {"metrics"})
        /\ \A n \in 1..1 : Metrics[n] = <<ops[n], "none">>
        /\ \A op \in {"metrics"} : Has(Metrics, <<op, "none">>)
    BY <1>1, <1>2, <1>3, WholeCalls
  <1> QED
    BY <1>4 DEF ops

LEMMA ApplicationCalls ==
  /\ Each("application", Arrs) \in Seq(Calls)
  /\ OnlyOps(Each("application", Arrs), {"application"})
  /\ \A a \in ArrSet : Has(Each("application", Arrs), <<"application", a>>)
  <1>1. Arrs \in Seq(ArrSet) /\ "application" \in Ops
    BY MediaAssumption DEF Ops
  <1> QED
    BY <1>1, EachCalls, ArrNames

LEMMA ManagedCalls ==
  ASSUME NEW op \in {"server", "language"}
  PROVE  /\ Each(op, Managed) \in Seq(Calls) /\ OnlyOps(Each(op, Managed), {op})
         /\ \A a \in ManagedSet : Has(Each(op, Managed), <<op, a>>)
  <1>1. Managed \in Seq(ManagedSet) /\ op \in Ops
    BY MediaAssumption DEF Ops
  <1>2. ManagedSet \in SUBSET ArrSet
    BY ArrNames
  <1> QED
    BY <1>1, <1>2, EachCalls, ArrNames

OpsToApplications == OpeningOps \cup ArrOps \cup ClientOps \cup {"application"}
OpsToServers == OpsToApplications \cup IndexingOps \cup ServingOps \cup {"server"}
OpsToLanguages == OpsToServers \cup FinishingOps \cup {"language"}

LEMMA PartsAreCalls ==
  /\ UpToArrs \in Seq(Calls) /\ OnlyOps(UpToArrs, OpeningOps \cup ArrOps)
  /\ UpToClients \in Seq(Calls)
  /\ UpToApplications \in Seq(Calls) /\ OnlyOps(UpToApplications, OpsToApplications)
  /\ UpToIndexing \in Seq(Calls)
  /\ OnlyOps(UpToIndexing, OpsToApplications \cup IndexingOps)
  /\ UpToServing \in Seq(Calls)
  /\ UpToServers \in Seq(Calls) /\ OnlyOps(UpToServers, OpsToServers)
  /\ UpToFinishing \in Seq(Calls)
  /\ OnlyOps(UpToFinishing, OpsToServers \cup FinishingOps)
  /\ UpToLanguages \in Seq(Calls) /\ OnlyOps(UpToLanguages, OpsToLanguages)
  <1>1. UpToArrs \in Seq(Calls) /\ OnlyOps(UpToArrs, OpeningOps \cup ArrOps)
    BY OpeningCalls, PerArrCalls, Split, OnlyBoth DEF UpToArrs
  <1>2. /\ UpToClients \in Seq(Calls)
        /\ OnlyOps(UpToClients, OpeningOps \cup ArrOps \cup ClientOps)
    BY <1>1, ClientCalls, Split, OnlyBoth DEF UpToClients
  <1>3. /\ UpToApplications \in Seq(Calls)
        /\ OnlyOps(UpToApplications, OpsToApplications)
    BY <1>2, ApplicationCalls, Split, OnlyBoth DEF UpToApplications, OpsToApplications
  <1>4. /\ UpToIndexing \in Seq(Calls)
        /\ OnlyOps(UpToIndexing, OpsToApplications \cup IndexingOps)
    BY <1>3, IndexingCalls, Split, OnlyBoth DEF UpToIndexing
  <1>5. /\ UpToServing \in Seq(Calls)
        /\ OnlyOps(UpToServing, OpsToApplications \cup IndexingOps \cup ServingOps)
    BY <1>4, ServingCalls, Split, OnlyBoth DEF UpToServing
  <1>6. UpToServers \in Seq(Calls) /\ OnlyOps(UpToServers, OpsToServers)
    BY <1>5, ManagedCalls, Split, OnlyBoth DEF UpToServers, OpsToServers
  <1>7. /\ UpToFinishing \in Seq(Calls)
        /\ OnlyOps(UpToFinishing, OpsToServers \cup FinishingOps)
    BY <1>6, FinishingCalls, Split, OnlyBoth DEF UpToFinishing
  <1>8. UpToLanguages \in Seq(Calls) /\ OnlyOps(UpToLanguages, OpsToLanguages)
    BY <1>7, ManagedCalls, Split, OnlyBoth DEF UpToLanguages, OpsToLanguages
  <1> QED
    BY <1>1, <1>2, <1>3, <1>4, <1>5, <1>6, <1>7, <1>8

-----------------------------------------------------------------------------
(* The order of the calls in Plan *)

\* No call of the kind early stands behind one of the kind late.
NeverAfter(seq, late, early) ==
  \A i, j \in 1..Len(seq) : seq[i][1] = early /\ j < i => seq[j][1] # late

LEMMA NeverAfterBoth ==
  ASSUME NEW s \in Seq(Calls), NEW t \in Seq(Calls), NEW late, NEW early, NEW ops,
         NeverAfter(s, late, early), OnlyOps(t, ops), early \notin ops
  PROVE  NeverAfter(s \o t, late, early)
  <1> SUFFICES ASSUME NEW i \in 1..Len(s \o t), NEW j \in 1..Len(s \o t),
                      (s \o t)[i][1] = early, j < i
               PROVE  (s \o t)[j][1] # late
    BY DEF NeverAfter
  <1>1. i \in 1..Len(s)
    BY Split DEF OnlyOps
  <1>2. j \in 1..Len(s)
    BY <1>1, Split
  <1> QED
    BY <1>1, <1>2, Split DEF NeverAfter

LEMMA CallsOfPlan ==
  ASSUME NEW call,
         \/ Has(Opening, call) \/ Has(PerArr, call) \/ Has(ProwlarrClients, call)
         \/ Has(Each("application", Arrs), call) \/ Has(Indexing, call)
         \/ Has(Serving, call) \/ Has(Each("server", Managed), call)
         \/ Has(Finishing, call) \/ Has(Each("language", Managed), call)
  PROVE  Has(UpToLanguages, call)
  <1>1. Has(Opening, call) \/ Has(PerArr, call) => Has(UpToArrs, call)
    BY OpeningCalls, PerArrCalls, HasLeft, HasRight DEF UpToArrs
  <1>2. Has(UpToArrs, call) \/ Has(ProwlarrClients, call) => Has(UpToClients, call)
    BY PartsAreCalls, ClientCalls, HasLeft, HasRight DEF UpToClients
  <1>3. Has(UpToClients, call) \/ Has(Each("application", Arrs), call)
          => Has(UpToApplications, call)
    BY PartsAreCalls, ApplicationCalls, HasLeft, HasRight DEF UpToApplications
  <1>4. Has(UpToApplications, call) \/ Has(Indexing, call) => Has(UpToIndexing, call)
    BY PartsAreCalls, IndexingCalls, HasLeft, HasRight DEF UpToIndexing
  <1>5. Has(UpToIndexing, call) \/ Has(Serving, call) => Has(UpToServing, call)
    BY PartsAreCalls, ServingCalls, HasLeft, HasRight DEF UpToServing
  <1>6. Has(UpToServing, call) \/ Has(Each("server", Managed), call)
          => Has(UpToServers, call)
    BY PartsAreCalls, ManagedCalls, HasLeft, HasRight DEF UpToServers
  <1>7. Has(UpToServers, call) \/ Has(Finishing, call) => Has(UpToFinishing, call)
    BY PartsAreCalls, FinishingCalls, HasLeft, HasRight DEF UpToFinishing
  <1>8. Has(UpToFinishing, call) \/ Has(Each("language", Managed), call)
          => Has(UpToLanguages, call)
    BY PartsAreCalls, ManagedCalls, HasLeft, HasRight DEF UpToLanguages
  <1> QED
    BY <1>1, <1>2, <1>3, <1>4, <1>5, <1>6, <1>7, <1>8

\* The keys have been read before they are used.
LEMMA KeysFirst ==
  ASSUME NEW a \in ArrSet, NEW op \in {"application", "secret", "quality"}
  PROVE  Before(Plan, <<"key", a>>, op)
  <1> DEFINE call == <<"key", a>>
  <1>1. Has(UpToArrs, call)
    <2>1. ArrOp[1] = "key" /\ 1 \in 1..5
      BY DEF ArrOp
    <2>2. Has(PerArr, <<ArrOp[1], a>>)
      BY <2>1, PerArrCalls
    <2>3. Has(PerArr, call)
      BY <2>1, <2>2
    <2> QED
      BY <2>3, OpeningCalls, PerArrCalls, HasRight DEF UpToArrs
  <1>2. Before(UpToArrs, call, op)
    <2>1. op \notin OpeningOps \cup ArrOps
      BY DEF OpeningOps, ArrOps
    <2> QED
      BY <2>1, PartsAreCalls, BeforeFirst
  <1> HIDE DEF call
  <1>3. Has(UpToClients, call) /\ Before(UpToClients, call, op)
    BY <1>1, <1>2, PartsAreCalls, ClientCalls, HasLeft, BeforeBoth DEF UpToClients
  <1>4. Has(UpToApplications, call) /\ Before(UpToApplications, call, op)
    BY <1>3, PartsAreCalls, ApplicationCalls, HasLeft, BeforeBoth DEF UpToApplications
  <1>5. Has(UpToIndexing, call) /\ Before(UpToIndexing, call, op)
    BY <1>4, PartsAreCalls, IndexingCalls, HasLeft, BeforeBoth DEF UpToIndexing
  <1>6. Has(UpToServing, call) /\ Before(UpToServing, call, op)
    BY <1>5, PartsAreCalls, ServingCalls, HasLeft, BeforeBoth DEF UpToServing
  <1>7. Has(UpToServers, call) /\ Before(UpToServers, call, op)
    BY <1>6, PartsAreCalls, ManagedCalls, HasLeft, BeforeBoth DEF UpToServers
  <1>8. Has(UpToFinishing, call) /\ Before(UpToFinishing, call, op)
    BY <1>7, PartsAreCalls, FinishingCalls, HasLeft, BeforeBoth DEF UpToFinishing
  <1>9. Has(UpToLanguages, call) /\ Before(UpToLanguages, call, op)
    BY <1>8, PartsAreCalls, ManagedCalls, HasLeft, BeforeBoth DEF UpToLanguages
  <1>10. Before(Plan, call, op)
    BY <1>9, PartsAreCalls, MetricsCalls, BeforeBoth, PlanParts
  <1> QED
    BY <1>10 DEF call

\* Bazarr is reached before its key is written to the Secret.
LEMMA BazarrFirst ==
  ASSUME NEW op \in {"secret", "quality"}
  PROVE  Before(Plan, <<"bazarr", "none">>, op)
  <1> DEFINE call == <<"bazarr", "none">>
  <1>1. Has(UpToIndexing, call)
    <2>1. Has(Indexing, call)
      BY IndexingCalls DEF IndexingOps
    <2> QED
      BY <2>1, PartsAreCalls, IndexingCalls, HasRight DEF UpToIndexing
  <1>2. Before(UpToIndexing, call, op)
    <2>1. op \notin OpsToApplications \cup IndexingOps
      BY DEF OpsToApplications, OpeningOps, ArrOps, ClientOps, IndexingOps
    <2> QED
      BY <2>1, PartsAreCalls, BeforeFirst
  <1> HIDE DEF call
  <1>3. Has(UpToServing, call) /\ Before(UpToServing, call, op)
    BY <1>1, <1>2, PartsAreCalls, ServingCalls, HasLeft, BeforeBoth DEF UpToServing
  <1>4. Has(UpToServers, call) /\ Before(UpToServers, call, op)
    BY <1>3, PartsAreCalls, ManagedCalls, HasLeft, BeforeBoth DEF UpToServers
  <1>5. Has(UpToFinishing, call) /\ Before(UpToFinishing, call, op)
    BY <1>4, PartsAreCalls, FinishingCalls, HasLeft, BeforeBoth DEF UpToFinishing
  <1>6. Has(UpToLanguages, call) /\ Before(UpToLanguages, call, op)
    BY <1>5, PartsAreCalls, ManagedCalls, HasLeft, BeforeBoth DEF UpToLanguages
  <1>7. Before(Plan, call, op)
    BY <1>6, PartsAreCalls, MetricsCalls, BeforeBoth, PlanParts
  <1> QED
    BY <1>7 DEF call

\* Recyclarr has run before the language preferences that it would undo.
LEMMA QualityFirst == NeverAfter(Plan, "language", "quality")
  <1>1. NeverAfter(UpToFinishing, "language", "quality")
    <2>1. "language" \notin OpsToServers \cup FinishingOps
      BY DEF OpsToServers, OpsToApplications, OpeningOps, ArrOps, ClientOps,
         IndexingOps, ServingOps, FinishingOps
    <2> QED
      BY <2>1, PartsAreCalls DEF NeverAfter, OnlyOps
  <1>2. NeverAfter(UpToLanguages, "language", "quality")
    <2>1. /\ UpToFinishing \in Seq(Calls) /\ Each("language", Managed) \in Seq(Calls)
          /\ OnlyOps(Each("language", Managed), {"language"})
          /\ "quality" \notin {"language"}
      BY PartsAreCalls, ManagedCalls
    <2> QED
      BY <1>1, <2>1, NeverAfterBoth DEF UpToLanguages
  <1>3. "quality" \notin {"metrics"}
    OBVIOUS
  <1> QED
    BY <1>2, <1>3, PartsAreCalls, MetricsCalls, NeverAfterBoth, PlanParts

LEMMA PlanType ==
  /\ Plan \in Seq(Calls) /\ Len(Plan) \in Nat /\ Len(Plan) = Len(UpToLanguages) + 1
  /\ Len(UpToLanguages) \in Nat
  /\ \A k \in 1..Len(UpToLanguages) : Plan[k] = UpToLanguages[k]
  /\ \A k \in 1..Len(Plan) : Plan[k] \in Calls
  <1>1. /\ Plan \in Seq(Calls) /\ Len(Plan) = Len(UpToLanguages) + 1
        /\ Len(UpToLanguages) \in Nat
        /\ \A k \in 1..Len(UpToLanguages) : Plan[k] = UpToLanguages[k]
    <2>1. /\ UpToLanguages \in Seq(Calls)
          /\ Metrics \in Seq(Calls) /\ Len(Metrics) = 1
      BY PartsAreCalls, MetricsCalls
    <2>2. /\ UpToLanguages \o Metrics \in Seq(Calls)
          /\ Len(UpToLanguages \o Metrics) = Len(UpToLanguages) + Len(Metrics)
          /\ Len(UpToLanguages) \in Nat
      BY <2>1, Split
    <2>3. \A k \in 1..Len(UpToLanguages) :
            (UpToLanguages \o Metrics)[k] = UpToLanguages[k]
      BY <2>1, Split
    <2> QED
      BY <2>1, <2>2, <2>3, PlanParts
  <1> QED
    BY <1>1, ElementOfSeq

\* The metrics are looked at when all the rest has been done.
LEMMA MetricsLast ==
  ASSUME NEW k \in 1..Len(Plan)
  PROVE  Plan[k][1] = "metrics" <=> k = Len(Plan)
  <1>1. CASE k \in 1..Len(UpToLanguages)
    <2>1. "metrics" \notin OpsToLanguages
      BY DEF OpsToLanguages, OpsToServers, OpsToApplications, OpeningOps, ArrOps,
         ClientOps, IndexingOps, ServingOps, FinishingOps
    <2>2. Plan[k][1] \in OpsToLanguages
      BY <1>1, PlanType, PartsAreCalls DEF OnlyOps
    <2> QED
      BY <1>1, <2>1, <2>2, PlanType
  <1>2. CASE k = Len(UpToLanguages) + 1
    <2>1. /\ UpToLanguages \in Seq(Calls) /\ OnlyOps(Metrics, {"metrics"})
          /\ Metrics \in Seq(Calls) /\ Len(Metrics) = 1
      BY PartsAreCalls, MetricsCalls
    <2>2. (UpToLanguages \o Metrics)[Len(UpToLanguages) + 1] = Metrics[1]
      <3>1. 1 \in 1..Len(Metrics)
        BY <2>1
      <3> QED
        BY <2>1, <3>1, Split
    <2>3. Metrics[1][1] = "metrics"
      BY <2>1 DEF OnlyOps
    <2>4. Plan[k][1] = "metrics"
      BY <1>2, <2>2, <2>3, PlanParts
    <2> QED
      BY <1>2, <2>4, PlanType
  <1> QED
    BY <1>1, <1>2, PlanType

\* Whatever else is to be done comes before them.
LEMMA DoneBeforeMetrics ==
  ASSUME NEW call, Has(UpToLanguages, call)
  PROVE  \E k \in 1..(Len(Plan) - 1) : Plan[k] = call
  BY PlanType DEF Has

GateIsFirst(seq) == \A k \in 1..Len(seq) : seq[k][1] = "gate" => k = 1

LEMMA GateFirstBoth ==
  ASSUME NEW s \in Seq(Calls), NEW t \in Seq(Calls), NEW ops,
         GateIsFirst(s), OnlyOps(t, ops), "gate" \notin ops
  PROVE  GateIsFirst(s \o t)
  <1> SUFFICES ASSUME NEW i \in 1..Len(s \o t), (s \o t)[i][1] = "gate"
               PROVE  i = 1
    BY DEF GateIsFirst
  <1>1. i \in 1..Len(s)
    BY Split DEF OnlyOps
  <1> QED
    BY <1>1, Split DEF GateIsFirst

\* The rollouts are waited for, and the keys read, before anything else.
LEMMA GateFirst == GateIsFirst(Plan) /\ Plan[1] = <<"gate", "none">>
  <1>1. GateIsFirst(Opening) /\ Opening[1] = <<"gate", "none">>
    <2> DEFINE ops == <<"gate", "downloader", "preferences", "categories", "sabnzbd">>
    <2>1. ops[1] = "gate" /\ \A k \in 1..5 : ops[k] = "gate" => k = 1
      OBVIOUS
    <2>2. Len(Opening) = 5 /\ \A k \in 1..5 : Opening[k] = <<ops[k], "none">>
      BY OpeningCalls
    <2> HIDE DEF ops
    <2>3. ASSUME NEW k \in 1..5
          PROVE  Opening[k][1] = ops[k]
      <3>1. Opening[k] = <<ops[k], "none">>
        BY <2>2
      <3> QED
        BY <3>1
    <2>4. GateIsFirst(Opening)
      BY <2>1, <2>2, <2>3 DEF GateIsFirst
    <2> QED
      BY <2>1, <2>2, <2>4
  <1>2. GateIsFirst(UpToArrs)
    <2>1. "gate" \notin ArrOps
      BY DEF ArrOps
    <2> QED
      BY <1>1, <2>1, OpeningCalls, PerArrCalls, GateFirstBoth DEF UpToArrs
  <1>3. GateIsFirst(UpToClients)
    <2>1. "gate" \notin ClientOps
      BY DEF ClientOps
    <2> QED
      BY <1>2, <2>1, PartsAreCalls, ClientCalls, GateFirstBoth DEF UpToClients
  <1>4. GateIsFirst(UpToApplications)
    <2>1. "gate" \notin {"application"}
      OBVIOUS
    <2> QED
      BY <1>3, <2>1, PartsAreCalls, ApplicationCalls, GateFirstBoth DEF UpToApplications
  <1>5. GateIsFirst(UpToIndexing)
    <2>1. "gate" \notin IndexingOps
      BY DEF IndexingOps
    <2> QED
      BY <1>4, <2>1, PartsAreCalls, IndexingCalls, GateFirstBoth DEF UpToIndexing
  <1>6. GateIsFirst(UpToServing)
    <2>1. "gate" \notin ServingOps
      BY DEF ServingOps
    <2> QED
      BY <1>5, <2>1, PartsAreCalls, ServingCalls, GateFirstBoth DEF UpToServing
  <1>7. GateIsFirst(UpToServers)
    <2>1. "gate" \notin {"server"}
      OBVIOUS
    <2> QED
      BY <1>6, <2>1, PartsAreCalls, ManagedCalls, GateFirstBoth DEF UpToServers
  <1>8. GateIsFirst(UpToFinishing)
    <2>1. "gate" \notin FinishingOps
      BY DEF FinishingOps
    <2> QED
      BY <1>7, <2>1, PartsAreCalls, FinishingCalls, GateFirstBoth DEF UpToFinishing
  <1>9. GateIsFirst(UpToLanguages)
    <2>1. "gate" \notin {"language"}
      OBVIOUS
    <2> QED
      BY <1>8, <2>1, PartsAreCalls, ManagedCalls, GateFirstBoth DEF UpToLanguages
  <1>10. GateIsFirst(Plan)
    <2>1. "gate" \notin {"metrics"}
      OBVIOUS
    <2> QED
      BY <1>9, <2>1, PartsAreCalls, MetricsCalls, GateFirstBoth, PlanParts
  <1>11. Plan[1] = <<"gate", "none">>
    <2>1. Has(Opening, <<"gate", "none">>)
      BY OpeningCalls DEF OpeningOps
    <2>2. Has(UpToLanguages, <<"gate", "none">>)
      BY <2>1, CallsOfPlan
    <2>3. PICK k \in 1..(Len(Plan) - 1) : Plan[k] = <<"gate", "none">>
      BY <2>2, DoneBeforeMetrics
    <2>4. k \in 1..Len(Plan)
      BY PlanType
    <2>5. Plan[k][1] = "gate"
      BY <2>3
    <2>6. k = 1
      BY <1>10, <2>4, <2>5 DEF GateIsFirst
    <2> QED
      BY <2>3, <2>6
  <1> QED
    BY <1>10, <1>11

-----------------------------------------------------------------------------
(* The inductive invariant *)

Credentials == 0..(MaxMediaFaults + 1)
AllSettings == UNION {Settings(s) : s \in Services}
Integration == [own : 0..1, manual : BOOLEAN, key : Credentials]
MediaState == [at : 0..Len(Plan), held : [Keyed -> Credentials],
               snapshot : BOOLEAN,
               verdict : {"new", "running", "ok", "vpn", "failed"}]

\* Nobody has added a server to Seerr by hand, and an integration made by hand
\* is gone where there is a managed one.
MediaType ==
  /\ key \in [Keyed -> Credentials] /\ \A s \in Keyed : key[s] \in 1..(mediaFaults + 1)
  /\ config \in [Services -> SUBSET AllSettings]
  /\ \A s \in Services : config[s] \subseteq Settings(s)
  /\ link \in [Links -> Integration]
  /\ \A l \in Links : l[1] = "seerr" => ~link[l].manual
  /\ \A l \in Links : link[l].own = 1 => ~link[l].manual
  /\ secret \in [SecretKeys -> Credentials]
  /\ exporter \in [Exporters -> Credentials]
  /\ downloader \in {"starting", "blocked", "ready"}
  /\ token \in {"none", "good", "stale"}
  /\ media \in MediaState
  /\ touched \in BOOLEAN /\ mediaFaults \in 0..MaxMediaFaults

LinkOK(l) ==
  link[l].own = 1 /\ (l[1] # "seerr" /\ l[2] \in Keyed => link[l].key = key[l[2]])

\* What each call of Plan leaves behind.
DidSettings(op, s) ==
  /\ op = "preferences" => "preferences" \in config["qbittorrent"]
  /\ op = "categories" => "categories" \in config["qbittorrent"]
  /\ op = "sabnzbd" => "bootstrap" \in config["sabnzbd"]
  /\ op \in {"folder", "common"} /\ s \in ArrSet => op \in config[s]
  /\ op = "language" /\ s \in ManagedSet => "language" \in config[s]
  /\ op = "proxy" => "tag" \in config["prowlarr"] /\ "proxy" \in config["prowlarr"]
  /\ op = "indexers" => "indexers" \in config["prowlarr"]
  /\ op = "bazarr" => "settings" \in config["bazarr"] /\ "auth" \in config["bazarr"]
  /\ op = "wizard" => "admin" \in config["jellyfin"]
  /\ op = "posture" => "posture" \in config["jellyfin"]
  /\ op = "libraries" => Libraries \subseteq config["jellyfin"]
  /\ op = "login" => "server" \in config["seerr"]
  /\ op = "url" => "url" \in config["seerr"]
  /\ op = "discovery" => "libraries" \in config["seerr"]
  /\ op = "initialize" => "initialized" \in config["seerr"]
  /\ op = "quality" => \A a \in ManagedSet : "profile" \in config[a]

DidKeys(op, s) ==
  /\ op = "gate" => \A x \in Keyed \ (Late \cup {"bazarr"}) : held[x] = key[x]
  /\ op = "key" /\ s \in ArrSet => held[s] = key[s]
  /\ op = "bazarr" => held["bazarr"] = key["bazarr"]
  /\ op = "secret" => \A x \in SecretKeys : secret[x] = key[x]

DidLinks(op, s) ==
  /\ op = "torrents" /\ s \in ArrSet \cup {"prowlarr"} => LinkOK(<<s, "qbittorrent">>)
  /\ op = "usenet" /\ s \in ArrSet \cup {"prowlarr"} => LinkOK(<<s, "sabnzbd">>)
  /\ op = "application" /\ s \in ArrSet => LinkOK(<<"prowlarr", s>>)
  /\ op = "bazarr" => \A a \in ManagedSet : LinkOK(<<"bazarr", a>>)
  /\ op = "server" /\ s \in ManagedSet => LinkOK(<<"seerr", s>>)

Did(op, s) == DidSettings(op, s) /\ DidKeys(op, s) /\ DidLinks(op, s)

\* Everything before the present call has been done, and is still so unless
\* something was lost.
Progress ==
  ~touched => \A k \in 1..(media.at - 1) : Did(Plan[k][1], Plan[k][2])

Outcome == media.verdict = "ok" => media.at = 0 /\ (~touched => Wired)

MediaInv == MediaType /\ Progress /\ Outcome

-----------------------------------------------------------------------------
(* Names, settings and links *)

LEMMA ServiceNames ==
  /\ ManagedSet \subseteq ArrSet /\ ArrSet \subseteq Keyed /\ Keyed \subseteq Services
  /\ {"sabnzbd", "prowlarr", "bazarr"} \subseteq Keyed
  /\ {"qbittorrent", "jellyfin", "seerr"} \subseteq Services
  /\ "qbittorrent" \notin Keyed /\ "jellyfin" \notin Keyed /\ "seerr" \notin Keyed
  /\ "bazarr" \notin ArrSet /\ "sabnzbd" \notin ArrSet /\ "prowlarr" \notin ArrSet
  /\ SecretKeys \subseteq Keyed /\ Exporters \subseteq SecretKeys
  /\ \A a \in ManagedSet : a \notin Late
  BY ArrNames, MediaAssumption DEF Keyed, Services, SecretKeys, Exporters

LEMMA SettingsOf ==
  /\ \A a \in ManagedSet : Settings(a) = {"folder", "common", "profile", "language"}
  /\ \A a \in ArrSet \ ManagedSet : Settings(a) = {"folder", "common"}
  /\ Settings("qbittorrent") = {"preferences", "categories"}
  /\ Settings("sabnzbd") = {"bootstrap"}
  /\ Settings("prowlarr") = {"tag", "proxy", "indexers"}
  /\ Settings("bazarr") = {"settings", "auth"}
  /\ Settings("jellyfin") = {"admin", "posture"} \cup Libraries
  /\ Settings("seerr") = {"server", "url", "libraries", "initialized"}
  <1>1. \A x \in {"qbittorrent", "sabnzbd", "prowlarr", "bazarr", "jellyfin", "seerr"} :
          x \notin ArrSet /\ x \notin ManagedSet
    BY ArrNames, MediaAssumption
  <1>2. \A a \in ManagedSet : Settings(a) = {"folder", "common", "profile", "language"}
    BY <1>1 DEF Settings
  <1>3. \A a \in ArrSet \ ManagedSet : Settings(a) = {"folder", "common"}
    BY <1>1 DEF Settings
  <1>4. Settings("qbittorrent") = {"preferences", "categories"}
    BY <1>1 DEF Settings
  <1>5. Settings("sabnzbd") = {"bootstrap"}
    BY <1>1 DEF Settings
  <1>6. Settings("prowlarr") = {"tag", "proxy", "indexers"}
    BY <1>1 DEF Settings
  <1>7. Settings("bazarr") = {"settings", "auth"}
    BY <1>1 DEF Settings
  <1>8. Settings("jellyfin") = {"admin", "posture"} \cup Libraries
    BY <1>1 DEF Settings
  <1>9. Settings("seerr") = {"server", "url", "libraries", "initialized"}
    BY <1>1 DEF Settings
  <1> QED
    BY <1>2, <1>3, <1>4, <1>5, <1>6, <1>7, <1>8, <1>9

LEMMA LinkNames ==
  /\ \A c \in ArrSet \cup {"prowlarr"} :
       <<c, "qbittorrent">> \in Links /\ <<c, "sabnzbd">> \in Links
  /\ \A a \in ArrSet : <<"prowlarr", a>> \in Links
  /\ \A a \in ManagedSet : <<"bazarr", a>> \in Links /\ <<"seerr", a>> \in Links
  BY DEF Links

LEMMA StoppedType ==
  ASSUME NEW v \in {"new", "running", "ok", "vpn", "failed"}
  PROVE  Stopped(v) \in MediaState
  <1>1. 0 \in Credentials
    BY MediaAssumption DEF Credentials
  <1>2. NoKeys \in [Keyed -> Credentials]
    BY <1>1 DEF NoKeys
  <1>3. 0 \in 0..Len(Plan)
    BY PlanType
  <1> QED
    BY <1>2, <1>3 DEF Stopped, MediaState

LEMMA MediaFaultType ==
  ASSUME mediaFaults \in 0..MaxMediaFaults, MediaFault \/ UNCHANGED mediaFaults
  PROVE  mediaFaults' \in 0..MaxMediaFaults /\ mediaFaults' >= mediaFaults
  BY MediaAssumption DEF MediaFault

-----------------------------------------------------------------------------
(* What one call does *)

\* What was done stays done, but for what Recyclarr undoes.
Keeps(op) ==
  /\ key' = key
  /\ \A s \in Services : \A x \in config[s] :
       x \in config'[s] \/ (op = "quality" /\ x = "language" /\ s \in ManagedSet)
  /\ \A x \in Keyed : held[x] = key[x] => media'.held[x] = key[x]
  /\ \A x \in SecretKeys : secret[x] = key[x] => secret'[x] = key[x]
  /\ \A l \in Links : LinkOK(l) => LinkOK(l)'

LEMMA DidKept ==
  ASSUME NEW op, NEW o, NEW s, Keeps(op), Did(o, s), op = "quality" => o # "language"
  PROVE  Did(o, s)'
  <1>1. DidSettings(o, s)'
    <2>1. \A t \in Services : \A x \in config[t] : x # "language" => x \in config'[t]
      BY DEF Keeps
    <2>2. o = "language" => \A t \in Services : config[t] \subseteq config'[t]
      BY DEF Keeps
    <2>3. \A t \in Services \ ManagedSet : config[t] \subseteq config'[t]
      BY DEF Keeps
    <2>4. Libraries \subseteq config["jellyfin"] => Libraries \subseteq config'["jellyfin"]
      BY <2>3, ServiceNames
    <2> QED
      BY <2>1, <2>2, <2>4, ServiceNames DEF Did, DidSettings
  <1>2. DidKeys(o, s)'
    BY ServiceNames DEF Did, DidKeys, Keeps, held
  <1>3. DidLinks(o, s)'
    BY LinkNames DEF Did, DidLinks, Keeps
  <1> QED
    BY <1>1, <1>2, <1>3 DEF Did

Advances(op, s) ==
  /\ MediaType' /\ touched' = touched /\ media'.verdict # "ok"
  /\ \/ media'.at = 0
     \/ media'.at = media.at + 1 /\ (~touched => Keeps(op) /\ Did(op, s)')

LEMMA NowDoing ==
  ASSUME MediaInv, NEW op, NEW s, Doing(op, s)
  PROVE  /\ media.at \in 1..Len(Plan) /\ Plan[media.at] = <<op, s>>
         /\ media.verdict # "ok"
         /\ op # "metrics" => media.at + 1 \in 1..Len(Plan)
  <1>1. media.at \in 1..Len(Plan) /\ Plan[media.at] = <<op, s>>
    BY PlanType DEF MediaInv, MediaType, MediaState, Doing
  <1>2. media.verdict # "ok"
    BY <1>1, PlanType DEF MediaInv, Outcome
  <1>3. Plan[media.at][1] = op
    BY <1>1
  <1>4. op # "metrics" => media.at # Len(Plan)
    BY <1>1, <1>3, MetricsLast
  <1> QED
    BY <1>1, <1>2, <1>4, PlanType

LEMMA AdvancesOK ==
  ASSUME MediaInv, NEW op, NEW s, Doing(op, s), Advances(op, s)
  PROVE  MediaInv'
  <1>1. Progress'
    <2>1. CASE media'.at = 0
      BY <2>1 DEF Progress
    <2>2. CASE media'.at = media.at + 1 /\ (~touched => Keeps(op) /\ Did(op, s)')
      <3> SUFFICES ASSUME ~touched, NEW k \in 1..media.at
                   PROVE  Did(Plan[k][1], Plan[k][2])'
        BY <2>2, NowDoing, PlanType DEF Progress, Advances
      <3>1. CASE k = media.at
        <4>1. Plan[k][1] = op /\ Plan[k][2] = s
          BY <3>1, NowDoing
        <4> QED
          BY <2>2, <4>1
      <3>2. CASE k # media.at
        <4>1. k \in 1..(media.at - 1) /\ k \in 1..Len(Plan) /\ media.at \in 1..Len(Plan)
          BY <3>2, NowDoing, PlanType
        <4>2. Did(Plan[k][1], Plan[k][2])
          BY <4>1 DEF MediaInv, Progress
        <4>3. op = "quality" => Plan[k][1] # "language"
          <5>1. Plan[media.at][1] = op
            BY NowDoing
          <5>2. k < media.at
            BY <4>1, PlanType
          <5> QED
            BY <4>1, <5>1, <5>2, QualityFirst DEF NeverAfter
        <4> QED
          BY <2>2, <4>2, <4>3, DidKept
      <3> QED
        BY <3>1, <3>2
    <2> QED
      BY <2>1, <2>2 DEF Advances
  <1> QED
    BY <1>1 DEF MediaInv, Outcome, Advances

\* A call that fails changes what it had reached, and ends the run.
LEMMA FailsOK ==
  ASSUME MediaType, NEW op, NEW s, Fail \/ media' = Stopped("vpn"), touched' = touched,
         media' \in MediaState => MediaType'
  PROVE  Advances(op, s)
  <1>1. media' \in MediaState /\ media'.at = 0 /\ media'.verdict # "ok"
    <2>1. CASE Fail
      BY <2>1, StoppedType DEF Fail, Stopped
    <2>2. CASE media' = Stopped("vpn")
      BY <2>2, StoppedType DEF Stopped
    <2> QED
      BY <2>1, <2>2
  <1> QED
    BY <1>1 DEF Advances

LEMMA GoOnType ==
  ASSUME MediaInv, NEW op, NEW s, Doing(op, s), op # "metrics", GoOn
  PROVE  /\ media' \in MediaState /\ media'.at = media.at + 1
         /\ media'.held = media.held /\ media'.verdict # "ok"
  <1>1. media \in MediaState
    BY DEF MediaInv, MediaType
  <1>2. media.at + 1 \in 0..Len(Plan) /\ media.verdict # "ok"
    BY NowDoing, PlanType
  <1>3. media' = [media EXCEPT !.at = media.at + 1]
    BY DEF GoOn
  <1> QED
    BY <1>1, <1>2, <1>3 DEF MediaState

LEMMA RefusedOK ==
  ASSUME MediaInv, NEW op, NEW x, NEW s, Refused(s)
  PROVE  Advances(op, x)
  <1>1. media' \in MediaState => MediaType'
    BY DEF MediaInv, MediaType, Refused, stack
  <1>2. touched' = touched /\ Fail /\ MediaType
    BY DEF Refused, MediaInv
  <1> QED
    BY <1>1, <1>2, FailsOK

\* The settings that a call sends.
LEMMA ConfigType ==
  ASSUME MediaType, NEW s \in Services, NEW want \in SUBSET Settings(s),
         config' = [config EXCEPT ![s] = @ \cup want]
  PROVE  /\ config' \in [Services -> SUBSET AllSettings]
         /\ \A t \in Services : config'[t] \subseteq Settings(t)
         /\ \A t \in Services : config[t] \subseteq config'[t]
         /\ want \subseteq config'[s]
  <1>1. want \subseteq AllSettings
    BY DEF AllSettings
  <1> QED
    BY <1>1 DEF MediaType

LEMMA ConfigureOK ==
  ASSUME MediaInv, NEW op, NEW x, Doing(op, x), op # "metrics",
         NEW s \in Services, NEW want \in SUBSET Settings(s), Configure(s, want),
         want \subseteq config'[s] => Did(op, x)'
  PROVE  Advances(op, x)
  <1>1. CASE Refused(s)
    BY <1>1, RefusedOK
  <1>2. CASE /\ config' = [config EXCEPT ![s] = @ \cup want]
             /\ GoOn /\ UNCHANGED mediaFaults
             /\ UNCHANGED <<key, link, secret, exporter, downloader, token, touched>>
    <2>1. /\ config' \in [Services -> SUBSET AllSettings]
          /\ \A t \in Services : config'[t] \subseteq Settings(t)
          /\ \A t \in Services : config[t] \subseteq config'[t]
          /\ want \subseteq config'[s]
      BY <1>2, ConfigType DEF MediaInv
    <2>2. /\ media' \in MediaState /\ media'.at = media.at + 1
          /\ media'.held = media.held /\ media'.verdict # "ok"
      BY <1>2, GoOnType
    <2>3. MediaType'
      BY <1>2, <2>1, <2>2 DEF MediaInv, MediaType
    <2>4. Keeps(op)
      BY <1>2, <2>1, <2>2 DEF Keeps, LinkOK, held
    <2> QED
      BY <1>2, <2>1, <2>2, <2>3, <2>4 DEF Advances
  <1>3. CASE /\ \E part \in SUBSET want : config' = [config EXCEPT ![s] = @ \cup part]
             /\ Fail /\ MediaFault
             /\ UNCHANGED <<key, link, secret, exporter, downloader, token, touched>>
    <2>1. PICK part \in SUBSET want : config' = [config EXCEPT ![s] = @ \cup part]
      BY <1>3
    <2>2. /\ config' \in [Services -> SUBSET AllSettings]
          /\ \A t \in Services : config'[t] \subseteq Settings(t)
      BY <2>1, ConfigType DEF MediaInv
    <2>3. mediaFaults' \in 0..MaxMediaFaults /\ mediaFaults' >= mediaFaults
      BY <1>3, MediaFaultType DEF MediaInv, MediaType
    <2>4. key' \in [Keyed -> Credentials] /\ \A t \in Keyed : key'[t] \in 1..(mediaFaults' + 1)
      BY <1>3, <2>3 DEF MediaInv, MediaType
    <2>5. media' \in MediaState => MediaType'
      BY <1>3, <2>2, <2>3, <2>4 DEF MediaInv, MediaType
    <2> QED
      BY <1>3, <2>5, FailsOK DEF MediaInv
  <1> QED
    BY <1>1, <1>2, <1>3 DEF Configure

LEMMA SavedOnce ==
  ASSUME NEW e \in Integration, NEW k \in Credentials, e.own = 1 => ~e.manual
  PROVE  /\ Saved(e, k) \in Integration /\ Saved(e, k).own = 1 /\ Saved(e, k).key = k
         /\ ~Saved(e, k).manual
  <1>1. CASE Found(e)
    <2> DEFINE m == e.manual /\ e.own > 0
    <2>1. m = FALSE
      BY DEF Integration
    <2>2. Saved(e, k) = [own |-> 1, manual |-> m, key |-> k]
      BY <1>1 DEF Saved
    <2> HIDE DEF m
    <2>3. Saved(e, k) = [own |-> 1, manual |-> FALSE, key |-> k]
      BY <2>1, <2>2
    <2> QED
      BY <2>3 DEF Integration
  <1>2. CASE ~Found(e)
    <2>1. e.own = 0 /\ ~e.manual
      BY <1>2 DEF Found, Integration
    <2> DEFINE n == IF e.own < 2 THEN e.own + 1 ELSE e.own
    <2>2. n = 1
      BY <2>1
    <2>3. Saved(e, k) = [e EXCEPT !.own = n, !.key = k]
      BY <1>2 DEF Saved
    <2> HIDE DEF n
    <2>4. Saved(e, k) \in Integration
      <3>1. n \in 0..1
        BY <2>2
      <3>2. [e EXCEPT !.own = n] \in Integration
        BY <3>1 DEF Integration
      <3>3. Saved(e, k) = [[e EXCEPT !.own = n] EXCEPT !.key = k]
        BY <2>3 DEF Integration
      <3> QED
        BY <3>2, <3>3 DEF Integration
    <2>5. Saved(e, k).own = 1 /\ Saved(e, k).key = k
      BY <2>2, <2>3 DEF Integration
    <2>6. Saved(e, k).manual = e.manual
      BY <2>3 DEF Integration
    <2> QED
      BY <2>1, <2>4, <2>5, <2>6
  <1> QED
    BY <1>1, <1>2

LEMMA WireOK ==
  ASSUME MediaInv, NEW op, NEW x, Doing(op, x), op # "metrics",
         NEW c, NEW s, <<c, s>> \in Links, NEW k \in Credentials, Wire(c, s, k),
         ~touched /\ c # "seerr" /\ s \in Keyed => k = key[s],
         LinkOK(<<c, s>>)' => Did(op, x)'
  PROVE  Advances(op, x)
  <1> DEFINE here == <<c, s>>
  <1>1. link \in [Links -> Integration] /\ here \in Links /\ here[1] = c /\ here[2] = s
    BY DEF MediaInv, MediaType
  <1>2. link' = [link EXCEPT ![here] = Saved(link[here], k)]
    BY DEF Wire
  <1> HIDE DEF here
  <1>3. /\ link' \in [Links -> Integration]
        /\ \A l \in Links : l # here => link'[l] = link[l]
        /\ link'[here].own = 1 /\ link'[here].key = k
        /\ ~link'[here].manual
    <2>1. link[here].own = 1 => ~link[here].manual
      BY <1>1 DEF MediaInv, MediaType
    <2> QED
      BY <1>1, <1>2, <2>1, SavedOnce
  <1>4. /\ \A l \in Links : l[1] = "seerr" => ~link'[l].manual
        /\ \A l \in Links : link'[l].own = 1 => ~link'[l].manual
    BY <1>1, <1>3 DEF MediaInv, MediaType
  <1>5. UNCHANGED <<key, config, secret, exporter, downloader, token, touched>>
    BY DEF Wire
  <1>6. CASE GoOn /\ UNCHANGED mediaFaults
    <2>1. /\ media' \in MediaState /\ media'.at = media.at + 1
          /\ media'.held = media.held /\ media'.verdict # "ok"
      BY <1>6, GoOnType
    <2>2. MediaType'
      BY <1>3, <1>4, <1>5, <1>6, <2>1 DEF MediaInv, MediaType
    <2>3. ~touched => LinkOK(here)'
      BY <1>1, <1>3, <1>5 DEF LinkOK
    <2>4. ~touched => \A l \in Links : LinkOK(l) => LinkOK(l)'
      BY <1>3, <1>5, <2>3 DEF LinkOK
    <2>5. ~touched => Keeps(op)
      BY <1>5, <2>1, <2>4 DEF Keeps, held
    <2>6. ~touched => Did(op, x)'
      BY <2>3 DEF here
    <2> QED
      BY <1>5, <2>1, <2>2, <2>5, <2>6 DEF Advances
  <1>7. CASE Fail /\ MediaFault
    <2>1. mediaFaults' \in 0..MaxMediaFaults /\ mediaFaults' >= mediaFaults
      BY <1>7, MediaFaultType DEF MediaInv, MediaType
    <2>2. key' \in [Keyed -> Credentials] /\ \A t \in Keyed : key'[t] \in 1..(mediaFaults' + 1)
      BY <1>5, <2>1 DEF MediaInv, MediaType
    <2>3. media' \in MediaState => MediaType'
      BY <1>3, <1>4, <1>5, <2>1, <2>2 DEF MediaInv, MediaType
    <2> QED
      BY <1>5, <1>7, <2>3, FailsOK DEF MediaInv
  <1> QED
    BY <1>6, <1>7 DEF Wire

-----------------------------------------------------------------------------
(* What is known before a call *)

LEMMA DoneBefore ==
  ASSUME MediaInv, NEW op, NEW x, Doing(op, x), ~touched,
         NEW call, NEW o, NEW s, call = <<o, s>>, Before(Plan, call, op)
  PROVE  Did(o, s)
  <1>1. media.at \in 1..Len(Plan) /\ Plan[media.at][1] = op
    BY NowDoing
  <1>2. PICK j \in 1..(media.at - 1) : Plan[j] = call
    BY <1>1 DEF Before
  <1>3. Plan[j][1] = o /\ Plan[j][2] = s
    BY <1>2
  <1> QED
    BY <1>2, <1>3 DEF MediaInv, Progress

LEMMA GateDone ==
  ASSUME MediaInv, NEW op, NEW x, Doing(op, x), ~touched, op # "gate"
  PROVE  \A s \in Keyed \ (Late \cup {"bazarr"}) : held[s] = key[s]
  <1>1. media.at \in 1..Len(Plan) /\ Plan[media.at][1] = op
    BY NowDoing
  <1>2. Plan[1][1] = "gate"
    BY GateFirst
  <1>3. media.at # 1
    BY <1>1, <1>2
  <1>4. 1 \in 1..(media.at - 1)
    BY <1>1, <1>3, PlanType
  <1>5. Did(Plan[1][1], Plan[1][2])
    BY <1>4 DEF MediaInv, Progress
  <1> QED
    BY <1>2, <1>5 DEF Did, DidKeys

LEMMA KeysKnown ==
  ASSUME MediaInv, NEW op \in {"application", "secret", "quality"}, NEW x,
         Doing(op, x), ~touched, NEW a \in ArrSet
  PROVE  held[a] = key[a]
  <1>1. Did("key", a)
    BY KeysFirst, DoneBefore
  <1> QED
    BY <1>1 DEF Did, DidKeys

LEMMA AllKeysKnown ==
  ASSUME MediaInv, NEW op \in {"secret", "quality"}, NEW x, Doing(op, x), ~touched
  PROVE  \A s \in SecretKeys : held[s] = key[s]
  <1>1. \A a \in ArrSet : held[a] = key[a]
    BY KeysKnown
  <1>2. held["bazarr"] = key["bazarr"]
    <2>1. Did("bazarr", "none")
      BY BazarrFirst, DoneBefore
    <2> QED
      BY <2>1 DEF Did, DidKeys
  <1>3. held["sabnzbd"] = key["sabnzbd"]
    BY GateDone, ServiceNames, MediaAssumption
  <1> QED
    BY <1>1, <1>2, <1>3 DEF SecretKeys

-----------------------------------------------------------------------------
(* The downloaders and the ARR applications *)

LEMMA DownloaderSteps ==
  ASSUME MediaInv, DownloaderGate \/ QbittorrentPreferences \/ QbittorrentCategories
                     \/ SabnzbdBootstrap
  PROVE  MediaInv'
  <1>1. CASE DownloaderGate
    <2>1. Doing("downloader", "none") /\ touched' = touched
      BY <1>1 DEF DownloaderGate
    <2>2. media' \in MediaState => MediaType'
      BY <1>1 DEF DownloaderGate, MediaInv, MediaType, stack
    <2>3. Advances("downloader", "none")
      <3>1. CASE GoOn
        <4>1. /\ media' \in MediaState /\ media'.at = media.at + 1
              /\ media'.held = media.held /\ media'.verdict # "ok"
          BY <2>1, <3>1, GoOnType
        <4>2. Keeps("downloader")
          BY <1>1, <4>1 DEF DownloaderGate, stack, Keeps, LinkOK, held
        <4>3. Did("downloader", "none")'
          BY DEF Did, DidSettings, DidKeys, DidLinks
        <4> QED
          BY <2>1, <2>2, <4>1, <4>2, <4>3 DEF Advances
      <3>2. CASE Fail \/ media' = Stopped("vpn")
        BY <2>1, <2>2, <3>2, FailsOK DEF MediaInv
      <3> QED
        BY <1>1, <3>1, <3>2 DEF DownloaderGate
    <2> QED
      BY <2>1, <2>3, AdvancesOK
  <1>2. CASE QbittorrentPreferences
    <2>1. {"preferences"} \subseteq config'["qbittorrent"] => Did("preferences", "none")'
      BY DEF Did, DidSettings, DidKeys, DidLinks
    <2>2. Advances("preferences", "none")
      BY <1>2, <2>1, ConfigureOK, ServiceNames, SettingsOf DEF QbittorrentPreferences
    <2> QED
      BY <1>2, <2>2, AdvancesOK DEF QbittorrentPreferences
  <1>3. CASE QbittorrentCategories
    <2>1. {"categories"} \subseteq config'["qbittorrent"] => Did("categories", "none")'
      BY DEF Did, DidSettings, DidKeys, DidLinks
    <2>2. Advances("categories", "none")
      BY <1>3, <2>1, ConfigureOK, ServiceNames, SettingsOf DEF QbittorrentCategories
    <2> QED
      BY <1>3, <2>2, AdvancesOK DEF QbittorrentCategories
  <1>4. CASE SabnzbdBootstrap
    <2>1. {"bootstrap"} \subseteq config'["sabnzbd"] => Did("sabnzbd", "none")'
      BY DEF Did, DidSettings, DidKeys, DidLinks
    <2>2. Advances("sabnzbd", "none")
      BY <1>4, <2>1, ConfigureOK, ServiceNames, SettingsOf DEF SabnzbdBootstrap
    <2> QED
      BY <1>4, <2>2, AdvancesOK DEF SabnzbdBootstrap
  <1> QED
    BY <1>1, <1>2, <1>3, <1>4

LEMMA ArrSettings ==
  ASSUME MediaInv, NEW a \in ArrSet, RootFolder(a) \/ CommonSettings(a)
  PROVE  MediaInv'
  <1>1. PICK op \in {"folder", "common"} : Doing(op, a) /\ Configure(a, {op})
    BY DEF RootFolder, CommonSettings
  <1>2. {op} \subseteq config'[a] => Did(op, a)'
    BY DEF Did, DidSettings, DidKeys, DidLinks
  <1>3. {op} \in SUBSET Settings(a) /\ a \in Services
    BY SettingsOf, ServiceNames
  <1>4. Advances(op, a)
    BY <1>1, <1>2, <1>3, ConfigureOK
  <1> QED
    BY <1>1, <1>4, AdvancesOK

LEMMA ArrClients ==
  ASSUME MediaInv, NEW c \in ArrSet \cup {"prowlarr"},
         QbittorrentClient(c) \/ SabnzbdClient(c)
  PROVE  MediaInv'
  <1>1. 1 \in Credentials /\ held \in [Keyed -> Credentials]
    BY MediaAssumption DEF Credentials, MediaInv, MediaType, MediaState, held
  <1>2. CASE QbittorrentClient(c)
    <2>1. Doing("torrents", c)
      BY <1>2 DEF QbittorrentClient
    <2>2. LinkOK(<<c, "qbittorrent">>)' => Did("torrents", c)'
      BY DEF Did, DidSettings, DidKeys, DidLinks
    <2>3. Advances("torrents", c)
      <3>1. CASE Wire(c, "qbittorrent", 1)
        BY <1>1, <2>1, <2>2, <3>1, WireOK, LinkNames, ServiceNames
      <3>2. CASE Refused(c)
        BY <3>2, RefusedOK
      <3> QED
        BY <1>2, <3>1, <3>2 DEF QbittorrentClient
    <2> QED
      BY <2>1, <2>3, AdvancesOK
  <1>3. CASE SabnzbdClient(c)
    <2>1. Doing("usenet", c)
      BY <1>3 DEF SabnzbdClient
    <2>2. LinkOK(<<c, "sabnzbd">>)' => Did("usenet", c)'
      BY DEF Did, DidSettings, DidKeys, DidLinks
    <2>3. Advances("usenet", c)
      <3>1. CASE Knows("sabnzbd") /\ Wire(c, "sabnzbd", held["sabnzbd"])
        <4>1. held["sabnzbd"] = key["sabnzbd"] /\ held["sabnzbd"] \in Credentials
          BY <1>1, <3>1, ServiceNames DEF Knows
        <4> QED
          BY <2>1, <2>2, <3>1, <4>1, WireOK, LinkNames
      <3>2. CASE Refused(c) \/ Refused("sabnzbd")
        BY <3>2, RefusedOK
      <3> QED
        BY <1>3, <3>1, <3>2 DEF SabnzbdClient
    <2> QED
      BY <2>1, <2>3, AdvancesOK
  <1> QED
    BY <1>2, <1>3

LEMMA ArrApplications ==
  ASSUME MediaInv, NEW a \in ArrSet, ProwlarrApplication(a)
  PROVE  MediaInv'
  <1>1. Doing("application", a)
    BY DEF ProwlarrApplication
  <1>2. LinkOK(<<"prowlarr", a>>)' => Did("application", a)'
    BY DEF Did, DidSettings, DidKeys, DidLinks
  <1>3. Advances("application", a)
    <2>1. CASE Wire("prowlarr", a, held[a])
      <3>1. held[a] \in Credentials
        BY ServiceNames DEF MediaInv, MediaType, MediaState, held
      <3>2. ~touched => held[a] = key[a]
        BY <1>1, KeysKnown
      <3> QED
        BY <1>1, <1>2, <2>1, <3>1, <3>2, WireOK, LinkNames
    <2>2. CASE Refused("prowlarr") \/ Refused(a)
      BY <2>2, RefusedOK
    <2> QED
      BY <2>1, <2>2 DEF ProwlarrApplication
  <1> QED
    BY <1>1, <1>3, AdvancesOK

-----------------------------------------------------------------------------
(* The process starts, reads the keys and looks at the metrics *)

LEMMA MediaStarts ==
  ASSUME MediaInv, StartMedia
  PROVE  MediaInv'
  <1>1. /\ media' \in MediaState /\ media'.at = 1 /\ media'.verdict = "running"
    <2>1. 1 \in 0..Len(Plan)
      BY PlanType
    <2>2. media' = [Stopped("running") EXCEPT !.at = 1]
      BY DEF StartMedia
    <2>3. Stopped("running") \in MediaState /\ Stopped("running").verdict = "running"
      BY StoppedType DEF Stopped
    <2> QED
      BY <2>1, <2>2, <2>3 DEF MediaState
  <1>2. MediaType'
    BY <1>1 DEF StartMedia, stack, MediaInv, MediaType
  <1> QED
    BY <1>1, <1>2 DEF MediaInv, Progress, Outcome

LEMMA KeysRead ==
  ASSUME MediaInv, ReadKeys
  PROVE  MediaInv'
  <1>1. Doing("gate", "none")
    BY DEF ReadKeys
  <1>2. media.at = 1 /\ media.at + 1 \in 0..Len(Plan) /\ media.verdict # "ok"
    <2>1. media.at \in 1..Len(Plan) /\ Plan[media.at][1] = "gate"
      BY <1>1, NowDoing
    <2> QED
      BY <1>1, <2>1, GateFirst, NowDoing, PlanType DEF GateIsFirst
  <1> DEFINE read == [s \in Keyed |-> IF s \in Late \cup {"bazarr"} THEN 0 ELSE key[s]]
  <1>3. read \in [Keyed -> Credentials]
    BY MediaAssumption DEF MediaInv, MediaType, Credentials
  <1>4. \A s \in Keyed \ (Late \cup {"bazarr"}) : read[s] = key[s]
    OBVIOUS
  <1>5. media' = [media EXCEPT !.at = media.at + 1, !.held = read]
    BY DEF ReadKeys
  <1> HIDE DEF read
  <1>6. /\ media' \in MediaState /\ media'.at = 2 /\ media'.held = read
        /\ media'.verdict # "ok"
    <2>1. media' \in MediaState
      BY <1>2, <1>3, <1>5 DEF MediaInv, MediaType, MediaState
    <2>2. media'.at = media.at + 1 /\ media'.held = read /\ media'.verdict = media.verdict
      BY <1>5 DEF MediaInv, MediaType, MediaState
    <2> QED
      BY <1>2, <2>1, <2>2
  <1>7. MediaType'
    BY <1>6 DEF ReadKeys, stack, MediaInv, MediaType
  <1>8. Did("gate", "none")'
    BY <1>4, <1>6 DEF ReadKeys, stack, Did, DidSettings, DidKeys, DidLinks, held
  <1>9. Progress'
    <2>1. Plan[1][1] = "gate" /\ Plan[1][2] = "none"
      BY GateFirst
    <2>2. \A k \in 1..(media'.at - 1) : k = 1
      BY <1>6
    <2> QED
      BY <1>8, <2>1, <2>2 DEF Progress
  <1> QED
    BY <1>6, <1>7, <1>9 DEF MediaInv, Outcome

LEMMA LateKeyRead ==
  ASSUME MediaInv, NEW a \in ArrSet, ReadLateKey(a)
  PROVE  MediaInv'
  <1>1. Doing("key", a)
    BY DEF ReadLateKey
  <1>2. media.at + 1 \in 0..Len(Plan) /\ media.verdict # "ok"
    BY <1>1, NowDoing, PlanType
  <1> DEFINE k == IF a \in Late THEN key[a] ELSE media.held[a]
  <1>3. k \in Credentials /\ media.held \in [Keyed -> Credentials] /\ a \in Keyed
    BY ServiceNames DEF MediaInv, MediaType, MediaState
  <1>4. media' = [media EXCEPT !.at = media.at + 1, !.held[a] = k]
    BY DEF ReadLateKey
  <1>5. ~touched => k = key[a]
    BY <1>1, GateDone, ServiceNames DEF held
  <1> HIDE DEF k
  <1>6. /\ media' \in MediaState /\ media'.at = media.at + 1
        /\ media'.held = [media.held EXCEPT ![a] = k] /\ media'.verdict # "ok"
    BY <1>2, <1>3, <1>4 DEF MediaInv, MediaType, MediaState
  <1>7. MediaType'
    BY <1>6 DEF ReadLateKey, stack, MediaInv, MediaType
  <1>8. ~touched => Keeps("key")
    BY <1>3, <1>5, <1>6 DEF ReadLateKey, stack, Keeps, LinkOK, held
  <1>9. ~touched => Did("key", a)'
    BY <1>3, <1>5, <1>6 DEF ReadLateKey, stack, Did, DidSettings, DidKeys, DidLinks, held
  <1>10. Advances("key", a)
    BY <1>6, <1>7, <1>8, <1>9 DEF ReadLateKey, Advances
  <1> QED
    BY <1>1, <1>10, AdvancesOK

-----------------------------------------------------------------------------
(* Prowlarr and Bazarr *)

LEMMA ProwlarrSteps ==
  ASSUME MediaInv, FlaresolverrProxy \/ Indexers
  PROVE  MediaInv'
  <1>1. CASE FlaresolverrProxy
    <2>1. {"tag", "proxy"} \subseteq config'["prowlarr"] => Did("proxy", "none")'
      BY DEF Did, DidSettings, DidKeys, DidLinks
    <2>2. Advances("proxy", "none")
      BY <1>1, <2>1, ConfigureOK, ServiceNames, SettingsOf DEF FlaresolverrProxy
    <2> QED
      BY <1>1, <2>2, AdvancesOK DEF FlaresolverrProxy
  <1>2. CASE Indexers
    <2>1. {"tag", "indexers"} \subseteq config'["prowlarr"] => Did("indexers", "none")'
      BY DEF Did, DidSettings, DidKeys, DidLinks
    <2>2. Advances("indexers", "none")
      BY <1>2, <2>1, ConfigureOK, ServiceNames, SettingsOf DEF Indexers
    <2> QED
      BY <1>2, <2>2, AdvancesOK DEF Indexers
  <1> QED
    BY <1>1, <1>2

LEMMA BazarrStep ==
  ASSUME MediaInv, BazarrBootstrap
  PROVE  MediaInv'
  <1>1. Doing("bazarr", "none")
    BY DEF BazarrBootstrap
  <1>2. /\ config' = [config EXCEPT !["bazarr"] = {"settings", "auth"}]
        /\ UNCHANGED <<key, secret, exporter, downloader, token, touched>>
    BY DEF BazarrBootstrap
  <1>3. /\ config' \in [Services -> SUBSET AllSettings]
        /\ \A t \in Services : config'[t] \subseteq Settings(t)
        /\ \A t \in Services : config[t] \subseteq config'[t]
        /\ config'["bazarr"] = {"settings", "auth"}
    <2>1. {"settings", "auth"} = Settings("bazarr") /\ "bazarr" \in Services
      BY SettingsOf, ServiceNames
    <2>2. Settings("bazarr") \subseteq AllSettings
      BY <2>1 DEF AllSettings
    <2> QED
      BY <1>2, <2>1, <2>2 DEF MediaInv, MediaType
  <1>4. held \in [Keyed -> Credentials] /\ link \in [Links -> Integration]
    BY DEF MediaInv, MediaType, MediaState, held
  <1>5. ASSUME NEW l \in Links
        PROVE  /\ link'[l] \in Integration
               /\ l[1] # "bazarr" => link'[l] = link[l]
               /\ l[1] = "bazarr" => /\ link'[l].own = 1 /\ link'[l].key = held[l[2]]
                                    /\ ~link'[l].manual
    <2>1. CASE l[1] = "bazarr"
      <3>1. l[2] \in Keyed
        BY <2>1, ServiceNames, MediaAssumption DEF Links
      <3>2. held[l[2]] \in Credentials
        BY <1>4, <3>1
      <3>3. link'[l] = [Unlinked EXCEPT !.own = 1, !.key = held[l[2]]]
        BY <2>1 DEF BazarrBootstrap
      <3>4. link'[l] = [own |-> 1, manual |-> FALSE, key |-> held[l[2]]]
        BY <3>3 DEF Unlinked
      <3> QED
        BY <2>1, <3>2, <3>4 DEF Integration
    <2>2. CASE l[1] # "bazarr"
      BY <1>4, <2>2 DEF BazarrBootstrap
    <2> QED
      BY <2>1, <2>2
  <1>6. link' = [l \in Links |-> link'[l]]
    BY DEF BazarrBootstrap
  <1>7. /\ link' \in [Links -> Integration]
        /\ \A l \in Links : l[1] = "seerr" => ~link'[l].manual
        /\ \A l \in Links : link'[l].own = 1 => ~link'[l].manual
    BY <1>5, <1>6 DEF MediaInv, MediaType
  <1>8. CASE /\ media' = [media EXCEPT !.at = @ + 1, !.held["bazarr"] = key["bazarr"]]
             /\ UNCHANGED mediaFaults
    <2>1. media.at + 1 \in 0..Len(Plan) /\ media.verdict # "ok"
      BY <1>1, NowDoing, PlanType
    <2>2. key["bazarr"] \in Credentials /\ "bazarr" \in Keyed
      BY ServiceNames DEF MediaInv, MediaType
    <2>3. /\ media' \in MediaState /\ media'.at = media.at + 1
          /\ media'.held = [media.held EXCEPT !["bazarr"] = key["bazarr"]]
          /\ media'.verdict # "ok"
      BY <1>8, <2>1, <2>2 DEF MediaInv, MediaType, MediaState
    <2>4. MediaType'
      BY <1>2, <1>3, <1>7, <1>8, <2>3 DEF MediaInv, MediaType
    <2>5. ~touched => \A a \in ManagedSet : held[a] = key[a] /\ a # "bazarr"
      BY <1>1, GateDone, ServiceNames
    <2>6. ~touched => \A l \in Links : l[1] = "bazarr" => LinkOK(l)'
      <3> SUFFICES ASSUME ~touched, NEW l \in Links, l[1] = "bazarr"
                   PROVE  LinkOK(l)'
        OBVIOUS
      <3>1. l[2] \in ManagedSet
        BY ServiceNames, MediaAssumption DEF Links
      <3>2. link'[l].own = 1 /\ link'[l].key = key[l[2]]
        BY <1>5, <2>5, <3>1
      <3> QED
        BY <1>2, <3>2 DEF LinkOK
    <2>7. ~touched => \A l \in Links : LinkOK(l) => LinkOK(l)'
      BY <1>2, <1>5, <2>6 DEF LinkOK
    <2>8. ~touched => Keeps("bazarr")
      BY <1>2, <1>3, <2>2, <2>3, <2>7 DEF Keeps, held, MediaInv, MediaType, MediaState
    <2>9. ~touched => Did("bazarr", "none")'
      <3>1. DidSettings("bazarr", "none")'
        BY <1>3 DEF DidSettings
      <3>2. DidKeys("bazarr", "none")'
        BY <1>2, <2>2, <2>3 DEF DidKeys, held, MediaInv, MediaType, MediaState
      <3>3. ~touched => DidLinks("bazarr", "none")'
        <4>1. \A a \in ManagedSet : <<"bazarr", a>>[1] = "bazarr"
          OBVIOUS
        <4> QED
          BY <2>6, <4>1, LinkNames DEF DidLinks
      <3> QED
        BY <3>1, <3>2, <3>3 DEF Did
    <2>10. Advances("bazarr", "none")
      BY <1>2, <2>3, <2>4, <2>8, <2>9 DEF Advances
    <2> QED
      BY <1>1, <2>10, AdvancesOK
  <1>9. CASE Fail /\ MediaFault
    <2>1. mediaFaults' \in 0..MaxMediaFaults /\ mediaFaults' >= mediaFaults
      BY <1>9, MediaFaultType DEF MediaInv, MediaType
    <2>2. key' \in [Keyed -> Credentials] /\ \A t \in Keyed : key'[t] \in 1..(mediaFaults' + 1)
      BY <1>2, <2>1 DEF MediaInv, MediaType
    <2>3. media' \in MediaState => MediaType'
      BY <1>2, <1>3, <1>7, <2>1, <2>2 DEF MediaInv, MediaType
    <2>4. Advances("bazarr", "none")
      BY <1>2, <1>9, <2>3, FailsOK DEF MediaInv
    <2> QED
      BY <1>1, <2>4, AdvancesOK
  <1> QED
    BY <1>8, <1>9 DEF BazarrBootstrap

-----------------------------------------------------------------------------
(* The Secret, the exporters and Recyclarr *)

LEMMA WithKeysType ==
  ASSUME MediaType, NEW known \in SUBSET SecretKeys
  PROVE  /\ WithKeys(known) \in [SecretKeys -> Credentials]
         /\ \A x \in known : WithKeys(known)[x] = held[x]
         /\ \A x \in SecretKeys \ known : WithKeys(known)[x] = secret[x]
  BY ServiceNames DEF WithKeys, MediaType, MediaState, held

LEMMA SecretStep ==
  ASSUME MediaInv, RuntimeSecret
  PROVE  MediaInv'
  <1>1. /\ Doing("secret", "none") /\ secret' = WithKeys(SecretKeys)
        /\ UNCHANGED <<key, config, link, exporter, downloader, token, touched>>
    BY DEF RuntimeSecret
  <1>2. /\ secret' \in [SecretKeys -> Credentials]
        /\ \A x \in SecretKeys : secret'[x] = held[x]
    BY <1>1, WithKeysType DEF MediaInv
  <1>3. CASE GoOn /\ UNCHANGED mediaFaults
    <2>1. /\ media' \in MediaState /\ media'.at = media.at + 1
          /\ media'.held = media.held /\ media'.verdict # "ok"
      BY <1>1, <1>3, GoOnType
    <2>2. MediaType'
      BY <1>1, <1>2, <1>3, <2>1 DEF MediaInv, MediaType
    <2>3. ~touched => \A x \in SecretKeys : secret'[x] = key[x]
      BY <1>1, <1>2, AllKeysKnown
    <2>4. ~touched => Keeps("secret")
      BY <1>1, <2>1, <2>3 DEF Keeps, LinkOK, held
    <2>5. ~touched => Did("secret", "none")'
      BY <1>1, <2>3 DEF Did, DidSettings, DidKeys, DidLinks
    <2>6. Advances("secret", "none")
      BY <1>1, <2>1, <2>2, <2>4, <2>5 DEF Advances
    <2> QED
      BY <1>1, <2>6, AdvancesOK
  <1>4. CASE Fail /\ MediaFault
    <2>1. mediaFaults' \in 0..MaxMediaFaults /\ mediaFaults' >= mediaFaults
      BY <1>4, MediaFaultType DEF MediaInv, MediaType
    <2>2. key' \in [Keyed -> Credentials] /\ \A t \in Keyed : key'[t] \in 1..(mediaFaults' + 1)
      BY <1>1, <2>1 DEF MediaInv, MediaType
    <2>3. media' \in MediaState => MediaType'
      BY <1>1, <1>2, <2>1, <2>2 DEF MediaInv, MediaType
    <2>4. Advances("secret", "none")
      BY <1>1, <1>4, <2>3, FailsOK DEF MediaInv
    <2> QED
      BY <1>1, <2>4, AdvancesOK
  <1> QED
    BY <1>3, <1>4 DEF RuntimeSecret

LEMMA RestartStep ==
  ASSUME MediaInv, RestartExporters
  PROVE  MediaInv'
  <1>1. /\ Doing("restart", "none")
        /\ UNCHANGED <<key, config, link, secret, downloader, token, touched>>
    BY DEF RestartExporters
  <1>2. PICK done \in SUBSET Exporters :
          /\ exporter' = [x \in Exporters |-> IF x \in done THEN secret[x] ELSE exporter[x]]
          /\ \/ done = Exporters /\ GoOn /\ UNCHANGED mediaFaults
             \/ done # Exporters /\ MediaFault /\ (GoOn \/ Fail)
    BY DEF RestartExporters
  <1>3. exporter' \in [Exporters -> Credentials]
    BY <1>2, ServiceNames DEF MediaInv, MediaType
  <1>4. mediaFaults' \in 0..MaxMediaFaults /\ mediaFaults' >= mediaFaults
    BY <1>2, MediaFaultType DEF MediaInv, MediaType
  <1>5. key' \in [Keyed -> Credentials] /\ \A t \in Keyed : key'[t] \in 1..(mediaFaults' + 1)
    BY <1>1, <1>4 DEF MediaInv, MediaType
  <1>6. media' \in MediaState => MediaType'
    BY <1>1, <1>3, <1>4, <1>5 DEF MediaInv, MediaType
  <1>7. Advances("restart", "none")
    <2>1. CASE GoOn
      <3>1. /\ media' \in MediaState /\ media'.at = media.at + 1
            /\ media'.held = media.held /\ media'.verdict # "ok"
        BY <1>1, <2>1, GoOnType
      <3>2. Keeps("restart")
        BY <1>1, <3>1 DEF Keeps, LinkOK, held
      <3>3. Did("restart", "none")'
        BY DEF Did, DidSettings, DidKeys, DidLinks
      <3> QED
        BY <1>1, <1>6, <3>1, <3>2, <3>3 DEF Advances
    <2>2. CASE Fail
      BY <1>1, <1>6, <2>2, FailsOK DEF MediaInv
    <2> QED
      BY <1>2, <2>1, <2>2
  <1> QED
    BY <1>1, <1>7, AdvancesOK

\* Recyclarr takes nothing away but the scores it does not manage.
LEMMA RecyclarrConfig ==
  ASSUME MediaType, NEW done \in SUBSET ManagedSet, Recyclarr(done)
  PROVE  /\ config' \in [Services -> SUBSET AllSettings]
         /\ \A s \in Services : config'[s] \subseteq Settings(s)
         /\ \A s \in Services : \A x \in config[s] :
              x \in config'[s] \/ (x = "language" /\ s \in ManagedSet)
         /\ \A s \in done : "profile" \in config'[s]
  <1>1. config' = [s \in Services |-> IF s \in done THEN Synced(s) ELSE config[s]]
    BY DEF Recyclarr
  <1>2. \A s \in done : s \in Services /\ s \in ManagedSet
    BY ServiceNames
  <1>3. \A s \in done : Synced(s) \subseteq Settings(s) /\ "profile" \in Synced(s)
    BY <1>2, SettingsOf DEF Synced, MediaType
  <1>4. \A s \in Services : Settings(s) \subseteq AllSettings
    BY DEF AllSettings
  <1>5. \A s \in Services : config'[s] \subseteq Settings(s)
    BY <1>1, <1>3 DEF MediaType
  <1>6. config' \in [Services -> SUBSET AllSettings]
    BY <1>1, <1>4, <1>5
  <1>7. \A s \in Services : \A x \in config[s] :
          x \in config'[s] \/ (x = "language" /\ s \in ManagedSet)
    BY <1>1, <1>2 DEF Synced
  <1> QED
    BY <1>1, <1>2, <1>3, <1>5, <1>6, <1>7

LEMMA QualityStep ==
  ASSUME MediaInv, QualityPolicy
  PROVE  MediaInv'
  <1>1. /\ Doing("quality", "none") /\ secret' = WithKeys(SecretKeys \ Late)
        /\ UNCHANGED <<key, link, exporter, downloader, token, touched>>
    BY DEF QualityPolicy
  <1>2. /\ secret' \in [SecretKeys -> Credentials]
        /\ \A x \in SecretKeys : secret'[x] = held[x] \/ secret'[x] = secret[x]
    BY <1>1, WithKeysType DEF MediaInv
  <1>3. CASE Recyclarr(ManagedSet) /\ GoOn /\ UNCHANGED mediaFaults
    <2>1. /\ media' \in MediaState /\ media'.at = media.at + 1
          /\ media'.held = media.held /\ media'.verdict # "ok"
      BY <1>1, <1>3, GoOnType
    <2>2. /\ config' \in [Services -> SUBSET AllSettings]
          /\ \A s \in Services : config'[s] \subseteq Settings(s)
          /\ \A s \in Services : \A x \in config[s] :
               x \in config'[s] \/ (x = "language" /\ s \in ManagedSet)
          /\ \A s \in ManagedSet : "profile" \in config'[s]
      BY <1>3, RecyclarrConfig DEF MediaInv
    <2>3. MediaType'
      BY <1>1, <1>2, <1>3, <2>1, <2>2 DEF MediaInv, MediaType
    <2>4. ~touched => \A x \in SecretKeys : secret[x] = key[x] => secret'[x] = key[x]
      BY <1>1, <1>2, AllKeysKnown
    <2>5. ~touched => Keeps("quality")
      BY <1>1, <2>1, <2>2, <2>4 DEF Keeps, LinkOK, held
    <2>6. Did("quality", "none")'
      BY <2>2 DEF Did, DidSettings, DidKeys, DidLinks
    <2>7. Advances("quality", "none")
      BY <1>1, <2>1, <2>3, <2>5, <2>6 DEF Advances
    <2> QED
      BY <1>1, <2>7, AdvancesOK
  <1>4. CASE /\ \/ \E done \in SUBSET ManagedSet : Recyclarr(done)
                \/ UNCHANGED config
             /\ Fail /\ (MediaFault \/ UNCHANGED mediaFaults)
    <2>1. mediaFaults' \in 0..MaxMediaFaults /\ mediaFaults' >= mediaFaults
      BY <1>4, MediaFaultType DEF MediaInv, MediaType
    <2>2. key' \in [Keyed -> Credentials] /\ \A t \in Keyed : key'[t] \in 1..(mediaFaults' + 1)
      BY <1>1, <2>1 DEF MediaInv, MediaType
    <2>3. /\ config' \in [Services -> SUBSET AllSettings]
          /\ \A s \in Services : config'[s] \subseteq Settings(s)
      BY <1>4, RecyclarrConfig DEF MediaInv, MediaType
    <2>4. media' \in MediaState => MediaType'
      BY <1>1, <1>2, <2>1, <2>2, <2>3 DEF MediaInv, MediaType
    <2>5. Advances("quality", "none")
      BY <1>1, <1>4, <2>4, FailsOK DEF MediaInv
    <2> QED
      BY <1>1, <2>5, AdvancesOK
  <1>5. \/ Recyclarr(ManagedSet) /\ GoOn /\ UNCHANGED mediaFaults
        \/ (\E done \in SUBSET ManagedSet : Recyclarr(done)) /\ Fail /\ MediaFault
        \/ Fail /\ UNCHANGED <<config, mediaFaults>>
    <2> DEFINE whole == Recyclarr(ManagedSet) /\ GoOn /\ UNCHANGED mediaFaults
               part == \E done \in SUBSET ManagedSet :
                         Recyclarr(done) /\ Fail /\ MediaFault
               none == Fail /\ UNCHANGED <<config, mediaFaults>>
    <2>1. whole \/ part \/ none
      <3>1. \/ (\A a \in ManagedSet : held[a] = key[a]) /\ (whole \/ part)
            \/ (\E a \in ManagedSet : held[a] # key[a]) /\ none
        BY DEF QualityPolicy
      <3> HIDE DEF whole, part, none
      <3> QED
        BY <3>1
    <2> QED
      BY <2>1
  <1> QED
    BY <1>3, <1>4, <1>5

LEMMA LanguageStep ==
  ASSUME MediaInv, NEW a \in ManagedSet, LanguagePreferences(a)
  PROVE  MediaInv'
  <1>1. Doing("language", a)
    BY DEF LanguagePreferences
  <1>2. Advances("language", a)
    <2>1. CASE Configure(a, {"language"})
      <3>1. {"language"} \subseteq config'[a] => Did("language", a)'
        BY DEF Did, DidSettings, DidKeys, DidLinks
      <3>2. {"language"} \in SUBSET Settings(a) /\ a \in Services
        BY SettingsOf, ServiceNames
      <3> QED
        BY <1>1, <2>1, <3>1, <3>2, ConfigureOK
    <2>2. CASE Fail /\ UNCHANGED <<stack, touched, mediaFaults>>
      <3>1. media' \in MediaState => MediaType'
        BY <2>2 DEF MediaInv, MediaType, stack
      <3> QED
        BY <2>2, <3>1, FailsOK DEF MediaInv
    <2> QED
      BY <2>1, <2>2 DEF LanguagePreferences
  <1> QED
    BY <1>1, <1>2, AdvancesOK

-----------------------------------------------------------------------------
(* Jellyfin and Seerr *)

LEMMA QuietFailure ==
  ASSUME MediaInv, NEW op, NEW x, Fail, UNCHANGED <<stack, touched, mediaFaults>>
  PROVE  Advances(op, x)
  <1>1. media' \in MediaState => MediaType'
    BY DEF MediaInv, MediaType, stack
  <1> QED
    BY <1>1, FailsOK DEF MediaInv

LEMMA QuietAdvance ==
  ASSUME MediaInv, NEW op, NEW x, Doing(op, x), op # "metrics", GoOn,
         UNCHANGED <<stack, touched, mediaFaults>>, Did(op, x)'
  PROVE  Advances(op, x)
  <1>1. /\ media' \in MediaState /\ media'.at = media.at + 1
        /\ media'.held = media.held /\ media'.verdict # "ok"
    BY GoOnType
  <1>2. MediaType'
    BY <1>1 DEF MediaInv, MediaType, stack
  <1>3. Keeps(op)
    BY <1>1 DEF stack, Keeps, LinkOK, held
  <1> QED
    BY <1>1, <1>2, <1>3 DEF Advances

LEMMA JellyfinSteps ==
  ASSUME MediaInv, JellyfinWizard \/ JellyfinPosture \/ JellyfinLibraries
  PROVE  MediaInv'
  <1>1. CASE JellyfinWizard
    <2>1. Doing("wizard", "none")
      BY <1>1 DEF JellyfinWizard
    <2>2. CASE "admin" \in config["jellyfin"]
      <3>1. GoOn /\ UNCHANGED <<stack, touched, mediaFaults>>
        BY <1>1, <2>2 DEF JellyfinWizard
      <3>2. Did("wizard", "none")'
        BY <2>2, <3>1 DEF stack, Did, DidSettings, DidKeys, DidLinks
      <3>3. Advances("wizard", "none")
        BY <2>1, <3>1, <3>2, QuietAdvance
      <3> QED
        BY <2>1, <3>3, AdvancesOK
    <2>3. CASE Configure("jellyfin", {"admin", "posture"})
      <3>1. {"admin", "posture"} \subseteq config'["jellyfin"] => Did("wizard", "none")'
        BY DEF Did, DidSettings, DidKeys, DidLinks
      <3>2. Advances("wizard", "none")
        BY <2>1, <2>3, <3>1, ConfigureOK, ServiceNames, SettingsOf
      <3> QED
        BY <2>1, <3>2, AdvancesOK
    <2> QED
      BY <1>1, <2>2, <2>3 DEF JellyfinWizard
  <1>2. CASE JellyfinPosture
    <2>1. {"posture"} \subseteq config'["jellyfin"] => Did("posture", "none")'
      BY DEF Did, DidSettings, DidKeys, DidLinks
    <2>2. Advances("posture", "none")
      BY <1>2, <2>1, ConfigureOK, ServiceNames, SettingsOf DEF JellyfinPosture
    <2> QED
      BY <1>2, <2>2, AdvancesOK DEF JellyfinPosture
  <1>3. CASE JellyfinLibraries
    <2>1. Libraries \subseteq config'["jellyfin"] => Did("libraries", "none")'
      BY DEF Did, DidSettings, DidKeys, DidLinks
    <2>2. Advances("libraries", "none")
      BY <1>3, <2>1, ConfigureOK, ServiceNames, SettingsOf DEF JellyfinLibraries
    <2> QED
      BY <1>3, <2>2, AdvancesOK DEF JellyfinLibraries
  <1> QED
    BY <1>1, <1>2, <1>3

LEMMA LoginStep ==
  ASSUME MediaInv, SeerrLogin
  PROVE  MediaInv'
  <1>1. Doing("login", "none") /\ UNCHANGED <<key, link, secret, exporter, downloader, touched>>
    BY DEF SeerrLogin
  <1>2. \/ Fail /\ UNCHANGED <<config, token, mediaFaults>>
        \/ /\ config' = [config EXCEPT !["seerr"] = @ \cup {"server"}]
           /\ token' \in {"good", token}
           /\ \/ UNCHANGED mediaFaults
                 /\ media' = [media EXCEPT !.at = @ + 1,
                                !.snapshot = "initialized" \in config["seerr"]]
              \/ Fail /\ MediaFault
    BY DEF SeerrLogin
  <1>3. CASE Fail /\ UNCHANGED <<config, token, mediaFaults>>
    <2>1. Advances("login", "none")
      BY <1>1, <1>3, QuietFailure DEF stack
    <2> QED
      BY <1>1, <2>1, AdvancesOK
  <1>4. CASE /\ config' = [config EXCEPT !["seerr"] = @ \cup {"server"}]
             /\ token' \in {"good", token}
    <2> token' \in {"none", "good", "stale"}
      BY <1>4 DEF MediaInv, MediaType
    <2>1. {"server"} \in SUBSET Settings("seerr") /\ "seerr" \in Services
      BY SettingsOf, ServiceNames
    <2>2. /\ config' \in [Services -> SUBSET AllSettings]
          /\ \A t \in Services : config'[t] \subseteq Settings(t)
          /\ \A t \in Services : config[t] \subseteq config'[t]
          /\ {"server"} \subseteq config'["seerr"]
      BY <1>4, <2>1, ConfigType DEF MediaInv
    <2> DEFINE has == "initialized" \in config["seerr"]
    <2>3. ASSUME UNCHANGED mediaFaults, media' = [media EXCEPT !.at = @ + 1, !.snapshot = has]
          PROVE  Advances("login", "none")
      <3>1. has \in BOOLEAN /\ media.at + 1 \in 0..Len(Plan) /\ media.verdict # "ok"
        BY <1>1, NowDoing, PlanType
      <3> HIDE DEF has
      <3>2. /\ media' \in MediaState /\ media'.at = media.at + 1
            /\ media'.held = media.held /\ media'.verdict # "ok"
        BY <2>3, <3>1 DEF MediaInv, MediaType, MediaState
      <3>3. MediaType'
        BY <1>1, <2>2, <2>3, <3>2 DEF MediaInv, MediaType
      <3>4. Keeps("login")
        BY <1>1, <2>2, <3>2 DEF Keeps, LinkOK, held
      <3>5. Did("login", "none")'
        BY <2>2 DEF Did, DidSettings, DidKeys, DidLinks
      <3> QED
        BY <1>1, <3>2, <3>3, <3>4, <3>5 DEF Advances
    <2>4. ASSUME Fail, MediaFault
          PROVE  Advances("login", "none")
      <3>1. mediaFaults' \in 0..MaxMediaFaults /\ mediaFaults' >= mediaFaults
        BY <2>4, MediaFaultType DEF MediaInv, MediaType
      <3>2. key' \in [Keyed -> Credentials] /\ \A t \in Keyed : key'[t] \in 1..(mediaFaults' + 1)
        BY <1>1, <3>1 DEF MediaInv, MediaType
      <3>3. media' \in MediaState => MediaType'
        BY <1>1, <2>2, <3>1, <3>2 DEF MediaInv, MediaType
      <3> QED
        BY <1>1, <2>4, <3>3, FailsOK DEF MediaInv
    <2>5. \/ UNCHANGED mediaFaults /\ media' = [media EXCEPT !.at = @ + 1, !.snapshot = has]
          \/ Fail /\ MediaFault
          \/ Fail /\ UNCHANGED <<config, token, mediaFaults>>
      BY <1>2
    <2>6. Advances("login", "none")
      BY <1>1, <2>3, <2>4, <2>5, QuietFailure DEF stack
    <2> QED
      BY <1>1, <2>6, AdvancesOK
  <1> QED
    BY <1>2, <1>3, <1>4

LEMMA SeerrSettings ==
  ASSUME MediaInv, SeerrUrl \/ SeerrDiscovery \/ SeerrInitialize
  PROVE  MediaInv'
  <1>1. CASE SeerrUrl
    <2>1. {"url"} \subseteq config'["seerr"] => Did("url", "none")'
      BY DEF Did, DidSettings, DidKeys, DidLinks
    <2>2. Advances("url", "none")
      BY <1>1, <2>1, ConfigureOK, ServiceNames, SettingsOf DEF SeerrUrl
    <2> QED
      BY <1>1, <2>2, AdvancesOK DEF SeerrUrl
  <1>2. CASE SeerrDiscovery
    <2>1. Doing("discovery", "none")
      BY <1>2 DEF SeerrDiscovery
    <2>2. {"libraries"} \subseteq config'["seerr"] => Did("discovery", "none")'
      BY DEF Did, DidSettings, DidKeys, DidLinks
    <2>3. Configure("seerr", {"libraries"}) => Advances("discovery", "none")
      BY <2>1, <2>2, ConfigureOK, ServiceNames, SettingsOf
    <2>4. GoOn /\ "libraries" \in config["seerr"] /\ UNCHANGED <<stack, touched, mediaFaults>>
            => Advances("discovery", "none")
      BY <2>1, <2>2, QuietAdvance DEF stack
    <2>5. Advances("discovery", "none")
      BY <1>2, <2>3, <2>4, QuietFailure DEF SeerrDiscovery
    <2> QED
      BY <2>1, <2>5, AdvancesOK
  <1>3. CASE SeerrInitialize
    <2>1. Doing("initialize", "none")
      BY <1>3 DEF SeerrInitialize
    <2>2. {"initialized"} \subseteq config'["seerr"] => Did("initialize", "none")'
      BY DEF Did, DidSettings, DidKeys, DidLinks
    <2>3. Configure("seerr", {"initialized"}) => Advances("initialize", "none")
      BY <2>1, <2>2, ConfigureOK, ServiceNames, SettingsOf
    <2>4. GoOn /\ "initialized" \in config["seerr"] /\ UNCHANGED <<stack, touched, mediaFaults>>
            => Advances("initialize", "none")
      BY <2>1, <2>2, QuietAdvance DEF stack
    <2>5. Advances("initialize", "none")
      BY <1>3, <2>3, <2>4, QuietFailure DEF SeerrInitialize
    <2> QED
      BY <2>1, <2>5, AdvancesOK
  <1> QED
    BY <1>1, <1>2, <1>3

\* A server that is found is one that the task added, because nobody adds one
\* by hand.
LEMMA ServerStep ==
  ASSUME MediaInv, NEW a \in ManagedSet, SeerrServer(a)
  PROVE  MediaInv'
  <1> DEFINE here == <<"seerr", a>>
  <1>1. Doing("server", a)
    BY DEF SeerrServer
  <1>2. here \in Links /\ here[1] = "seerr" /\ a \in Keyed
    BY LinkNames, ServiceNames
  <1>3. LinkOK(here)' => Did("server", a)'
    BY DEF Did, DidSettings, DidKeys, DidLinks
  <1>4. CASE Found(link[here]) /\ GoOn /\ UNCHANGED <<stack, touched, mediaFaults>>
    <2>1. link[here] \in Integration /\ ~link[here].manual
      BY <1>2 DEF MediaInv, MediaType
    <2>2. link[here].own = 1
      BY <1>4, <2>1 DEF Found, Integration
    <2>3. LinkOK(here)'
      BY <1>2, <1>4, <2>2 DEF LinkOK, stack
    <2>4. Advances("server", a)
      BY <1>1, <1>3, <1>4, <2>3, QuietAdvance
    <2> QED
      BY <1>1, <2>4, AdvancesOK
  <1>5. CASE Wire("seerr", a, held[a]) \/ Refused(a)
    <2>1. held[a] \in Credentials
      BY <1>2 DEF MediaInv, MediaType, MediaState, held
    <2>2. Wire("seerr", a, held[a]) => Advances("server", a)
      BY <1>1, <1>2, <1>3, <2>1, WireOK
    <2>3. Advances("server", a)
      BY <1>5, <2>2, RefusedOK
    <2> QED
      BY <1>1, <2>3, AdvancesOK
  <1> QED
    BY <1>4, <1>5 DEF SeerrServer

-----------------------------------------------------------------------------
(* The end of a run *)

LEMMA AllDone ==
  ASSUME MediaInv, Doing("metrics", "none"), ~touched,
         NEW o, NEW s, NEW call, call = <<o, s>>, Has(UpToLanguages, call)
  PROVE  Did(o, s)
  <1>1. media.at = Len(Plan)
    <2>1. media.at \in 1..Len(Plan) /\ Plan[media.at][1] = "metrics"
      BY NowDoing
    <2> QED
      BY <2>1, MetricsLast
  <1>2. PICK k \in 1..(media.at - 1) : Plan[k] = call
    BY <1>1, DoneBeforeMetrics
  <1>3. Plan[k][1] = o /\ Plan[k][2] = s
    BY <1>2
  <1> QED
    BY <1>2, <1>3 DEF MediaInv, Progress

LEMMA AllWired ==
  ASSUME MediaInv, Doing("metrics", "none"), ~touched,
         \A x \in Exporters \ Late : exporter[x] = key[x]
  PROVE  Wired
  <1>1. \A op \in {"preferences", "categories", "sabnzbd"} : Did(op, "none")
    BY OpeningCalls, CallsOfPlan, AllDone DEF OpeningOps
  <1>2. \A op \in IndexingOps : Did(op, "none")
    BY IndexingCalls, CallsOfPlan, AllDone
  <1>3. \A op \in ServingOps : Did(op, "none")
    BY ServingCalls, CallsOfPlan, AllDone
  <1>4. \A op \in FinishingOps : Did(op, "none")
    BY FinishingCalls, CallsOfPlan, AllDone
  <1>5. ASSUME NEW a \in ArrSet
        PROVE  \A op \in {"folder", "common", "torrents", "usenet"} : Did(op, a)
    <2>1. \A j \in 1..5 : Did(ArrOp[j], a)
      BY PerArrCalls, CallsOfPlan, AllDone
    <2>2. ArrOp[2] = "folder" /\ ArrOp[3] = "torrents" /\ ArrOp[4] = "usenet"
            /\ ArrOp[5] = "common"
      BY DEF ArrOp
    <2> QED
      BY <2>1, <2>2
  <1>6. \A op \in ClientOps : Did(op, "prowlarr")
    BY ClientCalls, CallsOfPlan, AllDone
  <1>7. \A a \in ArrSet : Did("application", a)
    BY ApplicationCalls, CallsOfPlan, AllDone
  <1>8. \A a \in ManagedSet : Did("server", a) /\ Did("language", a)
    BY ManagedCalls, CallsOfPlan, AllDone
  <1>9. \A s \in Services : config[s] = Settings(s)
    <2> SUFFICES ASSUME NEW s \in Services
                 PROVE  Settings(s) \subseteq config[s]
      BY DEF MediaInv, MediaType
    <2>1. CASE s \in ManagedSet
      <3>1. "folder" \in config[s] /\ "common" \in config[s]
        BY <1>5, <2>1, ServiceNames DEF Did, DidSettings
      <3>2. "profile" \in config[s] /\ "language" \in config[s]
        BY <1>4, <1>8, <2>1 DEF Did, DidSettings, FinishingOps
      <3> QED
        BY <2>1, <3>1, <3>2, SettingsOf
    <2>2. CASE s \in ArrSet \ ManagedSet
      <3>1. "folder" \in config[s] /\ "common" \in config[s]
        BY <1>5, <2>2 DEF Did, DidSettings
      <3> QED
        BY <2>2, <3>1, SettingsOf
    <2>3. CASE s = "qbittorrent"
      BY <1>1, <2>3, SettingsOf DEF Did, DidSettings
    <2>4. CASE s = "sabnzbd"
      BY <1>1, <2>4, SettingsOf DEF Did, DidSettings
    <2>5. CASE s = "prowlarr"
      <3>1. Did("proxy", "none") /\ Did("indexers", "none")
        BY <1>2 DEF IndexingOps
      <3> QED
        BY <2>5, <3>1, SettingsOf DEF Did, DidSettings
    <2>6. CASE s = "bazarr"
      <3>1. Did("bazarr", "none")
        BY <1>2 DEF IndexingOps
      <3> QED
        BY <2>6, <3>1, SettingsOf DEF Did, DidSettings
    <2>7. CASE s = "jellyfin"
      <3>1. Did("wizard", "none") /\ Did("posture", "none") /\ Did("libraries", "none")
        BY <1>3 DEF ServingOps
      <3>2. /\ "admin" \in config["jellyfin"] /\ "posture" \in config["jellyfin"]
            /\ Libraries \subseteq config["jellyfin"]
        BY <3>1 DEF Did, DidSettings
      <3> QED
        BY <2>7, <3>2, SettingsOf
    <2>8. CASE s = "seerr"
      <3>1. /\ Did("login", "none") /\ Did("url", "none") /\ Did("discovery", "none")
            /\ Did("initialize", "none")
        BY <1>3, <1>4 DEF ServingOps, FinishingOps
      <3> QED
        BY <2>8, <3>1, SettingsOf DEF Did, DidSettings
    <2> QED
      BY <2>1, <2>2, <2>3, <2>4, <2>5, <2>6, <2>7, <2>8 DEF Services, Keyed
  <1>10. \A l \in Links : LinkOK(l)
    <2> SUFFICES ASSUME NEW l \in Links
                 PROVE  LinkOK(l)
      OBVIOUS
    <2>1. CASE l \in (ArrSet \cup {"prowlarr"}) \X {"qbittorrent", "sabnzbd"}
      <3>1. PICK c \in ArrSet \cup {"prowlarr"}, s \in {"qbittorrent", "sabnzbd"} :
              l = <<c, s>>
        BY <2>1
      <3>2. Did("torrents", c) /\ Did("usenet", c)
        BY <1>5, <1>6 DEF ClientOps
      <3>3. LinkOK(<<c, "qbittorrent">>) /\ LinkOK(<<c, "sabnzbd">>)
        BY <3>2 DEF Did, DidLinks
      <3> QED
        BY <3>1, <3>3
    <2>2. CASE l \in {"prowlarr"} \X ArrSet
      <3>1. PICK a \in ArrSet : l = <<"prowlarr", a>>
        BY <2>2
      <3>2. LinkOK(<<"prowlarr", a>>)
        BY <1>7 DEF Did, DidLinks
      <3> QED
        BY <3>1, <3>2
    <2>3. CASE l \in {"bazarr", "seerr"} \X ManagedSet
      <3>1. PICK c \in {"bazarr", "seerr"}, a \in ManagedSet : l = <<c, a>>
        BY <2>3
      <3>2. LinkOK(<<"bazarr", a>>)
        BY <1>2 DEF Did, DidLinks, IndexingOps
      <3>3. LinkOK(<<"seerr", a>>)
        BY <1>8 DEF Did, DidLinks
      <3> QED
        BY <3>1, <3>2, <3>3
    <2> QED
      BY <2>1, <2>2, <2>3 DEF Links
  <1>11. \A x \in SecretKeys : secret[x] = key[x]
    <2>1. Did("secret", "none")
      BY <1>3 DEF ServingOps
    <2> QED
      BY <2>1 DEF Did, DidKeys
  <1>12. \A l \in Links : link[l].own > 0
    BY <1>10 DEF LinkOK
  <1> QED
    BY <1>9, <1>10, <1>11, <1>12 DEF Wired, LinkOK

LEMMA MetricsStep ==
  ASSUME MediaInv, MetricsGate
  PROVE  MediaInv'
  <1>1. Doing("metrics", "none") /\ UNCHANGED <<stack, touched, mediaFaults>>
    BY DEF MetricsGate
  <1>2. CASE /\ \A x \in Exporters \ Late : exporter[x] = key[x]
             /\ media' = [media EXCEPT !.at = 0, !.verdict = "ok"]
    <2>1. 0 \in 0..Len(Plan)
      BY PlanType
    <2>2. media' \in MediaState /\ media'.at = 0
      BY <1>2, <2>1 DEF MediaInv, MediaType, MediaState
    <2>3. ~touched => Wired
      BY <1>1, <1>2, AllWired
    <2>4. ~touched' => Wired'
      BY <1>1, <2>3 DEF stack, Wired
    <2>5. MediaType'
      BY <1>1, <2>2 DEF stack, MediaInv, MediaType
    <2> QED
      BY <2>2, <2>4, <2>5 DEF MediaInv, Progress, Outcome
  <1>3. CASE Fail
    <2>1. Advances("metrics", "none")
      BY <1>1, <1>3, QuietFailure
    <2> QED
      BY <1>1, <2>1, AdvancesOK
  <1> QED
    BY <1>2, <1>3 DEF MetricsGate

-----------------------------------------------------------------------------
(* Failures and the services *)

LEMMA MediaIsKilled ==
  ASSUME MediaInv, MediaKilled
  PROVE  MediaInv'
  <1>1. /\ media' \in MediaState /\ media'.at = 0 /\ media'.verdict = "failed"
    BY StoppedType DEF MediaKilled, Fail, Stopped
  <1>2. mediaFaults' \in 0..MaxMediaFaults /\ mediaFaults' >= mediaFaults
    BY MediaFaultType DEF MediaKilled, MediaInv, MediaType
  <1>3. UNCHANGED <<stack, touched>>
    BY DEF MediaKilled
  <1>4. key' \in [Keyed -> Credentials] /\ \A t \in Keyed : key'[t] \in 1..(mediaFaults' + 1)
    BY <1>2, <1>3 DEF stack, MediaInv, MediaType
  <1>5. MediaType'
    BY <1>1, <1>2, <1>3, <1>4 DEF stack, MediaInv, MediaType
  <1> QED
    BY <1>1, <1>5 DEF MediaInv, Progress, Outcome

LEMMA ServicesChange ==
  ASSUME MediaInv, CronSync \/ DownloaderReady \/ \E s \in Services : ServiceReset(s)
  PROVE  MediaInv'
  <1>1. CASE CronSync
    <2>1. /\ touched' = TRUE /\ UNCHANGED <<key, link, secret, exporter, downloader, token,
                                       media>>
          /\ MediaFault /\ Recyclarr(ManagedSet)
      BY <1>1 DEF CronSync
    <2>2. mediaFaults' \in 0..MaxMediaFaults /\ mediaFaults' >= mediaFaults
      BY <2>1, MediaFaultType DEF MediaInv, MediaType
    <2>3. key' \in [Keyed -> Credentials] /\ \A t \in Keyed : key'[t] \in 1..(mediaFaults' + 1)
      BY <2>1, <2>2 DEF MediaInv, MediaType
    <2>4. /\ config' \in [Services -> SUBSET AllSettings]
          /\ \A s \in Services : config'[s] \subseteq Settings(s)
      BY <2>1, RecyclarrConfig DEF MediaInv
    <2>5. MediaType'
      BY <2>1, <2>2, <2>3, <2>4 DEF MediaInv, MediaType
    <2> QED
      BY <2>1, <2>5 DEF MediaInv, Progress, Outcome
  <1>2. CASE DownloaderReady
    <2>1. MediaType'
      BY <1>2 DEF DownloaderReady, MediaInv, MediaType
    <2>2. Progress'
      BY <1>2 DEF DownloaderReady, MediaInv, Progress, Did, DidSettings, DidKeys,
         DidLinks, LinkOK, held
    <2>3. Outcome'
      BY <1>2 DEF DownloaderReady, MediaInv, Outcome, Wired
    <2> QED
      BY <2>1, <2>2, <2>3 DEF MediaInv
  <1>3. ASSUME NEW s \in Services, ServiceReset(s)
        PROVE  MediaInv'
    <2>1. /\ touched' = TRUE /\ UNCHANGED <<secret, exporter, downloader, media>>
          /\ MediaFault /\ mediaFaults' = mediaFaults + 1 /\ mediaFaults < MaxMediaFaults
          /\ token' = TokenAfterReset(s)
      BY <1>3 DEF ServiceReset, MediaFault
    <2>2. mediaFaults' \in 0..MaxMediaFaults
      BY <2>1, MediaFaultType DEF MediaInv, MediaType
    <2>3. key' \in [Keyed -> Credentials] /\ \A t \in Keyed : key'[t] \in 1..(mediaFaults' + 1)
      <3>1. key' = [x \in Keyed |-> IF x = s THEN key[x] + 1 ELSE key[x]]
        BY <1>3 DEF ServiceReset
      <3>2. \A x \in Keyed : key'[x] \in 1..(mediaFaults' + 1)
        BY <2>1, <3>1 DEF MediaInv, MediaType
      <3>3. \A x \in Keyed : key'[x] \in Credentials
        BY <2>2, <3>2, MediaAssumption DEF Credentials
      <3> QED
        BY <3>1, <3>2, <3>3
    <2>4. /\ config' \in [Services -> SUBSET AllSettings]
          /\ \A t \in Services : config'[t] \subseteq Settings(t)
      BY <1>3 DEF ServiceReset, MediaInv, MediaType
    <2>5. /\ link' \in [Links -> Integration]
          /\ \A l \in Links : l[1] = "seerr" => ~link'[l].manual
          /\ \A l \in Links : link'[l].own = 1 => ~link'[l].manual
      <3>1. Unlinked \in Integration /\ ~Unlinked.manual
        BY MediaAssumption DEF Unlinked, Integration, Credentials
      <3>2. link' = [l \in Links |-> IF l[1] = s THEN Unlinked ELSE link[l]]
        BY <1>3 DEF ServiceReset
      <3> QED
        BY <3>1, <3>2 DEF MediaInv, MediaType
    <2>6. token' \in {"none", "good", "stale"}
      BY <2>1 DEF TokenAfterReset, MediaInv, MediaType
    <2>7. MediaType'
      BY <2>1, <2>2, <2>3, <2>4, <2>5, <2>6 DEF MediaInv, MediaType
    <2> QED
      BY <2>1, <2>7 DEF MediaInv, Progress, Outcome
  <1> QED
    BY <1>1, <1>2, <1>3

-----------------------------------------------------------------------------
(* The theorems *)

LEMMA InitMedia == MediaInit => MediaInv
  <1> SUFFICES ASSUME MediaInit
               PROVE  MediaInv
    OBVIOUS
  <1>1. /\ key = [s \in Keyed |-> 1] /\ 0 \in Credentials /\ 1 \in Credentials
        /\ mediaFaults = 0 /\ 0 \in 0..MaxMediaFaults
    BY MediaAssumption DEF MediaInit, Credentials
  <1>2. key \in [Keyed -> Credentials] /\ \A s \in Keyed : key[s] \in 1..(mediaFaults + 1)
    BY <1>1
  <1>3. /\ config \in [Services -> SUBSET AllSettings]
        /\ \A s \in Services : config[s] \subseteq Settings(s)
    <2>1. \A s \in Services : config[s] \subseteq Settings(s)
      <3>1. \/ config = [s \in Services |-> {}]
            \/ config = [s \in Services |-> IF s = "seerr" THEN {"server", "initialized"}
                                           ELSE IF s = "jellyfin" THEN {"admin"} ELSE {}]
        BY DEF MediaInit
      <3> QED
        BY <3>1, SettingsOf
    <2>2. \A s \in Services : Settings(s) \subseteq AllSettings
      BY DEF AllSettings
    <2>3. config = [s \in Services |-> config[s]]
      BY DEF MediaInit
    <2> QED
      BY <2>1, <2>2, <2>3
  <1>4. /\ link \in [Links -> Integration]
        /\ \A l \in Links : l[1] = "seerr" => ~link[l].manual
        /\ \A l \in Links : link[l].own = 0
    <2>1. PICK manual \in SUBSET {"prowlarr", Arrs[1]} :
            link = [l \in Links |-> [Unlinked EXCEPT !.manual = l[1] \in manual]]
      BY DEF MediaInit
    <2>2. "seerr" \notin manual
      <3>1. Arrs[1] \in ArrSet
        <4>1. 1 \in 1..Len(Arrs)
          BY MediaAssumption, EmptySeq, LenProperties
        <4> QED
          BY <4>1, ArrNames
      <3> QED
        BY <3>1, MediaAssumption
    <2>3. ASSUME NEW l \in Links
          PROVE  /\ [Unlinked EXCEPT !.manual = l[1] \in manual] \in Integration
                 /\ l[1] = "seerr" => ~[Unlinked EXCEPT !.manual = l[1] \in manual].manual
                 /\ [Unlinked EXCEPT !.manual = l[1] \in manual].own = 0
      <3> DEFINE m == l[1] \in manual
      <3>1. m \in BOOLEAN /\ (l[1] = "seerr" => m = FALSE)
        BY <2>2
      <3> HIDE DEF m
      <3>2. Unlinked \in Integration
        BY <1>1 DEF Unlinked, Integration
      <3>3. /\ [Unlinked EXCEPT !.manual = m] \in Integration
            /\ [Unlinked EXCEPT !.manual = m].manual = m
            /\ [Unlinked EXCEPT !.manual = m].own = 0
        BY <3>1, <3>2 DEF Integration, Unlinked
      <3>4. l[1] = "seerr" => ~[Unlinked EXCEPT !.manual = m].manual
        BY <3>1, <3>3
      <3> QED
        BY <3>3, <3>4 DEF m
    <2>4. \A l \in Links : link[l] = [Unlinked EXCEPT !.manual = l[1] \in manual]
      BY <2>1
    <2>5. link = [l \in Links |-> link[l]]
      BY <2>1
    <2> QED
      BY <2>3, <2>4, <2>5
  <1>5. secret \in [SecretKeys -> Credentials] /\ exporter \in [Exporters -> Credentials]
    BY <1>1 DEF MediaInit
  <1>6. media \in MediaState /\ media.at = 0 /\ media.verdict = "new"
    BY StoppedType DEF MediaInit, Stopped
  <1>7. token \in {"none", "good", "stale"}
    BY DEF MediaInit
  <1>8. \A l \in Links : link[l].own = 1 => ~link[l].manual
    BY <1>4
  <1>9. MediaType
    BY <1>1, <1>2, <1>3, <1>4, <1>5, <1>6, <1>7, <1>8 DEF MediaInit, MediaType
  <1> QED
    BY <1>6, <1>9 DEF MediaInv, Progress, Outcome

LEMMA MediaStepsKeep ==
  ASSUME MediaInv, MediaStep
  PROVE  MediaInv'
  <1>1. CASE StartMedia \/ ReadKeys \/ MetricsGate
    BY <1>1, MediaStarts, KeysRead, MetricsStep
  <1>2. CASE DownloaderGate \/ QbittorrentPreferences \/ QbittorrentCategories
               \/ SabnzbdBootstrap
    BY <1>2, DownloaderSteps
  <1>3. CASE \E a \in ArrSet : ReadLateKey(a) \/ RootFolder(a) \/ CommonSettings(a)
                               \/ ProwlarrApplication(a)
    BY <1>3, LateKeyRead, ArrSettings, ArrApplications
  <1>4. CASE \E c \in ArrSet \cup {"prowlarr"} : QbittorrentClient(c) \/ SabnzbdClient(c)
    BY <1>4, ArrClients
  <1>5. CASE FlaresolverrProxy \/ Indexers \/ BazarrBootstrap
    BY <1>5, ProwlarrSteps, BazarrStep
  <1>6. CASE RuntimeSecret \/ RestartExporters \/ QualityPolicy
    BY <1>6, SecretStep, RestartStep, QualityStep
  <1>7. CASE JellyfinWizard \/ JellyfinPosture \/ JellyfinLibraries
    BY <1>7, JellyfinSteps
  <1>8. CASE SeerrLogin \/ SeerrUrl \/ SeerrDiscovery \/ SeerrInitialize
    BY <1>8, LoginStep, SeerrSettings
  <1>9. CASE \E a \in ManagedSet : SeerrServer(a) \/ LanguagePreferences(a)
    BY <1>9, ServerStep, LanguageStep
  <1> QED
    BY <1>1, <1>2, <1>3, <1>4, <1>5, <1>6, <1>7, <1>8, <1>9 DEF MediaStep

LEMMA MediaNextKeeps == MediaInv /\ [MediaNext]_mediaVars => MediaInv'
  <1> SUFFICES ASSUME MediaInv, [MediaNext]_mediaVars
               PROVE  MediaInv'
    OBVIOUS
  <1>1. CASE MediaStep
    BY <1>1, MediaStepsKeep
  <1>2. CASE MediaKilled
    BY <1>2, MediaIsKilled
  <1>3. CASE CronSync \/ DownloaderReady \/ \E s \in Services : ServiceReset(s)
    BY <1>3, ServicesChange
  <1>4. CASE UNCHANGED mediaVars
    <2>1. MediaType'
      BY <1>4 DEF mediaVars, stack, MediaInv, MediaType
    <2>2. Progress'
      BY <1>4 DEF mediaVars, stack, MediaInv, Progress, Did, DidSettings, DidKeys,
         DidLinks, LinkOK, held
    <2>3. Outcome'
      BY <1>4 DEF mediaVars, stack, MediaInv, Outcome, Wired
    <2> QED
      BY <2>1, <2>2, <2>3 DEF MediaInv
  <1> QED
    BY <1>1, <1>2, <1>3, <1>4 DEF MediaNext

LEMMA MediaAlways == MediaSpec => []MediaInv
  BY InitMedia, MediaNextKeeps, PTL DEF MediaSpec

\* Type correctness: the keys stay within the number of resets, and no service
\* has a setting that is not managed for it.
THEOREM MediaTypeCorrect == MediaSpec => []MediaTypeOK
  <1>1. MediaInv => MediaTypeOK
    <2>1. 0..1 \subseteq 0..2
      OBVIOUS
    <2>2. MediaType /\ mediaFaults \in 0..MaxMediaFaults
            => key \in [Keyed -> 1..(MaxMediaFaults + 1)]
      BY MediaAssumption DEF MediaType
    <2>3. MediaType => link \in [Links -> [own : 0..2, manual : BOOLEAN, key : Credentials]]
      BY <2>1 DEF MediaType, Integration
    <2> QED
      BY <2>2, <2>3 DEF MediaInv, MediaType, MediaState, MediaTypeOK, Credentials
  <1> QED
    BY <1>1, MediaAlways, PTL

\* No integration is made twice by find_service_integration and the POST or
\* PUT that follows, however many runs are repeated and replies lost; and the
\* one that somebody made by hand is taken over, never kept beside the managed
\* one.
THEOREM IntegrationsAreSingle == MediaSpec => []NoDoubleIntegration
  <1>1. MediaInv => NoDoubleIntegration
    <2> SUFFICES ASSUME MediaInv, NEW l \in Links
                 PROVE  Integrations(link[l]) <= 1
      BY DEF NoDoubleIntegration
    <2>1. link[l] \in Integration /\ (link[l].own = 1 => ~link[l].manual)
      BY DEF MediaInv, MediaType
    <2>2. link[l].own \in 0..1 /\ link[l].manual \in BOOLEAN
      BY <2>1 DEF Integration
    <2> QED
      BY <2>1, <2>2 DEF Integrations
  <1> QED
    BY <1>1, MediaAlways, PTL

\* reconcile_media_stack that ends well while no service loses anything leaves
\* everything wired with the present keys.
THEOREM SettledIsWired == MediaSpec => []SettledMeansWired
  <1>1. MediaInv => SettledMeansWired
    BY DEF MediaInv, Outcome, SettledMeansWired
  <1> QED
    BY <1>1, MediaAlways, PTL
=============================================================================
