---------------------------- MODULE Services_proofs ---------------------------
(***************************************************************************)
(* What is proved of the services: of the registry, the dashboard's        *)
(* server, the sellers, the orchestrator, the indexer and its stores, and  *)
(* what the agents share, for every value of their constants, each in the  *)
(* midst of all the others.                                                *)
(***************************************************************************)
EXTENDS MCServices, Sums_proofs, SequenceTheorems, FiniteSetTheorems, WellFoundedInduction,
        TLAPS

----------------------------------------------------------------------------
(* The agent registry and its health monitor. *)

RegistrySpec == RegistryInit /\ [][RegistryNext]_registryVars

Verdicts == [status : {"unknown", "none", "Online", "Offline"}, failures : Nat]

(***************************************************************************)
(* A probe of an agent the monitor forgot is still in its cycle, and while *)
(* it is, the monitor holds no new state of that agent: otherwise its late *)
(* verdict could be applied over a newer one.                              *)
(***************************************************************************)
LateProbes ==
    /\ probing = FALSE => probes = {}
    /\ \A a \in Agents : detached[a] # Unknown => a \in probes /\ states[a] = Unknown

(***************************************************************************)
(* What the monitor holds for offline, the registry does not show online,  *)
(* whether or not the agent sends its heartbeats.                          *)
(***************************************************************************)
VerdictsShown ==
    \A a \in Agents \ renewed : states[a].status = "Offline" => active[a].status # "Online"

RegistryInv ==
    /\ active \in [Agents -> [beat : Nat, status : {"none", "Online", "Offline"}]]
    /\ states \in [Agents -> Verdicts] /\ detached \in [Agents -> Verdicts]
    /\ now \in Nat /\ probes \subseteq Agents /\ probing \in BOOLEAN
    /\ LateProbes /\ VerdictsShown

LEMMA RegistryStarts == RegistryInit => RegistryInv
<1> SUFFICES ASSUME RegistryInit PROVE RegistryInv
  OBVIOUS
<1>1. /\ active \in [Agents -> [beat : Nat, status : {"none", "Online", "Offline"}]]
      /\ states \in [Agents -> Verdicts] /\ detached \in [Agents -> Verdicts]
  BY DEF RegistryInit, Absent, Unknown, Verdicts
<1>2. LateProbes /\ VerdictsShown
  BY DEF RegistryInit, Unknown, LateProbes, VerdictsShown
<1> QED
  BY <1>1, <1>2 DEF RegistryInit, RegistryInv

LEMMA StatusIsSet ==
    ASSUME RegistryInv, NEW a \in Agents, NEW new \in {"Online", "Offline"}
    PROVE  /\ SetStatus(a, new) \in
                  [Agents -> [beat : Nat, status : {"none", "Online", "Offline"}]]
           /\ \A b \in Agents \ {a} : SetStatus(a, new)[b] = active[b]
BY DEF SetStatus, RegistryInv

LEMMA RegistryStep == RegistryInv /\ [RegistryNext]_registryVars => RegistryInv'
<1> SUFFICES ASSUME RegistryInv, [RegistryNext]_registryVars PROVE RegistryInv'
  OBVIOUS
<1> USE DEF RegistryInv, Verdicts
<1>1. ASSUME NEW a \in Agents, Heartbeat(a) PROVE RegistryInv'
  BY <1>1 DEF Heartbeat, monitor, Registered, LateProbes, VerdictsShown
<1>2. ASSUME NEW a \in Agents, Delete(a) PROVE RegistryInv'
  BY <1>2 DEF Delete, monitor, Absent, LateProbes, VerdictsShown
<1>3. ASSUME NEW a \in Agents, RecordSuccess(a) PROVE RegistryInv'
  <2>1. /\ a \in probes /\ EndOfProbe(a) /\ now' = now
        /\ Record(a, [status |-> "Online", failures |-> 0])
    BY <1>3 DEF RecordSuccess
  <2>2. /\ states' \in [Agents -> Verdicts] /\ detached' \in [Agents -> Verdicts]
        /\ probes' \subseteq Agents /\ probing' \in BOOLEAN /\ LateProbes'
    BY <2>1 DEF EndOfProbe, Record, Unknown, LateProbes
  <2>3. /\ active' \in [Agents -> [beat : Nat, status : {"none", "Online", "Offline"}]]
        /\ \A b \in Agents \ {a} : active'[b] = active[b]
        /\ renewed' = renewed \/ (renewed' = renewed \ {a} /\ Held(a).status = "Offline")
        /\ Held(a).status # "Offline" => active' = active /\ renewed' = renewed
    BY <1>3, StatusIsSet DEF RecordSuccess
  <2>4. VerdictsShown'
    <3>1. states'[a].status # "Offline"
      BY <2>1 DEF Record, Unknown, LateProbes
    <3>2. \A b \in Agents \ {a} : states'[b] = states[b]
      BY <2>1 DEF Record
    <3> QED
      BY <2>3, <3>1, <3>2 DEF VerdictsShown
  <2> QED
    BY <2>1, <2>2, <2>3, <2>4
<1>4. ASSUME NEW a \in Agents, RecordFailure(a) PROVE RegistryInv'
  <2>1. PICK new \in Verdicts :
          /\ Record(a, new)
          /\ new.status = Held(a).status \/ new.status = "Offline"
          /\ new.status = "Offline" /\ Held(a).status # "Offline" =>
               active' = SetStatus(a, "Offline") /\ renewed' = renewed \ {a}
          /\ ~(new.status = "Offline" /\ Held(a).status # "Offline") =>
               active' = active /\ renewed' = renewed
    <3> DEFINE failures == IF Held(a).failures < failureThreshold THEN Held(a).failures + 1
                           ELSE failureThreshold
               goesOff == Held(a).status # "Offline" /\ failures >= failureThreshold
               verdict == [status |-> IF goesOff THEN "Offline" ELSE Held(a).status,
                           failures |-> failures]
    <3>1. Held(a) \in Verdicts
      BY DEF Held
    <3>2. failures \in Nat
      BY <3>1, RegistryAssumption
    <3> HIDE DEF failures
    <3>3. /\ Record(a, verdict)
          /\ IF goesOff THEN active' = SetStatus(a, "Offline") /\ renewed' = renewed \ {a}
             ELSE active' = active /\ renewed' = renewed
      BY <1>4 DEF RecordFailure, failures
    <3>4. verdict \in Verdicts
      BY <3>1, <3>2
    <3> QED
      BY <3>3, <3>4
  <2>2. a \in probes /\ EndOfProbe(a) /\ now' = now
    BY <1>4 DEF RecordFailure
  <2>3. /\ states' \in [Agents -> Verdicts] /\ detached' \in [Agents -> Verdicts]
        /\ probes' \subseteq Agents /\ probing' \in BOOLEAN /\ LateProbes'
    BY <2>1, <2>2 DEF EndOfProbe, Record, Unknown, LateProbes
  <2>4. /\ active' \in [Agents -> [beat : Nat, status : {"none", "Online", "Offline"}]]
        /\ \A b \in Agents \ {a} : active'[b] = active[b]
        /\ renewed' = renewed \/ renewed' = renewed \ {a}
    BY <2>1, StatusIsSet
  <2>5. VerdictsShown'
    <3>1. \A b \in Agents \ {a} : states'[b] = states[b]
      BY <2>1 DEF Record
    <3>2. a \notin renewed' /\ states'[a].status = "Offline" => active'[a].status # "Online"
      BY <2>1 DEF Record, Held, SetStatus, Registered, Unknown, LateProbes, VerdictsShown
    <3> QED
      BY <2>4, <3>1, <3>2 DEF VerdictsShown
  <2> QED
    BY <2>2, <2>3, <2>4, <2>5
<1>5. ASSUME NEW a \in Agents, Forget(a) PROVE RegistryInv'
  BY <1>5 DEF Forget, Unknown, LateProbes, VerdictsShown
<1>6. CASE SweepStale
  BY <1>6 DEF SweepStale, monitor, Absent, Registered, LateProbes, VerdictsShown
<1>7. CASE ProbeOnce
  BY <1>7 DEF ProbeOnce, getState, Registered, Unknown, LateProbes, VerdictsShown
<1>8. CASE NothingToProbe \/ SendAlert \/ StartStop \/ UNCHANGED registryVars
  BY <1>8 DEF NothingToProbe, SendAlert, StartStop, registryVars, LateProbes, VerdictsShown
<1>9. ASSUME NEW a \in Agents, DeregisterOnChain(a) PROVE RegistryInv'
  BY <1>9 DEF DeregisterOnChain, monitor, LateProbes, VerdictsShown
<1>10. ASSUME NEW a \in Agents, NotifyRegistry(a) PROVE RegistryInv'
  BY <1>2, <1>10 DEF NotifyRegistry
<1> QED
  BY <1>1, <1>2, <1>3, <1>4, <1>5, <1>6, <1>7, <1>8, <1>9, <1>10 DEF RegistryNext

(***************************************************************************)
(* An agent that failed its health checks is not listed as online before a *)
(* probe of it succeeds, whatever heartbeats, sweeps, forgotten states and *)
(* late probes come in between (agents/registry: server.ts, monitor.ts);   *)
(* it is for every number of agents and every threshold.                   *)
(***************************************************************************)
THEOREM OfflineStaysUnlisted == RegistrySpec => []OfflineIsNotListed
<1>1. RegistryInv => OfflineIsNotListed
  BY DEF RegistryInv, VerdictsShown, OfflineIsNotListed, getAliveAgents
<1> QED
  BY <1>1, RegistryStarts, RegistryStep, PTL DEF RegistrySpec

(***************************************************************************)
(* No beat is of a later time than now, and no more failures are counted   *)
(* than put an agent offline.                                              *)
(***************************************************************************)
RegistryBounds ==
    /\ now \in 1 .. MaxTime /\ monitoring \in BOOLEAN
    /\ \A a \in Agents : /\ active[a].beat <= now
                         /\ states[a].failures <= failureThreshold
                         /\ detached[a].failures <= failureThreshold

LEMMA RegistryBoundsStep ==
    RegistryInv /\ RegistryBounds /\ [RegistryNext]_registryVars => RegistryBounds'
<1> SUFFICES ASSUME RegistryInv, RegistryBounds, [RegistryNext]_registryVars
             PROVE  RegistryBounds'
  OBVIOUS
<1> USE DEF RegistryBounds
<1>0. /\ active \in [Agents -> [beat : Nat, status : {"none", "Online", "Offline"}]]
      /\ states \in [Agents -> Verdicts] /\ detached \in [Agents -> Verdicts]
      /\ now \in Nat /\ MaxTime \in Nat /\ failureThreshold \in Nat
  BY RegistryAssumption DEF RegistryInv
<1>1. ASSUME NEW a \in Agents, Heartbeat(a) PROVE RegistryBounds'
  BY <1>0, <1>1 DEF Heartbeat, monitor
<1>2. ASSUME NEW a \in Agents, Delete(a) PROVE RegistryBounds'
  BY <1>0, <1>2 DEF Delete, monitor, Absent
<1>3. ASSUME NEW a \in Agents, RecordSuccess(a) PROVE RegistryBounds'
  BY <1>0, <1>3 DEF RecordSuccess, Record, SetStatus, Unknown, Verdicts
<1>4. ASSUME NEW a \in Agents, RecordFailure(a) PROVE RegistryBounds'
  <2>1. PICK new \in Verdicts : Record(a, new) /\ new.failures <= failureThreshold
    BY <1>0, <1>4 DEF RecordFailure, Held, Verdicts
  <2>2. \A b \in Agents : active'[b].beat = active[b].beat
    BY <1>0, <1>4 DEF RecordFailure, SetStatus
  <2>3. now' = now /\ monitoring' = monitoring
    BY <1>4 DEF RecordFailure
  <2>4. \A b \in Agents : /\ states'[b].failures <= failureThreshold
                          /\ detached'[b].failures <= failureThreshold
    BY <1>0, <2>1 DEF Record, Unknown, Verdicts
  <2> QED
    BY <2>2, <2>3, <2>4
<1>5. ASSUME NEW a \in Agents, Forget(a) PROVE RegistryBounds'
  BY <1>0, <1>5 DEF Forget, Unknown, Verdicts
<1>6. CASE SweepStale
  BY <1>0, <1>6 DEF SweepStale, monitor, Absent
<1>7. CASE ProbeOnce
  BY <1>0, <1>7 DEF ProbeOnce, getState, Verdicts
<1>8. CASE NothingToProbe \/ SendAlert \/ StartStop \/ UNCHANGED registryVars
  BY <1>0, <1>8 DEF NothingToProbe, SendAlert, StartStop, registryVars
<1>9. ASSUME NEW a \in Agents, DeregisterOnChain(a) PROVE RegistryBounds'
  BY <1>9 DEF DeregisterOnChain, monitor
<1>10. ASSUME NEW a \in Agents, NotifyRegistry(a) PROVE RegistryBounds'
  BY <1>2, <1>10 DEF NotifyRegistry
<1> QED
  BY <1>1, <1>2, <1>3, <1>4, <1>5, <1>6, <1>7, <1>8, <1>9, <1>10 DEF RegistryNext

LEMMA RegistryStaysTyped == RegistrySpec => []RegistryTypeOK
<1>1. RegistryInit => RegistryBounds
  BY RegistryAssumption DEF RegistryInit, RegistryBounds, Absent, Unknown
<1>2. RegistryInv /\ RegistryBounds => RegistryTypeOK
  <2> SUFFICES ASSUME RegistryInv, RegistryBounds PROVE RegistryTypeOK
    OBVIOUS
  <2>1. getAliveAgents \subseteq getAgent
    BY DEF getAliveAgents, getAgent
  <2>2. ASSUME NEW a \in Agents
        PROVE  /\ active[a].beat \in 0..now
               /\ active[a].status \in {"none", "Online", "Offline"}
               /\ states[a].status \in {"unknown", "none", "Online", "Offline"}
               /\ states[a].failures \in 0..failureThreshold
               /\ detached[a] # Unknown => a \in probes
    BY RegistryAssumption DEF RegistryInv, RegistryBounds, Verdicts, LateProbes
  <2> QED
    BY <2>1, <2>2 DEF RegistryInv, RegistryBounds, RegistryTypeOK
<1> QED
  BY <1>1, <1>2, RegistryStarts, RegistryStep, RegistryBoundsStep, PTL DEF RegistrySpec

----------------------------------------------------------------------------
(* The dashboard's server: transactions it builds and sends once signed. *)

DashboardTxSpec == DashboardTxInit /\ [][DashboardTxNext]_dashTxVars

(***************************************************************************)
(* A build is paid for once: by the hash it left behind, or by the request *)
(* that took that hash away.                                               *)
(***************************************************************************)
BuildsAreSpent ==
    \A t \in Txs : sends[t] + (IF t \in pendingTxHashes THEN 1 ELSE 0) <= built[t]

(***************************************************************************)
(* What the ledger executed has changed the jobs, and a request that was   *)
(* answered 200 saw it executed and told the listeners.                    *)
(***************************************************************************)
ExecutionIsTold ==
    /\ \A t \in Txs : ledger[t] = "SUCCESS" => version > 0
    /\ \A p \in SubmitPosts : posts[p].at = "200" => ledger[posts[p].tx] = "SUCCESS" /\ told > 0

DashboardTxInv ==
    /\ pendingTxHashes \subseteq Txs /\ built \in [Txs -> Nat] /\ sends \in [Txs -> Nat]
    /\ posts \in [SubmitPosts ->
         [at : {"unsent", "sending", "polling", "200", "400", "500"}, tx : Txs]]
    /\ ledger \in [Txs -> {"unknown", "sent", "SUCCESS", "FAILED"}]
    /\ version \in Nat /\ told \in Nat
    /\ BuildsAreSpent /\ ExecutionIsTold

LEMMA DashboardTxStarts == DashboardTxInit => DashboardTxInv
BY DEF DashboardTxInit, DashboardTxInv, BuildsAreSpent, ExecutionIsTold

LEMMA DashboardTxStep == DashboardTxInv /\ [DashboardTxNext]_dashTxVars => DashboardTxInv'
<1> SUFFICES ASSUME DashboardTxInv, [DashboardTxNext]_dashTxVars PROVE DashboardTxInv'
  OBVIOUS
<1> USE DEF DashboardTxInv
<1>1. ASSUME NEW t \in Txs, BuildTx(t) PROVE DashboardTxInv'
  BY <1>1 DEF BuildTx, BuildsAreSpent, ExecutionIsTold
<1>2. ASSUME NEW t \in Txs, NEW fate \in {"SUCCESS", "FAILED"}, LedgerIncludes(t, fate)
      PROVE  DashboardTxInv'
  BY <1>2 DEF LedgerIncludes, BuildsAreSpent, ExecutionIsTold
<1>3. ASSUME NEW p \in SubmitPosts, TakePostedTx(p) PROVE DashboardTxInv'
  BY <1>3 DEF TakePostedTx, BuildsAreSpent, ExecutionIsTold
<1>4. ASSUME NEW p \in SubmitPosts, RefusePostedTx(p) \/ PollFails(p) PROVE DashboardTxInv'
  BY <1>4 DEF RefusePostedTx, PollFails, BuildsAreSpent, ExecutionIsTold
<1>5. ASSUME NEW p \in SubmitPosts, PollPostedTx(p) PROVE DashboardTxInv'
  BY <1>5 DEF PollPostedTx, Invalidated, BuildsAreSpent, ExecutionIsTold
<1>6. ASSUME NEW p \in SubmitPosts, NEW accepted \in BOOLEAN, NEW answered \in BOOLEAN,
             SendPostedTx(p, accepted, answered)
      PROVE  DashboardTxInv'
  BY <1>6 DEF SendPostedTx, BuildsAreSpent, ExecutionIsTold
<1>7. CASE DemoCall
  BY <1>7 DEF DemoCall, BuildsAreSpent, ExecutionIsTold
<1>8. ASSUME NEW r \in Readers, FromCache(r) \/ Fetch(r) \/ Fetched(r) PROVE DashboardTxInv'
  BY <1>8 DEF FromCache, Fetch, Fetched, BuildsAreSpent, ExecutionIsTold
<1>9. CASE CacheExpires \/ UNCHANGED dashTxVars
  BY <1>9 DEF CacheExpires, dashTxVars, BuildsAreSpent, ExecutionIsTold
<1> QED
  BY <1>1, <1>2, <1>3, <1>4, <1>5, <1>6, <1>7, <1>8, <1>9 DEF DashboardTxNext

(***************************************************************************)
(* However many requests carry one signed transaction, and however sends   *)
(* and answers are lost, no build is sent twice, and 200 is answered only  *)
(* for what the ledger executed, with the listeners told                   *)
(* (dashboard/server.ts: pendingTxHashes, POST /api/submit).               *)
(***************************************************************************)
THEOREM BuildsAreSentOnce == DashboardTxSpec => []SentOnce
<1>1. DashboardTxInv => SentOnce
  BY DEF DashboardTxInv, BuildsAreSpent, ExecutionIsTold, SentOnce
<1> QED
  BY <1>1, DashboardTxStarts, DashboardTxStep, PTL DEF DashboardTxSpec

(***************************************************************************)
(* Only what was built is pending, and no list shows more changes than     *)
(* there were.                                                             *)
(***************************************************************************)
DashboardTxBounds ==
    /\ \A t \in pendingTxHashes : built[t] > 0
    /\ version <= MaxVersion /\ told <= version
    /\ jobCache \in [data : 0 .. version, fresh : BOOLEAN]
    /\ readers \in [Readers -> [at : {"idle", "fetching", "done"}, read : 0 .. version]]

LEMMA DashboardTxBoundsStep ==
    DashboardTxInv /\ DashboardTxBounds /\ [DashboardTxNext]_dashTxVars => DashboardTxBounds'
<1> SUFFICES ASSUME DashboardTxInv, DashboardTxBounds, [DashboardTxNext]_dashTxVars
             PROVE  DashboardTxBounds'
  OBVIOUS
<1> USE DEF DashboardTxBounds
<1>0. /\ version \in Nat /\ told \in Nat /\ MaxVersion \in Nat /\ built \in [Txs -> Nat]
      /\ pendingTxHashes \subseteq Txs
  BY DashboardTxAssumption DEF DashboardTxInv
<1>1. ASSUME NEW t \in Txs, BuildTx(t) PROVE DashboardTxBounds'
  BY <1>0, <1>1 DEF BuildTx
<1>2. ASSUME NEW t \in Txs, NEW fate \in {"SUCCESS", "FAILED"}, LedgerIncludes(t, fate)
      PROVE  DashboardTxBounds'
  <2>1. version' \in Nat /\ version <= version' /\ version' <= MaxVersion
    BY <1>0, <1>2 DEF LedgerIncludes
  <2>2. UNCHANGED <<pendingTxHashes, built, jobCache, readers, told>>
    BY <1>2 DEF LedgerIncludes
  <2>3. 0 .. version \subseteq 0 .. version'
    BY <1>0, <2>1
  <2> QED
    BY <1>0, <2>1, <2>2, <2>3
<1>3. ASSUME NEW p \in SubmitPosts, TakePostedTx(p) PROVE DashboardTxBounds'
  BY <1>3 DEF TakePostedTx
<1>4. ASSUME NEW p \in SubmitPosts, RefusePostedTx(p) \/ PollFails(p)
      PROVE  DashboardTxBounds'
  BY <1>4 DEF RefusePostedTx, PollFails
<1>5. ASSUME NEW p \in SubmitPosts, PollPostedTx(p) PROVE DashboardTxBounds'
  <2>1. /\ UNCHANGED <<pendingTxHashes, built, version, readers>>
        /\ told' \in {told, version}
        /\ jobCache' \in {jobCache, [jobCache EXCEPT !.fresh = FALSE]}
    BY <1>5 DEF PollPostedTx, Invalidated
  <2>2. jobCache' \in [data : 0 .. version, fresh : BOOLEAN]
    BY <2>1
  <2> QED
    BY <1>0, <2>1, <2>2
<1>6. ASSUME NEW p \in SubmitPosts, NEW accepted \in BOOLEAN, NEW answered \in BOOLEAN,
             SendPostedTx(p, accepted, answered)
      PROVE  DashboardTxBounds'
  BY <1>6 DEF SendPostedTx
<1>7. CASE DemoCall
  <2>1. version' = version + 1 /\ version' <= MaxVersion /\ told' = version'
    BY <1>0, <1>7 DEF DemoCall
  <2>2. /\ UNCHANGED <<pendingTxHashes, built, readers>>
        /\ jobCache' = [jobCache EXCEPT !.fresh = FALSE]
    BY <1>7 DEF DemoCall
  <2>3. 0 .. version \subseteq 0 .. version'
    BY <1>0, <2>1
  <2>4. jobCache' \in [data : 0 .. version', fresh : BOOLEAN]
    BY <2>2, <2>3
  <2>5. readers' \in [Readers -> [at : {"idle", "fetching", "done"}, read : 0 .. version']]
    BY <2>2, <2>3
  <2> QED
    BY <1>0, <2>1, <2>2, <2>4, <2>5
<1>8. ASSUME NEW r \in Readers, FromCache(r) \/ Fetch(r) \/ Fetched(r)
      PROVE  DashboardTxBounds'
  <2>1. UNCHANGED <<pendingTxHashes, built, version, told>>
    BY <1>8 DEF FromCache, Fetch, Fetched
  <2>2. jobCache' = jobCache \/ jobCache' = [data |-> readers[r].read, fresh |-> TRUE]
    BY <1>8 DEF FromCache, Fetch, Fetched
  <2>3. jobCache' \in [data : 0 .. version, fresh : BOOLEAN]
    <3> DEFINE read == readers[r].read
    <3>1. read \in 0 .. version
      OBVIOUS
    <3>2. jobCache' = jobCache \/ jobCache' = [data |-> read, fresh |-> TRUE]
      BY <2>2
    <3> HIDE DEF read
    <3>3. jobCache \in [data : 0 .. version, fresh : BOOLEAN]
      OBVIOUS
    <3>4. [data |-> read, fresh |-> TRUE] \in [data : 0 .. version, fresh : BOOLEAN]
      BY <3>1, Zenon
    <3> QED
      BY <3>2, <3>3, <3>4, Zenon
  <2>4. version \in 0 .. version
    BY <1>0
  <2>5. readers' \in [Readers -> [at : {"idle", "fetching", "done"}, read : 0 .. version]]
    BY <1>8, <2>4 DEF FromCache, Fetch, Fetched
  <2> QED
    BY <2>1, <2>3, <2>5
<1>9. CASE CacheExpires \/ UNCHANGED dashTxVars
  BY <1>9 DEF CacheExpires, dashTxVars
<1> QED
  BY <1>1, <1>2, <1>3, <1>4, <1>5, <1>6, <1>7, <1>8, <1>9 DEF DashboardTxNext

LEMMA DashboardTxStaysTyped == DashboardTxSpec => []DashboardTxTypeOK
<1>1. DashboardTxInit => DashboardTxBounds
  BY DashboardTxAssumption DEF DashboardTxInit, DashboardTxBounds
<1>2. DashboardTxInv /\ DashboardTxBounds => DashboardTxTypeOK
  BY DEF DashboardTxInv, DashboardTxBounds, DashboardTxTypeOK
<1> QED
  BY <1>1, <1>2, DashboardTxStarts, DashboardTxStep, DashboardTxBoundsStep, PTL
     DEF DashboardTxSpec

----------------------------------------------------------------------------
(* The seller agents: requests worked on behind their answers. *)

SellerSpec == SellerInit /\ [][SellerNext]_sellerVars

PostRecords == [at : {"new", "refused", "generating", "submitting", "done", "failed"},
                job : JobIds \cup {NoPost}, attempt : Nat]
Writers == {p \in Posts : written[p] > 0}
HandedOver == {j \in JobIds : submitted[j] # Unsubmitted}

SellerTypes ==
    /\ perJobFile \in BOOLEAN /\ post \in [Posts -> PostRecords]
    /\ output \in [Files -> Posts \cup {NoPost}] /\ written \in [Posts -> Nat]
    /\ submitted \in [JobIds -> Files \cup {Unsubmitted}]

(***************************************************************************)
(* A request that is generating has written nothing; one that is past it   *)
(* has a job and has written its file; and the texts are counted as they   *)
(* are written.                                                            *)
(***************************************************************************)
WrittenInOrder ==
    /\ IsFiniteSet(Writers) /\ \A p \in Posts : written[p] <= Cardinality(Writers)
    /\ \A p \in Posts : post[p].at \in {"new", "generating"} => written[p] = 0
    /\ \A p \in Posts : post[p].at \in {"generating", "submitting"} => post[p].job \in JobIds
    /\ \A p \in Posts :
          post[p].at = "submitting" => written[p] > 0 /\ output[File(post[p].job)] # NoPost

(***************************************************************************)
(* A file holds a text that was written: of its job where each job has     *)
(* one, and the last of all where they share it.                           *)
(***************************************************************************)
FilesHoldTheLast ==
    /\ \A f \in Files : output[f] # NoPost => written[output[f]] > 0
    /\ perJobFile = TRUE => \A j \in JobIds : output[j] # NoPost => post[output[j]].job = j
    /\ perJobFile = FALSE =>
          \A p \in Posts : written[p] > 0 =>
             /\ output["output"] # NoPost
             /\ p = output["output"] \/ written[p] < written[output["output"]]

(***************************************************************************)
(* A job is submitted with its file, after a text for it was written.      *)
(***************************************************************************)
SubmittedWithItsFile ==
    \A j \in JobIds : submitted[j] # Unsubmitted =>
        /\ submitted[j] = File(j) /\ output[File(j)] # NoPost
        /\ \E p \in Posts : post[p].job = j /\ written[p] > 0

CompletedOnce ==
    IsFiniteSet(HandedOver) /\ jobsCompleted \in Nat /\ jobsCompleted <= Cardinality(HandedOver)

SellerInv ==
    SellerTypes /\ WrittenInOrder /\ FilesHoldTheLast /\ SubmittedWithItsFile /\ CompletedOnce

LEMMA SellerStarts == SellerInit => SellerInv
<1> SUFFICES ASSUME NEW own \in BOOLEAN, SellerStart(own) PROVE SellerInv
  BY DEF SellerInit
<1>1. /\ Writers = {} /\ HandedOver = {} /\ jobsCompleted = 0
      /\ \A p \in Posts : written[p] = 0 /\ post[p].at = "new"
      /\ \A f \in Files : output[f] = NoPost
  BY DEF SellerStart, Writers, HandedOver
<1>2. SellerTypes
  BY DEF SellerStart, SellerTypes, PostRecords
<1>3. WrittenInOrder /\ CompletedOnce
  BY <1>1, FS_EmptySet DEF WrittenInOrder, CompletedOnce
<1>4. FilesHoldTheLast
  BY <1>1 DEF FilesHoldTheLast, Files
<1>5. SubmittedWithItsFile
  BY DEF SellerStart, SubmittedWithItsFile
<1> QED
  BY <1>2, <1>3, <1>4, <1>5 DEF SellerInv

(***************************************************************************)
(* Where nothing is written and only the fate of a request changes.        *)
(***************************************************************************)
LEMMA FateKeepsFiles ==
    ASSUME SellerInv, NEW p \in Posts, UNCHANGED <<perJobFile, output, written>>,
           post' \in [Posts -> PostRecords],
           \A q \in Posts \ {p} : post'[q] = post[q],
           post[p].at = "new" \/ post'[p].job = post[p].job,
           post[p].at = "new" => post'[p].at \in {"refused", "generating"},
           post'[p].at \notin {"new", "submitting"} \/ post'[p].at = post[p].at,
           post'[p].at = "generating" => post[p].at = "new" /\ post'[p].job \in JobIds
    PROVE  /\ WrittenInOrder' /\ FilesHoldTheLast'
           /\ \A q \in Posts : written[q] > 0 => post'[q].job = post[q].job
<1> USE DEF SellerInv, SellerTypes, WrittenInOrder
<1>1. /\ \A q \in Posts : written[q] > 0 => post'[q].job = post[q].job
      /\ written[p] > 0 => post[p].at # "new"
  OBVIOUS
<1>2. Writers' = Writers /\ \A j : File(j)' = File(j)
  BY DEF Writers, File
<1>3. \A q \in Posts : post'[q].at \in {"new", "generating"} => written[q] = 0
  OBVIOUS
<1>4. \A q \in Posts : post'[q].at = "submitting" => post[q].at = "submitting"
                                                     /\ post'[q].job = post[q].job
  OBVIOUS
<1>5. \A q \in Posts : post'[q].at = "generating" => post'[q].job \in JobIds
  OBVIOUS
<1>6. WrittenInOrder'
  BY <1>2, <1>3, <1>4, <1>5
<1>7. FilesHoldTheLast'
  BY <1>1 DEF FilesHoldTheLast, Files
<1> QED
  BY <1>1, <1>6, <1>7

LEMMA FateKeepsSubmissions ==
    ASSUME SellerInv, UNCHANGED <<perJobFile, output, written, submitted>>,
           \A q \in Posts : written[q] > 0 => post'[q].job = post[q].job,
           UNCHANGED jobsCompleted
    PROVE  SubmittedWithItsFile' /\ CompletedOnce'
<1>1. SubmittedWithItsFile'
  BY DEF SellerInv, SubmittedWithItsFile, File
<1>2. CompletedOnce'
  BY DEF SellerInv, CompletedOnce, HandedOver
<1> QED
  BY <1>1, <1>2

(***************************************************************************)
(* A text that is written is the latest of all.                            *)
(***************************************************************************)
LEMMA WritingKeepsInv == ASSUME SellerInv, NEW p \in Posts, Generated(p) PROVE SellerInv'
<1> USE DEF SellerInv, SellerTypes, WrittenInOrder
<1> DEFINE f == File(post[p].job)
           n == Cardinality(Writers) + 1
<1>1. /\ post[p].at = "generating" /\ written[p] = 0
      /\ UNCHANGED <<perJobFile, submitted, jobsCompleted>>
      /\ post[p].job \in JobIds /\ f \in Files
  BY DEF Generated, counters, File, Files
<1>2. Cardinality(Writers) \in Nat
  BY FS_CardinalityType
<1>3. /\ written' = [written EXCEPT ![p] = n] /\ output' = [output EXCEPT ![f] = p]
      /\ post' = [post EXCEPT ![p].at = "submitting"]
  BY DEF Generated, Writers
<1>4. /\ written'[p] = n /\ \A q \in Posts \ {p} : written'[q] = written[q]
      /\ written' \in [Posts -> Nat]
  BY <1>2, <1>3
<1>5. /\ output'[f] = p /\ \A g \in Files \ {f} : output'[g] = output[g]
      /\ output' \in [Files -> Posts \cup {NoPost}]
  BY <1>1, <1>3
<1>6. /\ post'[p].at = "submitting" /\ \A q \in Posts \ {p} : post'[q] = post[q]
      /\ \A q \in Posts : post'[q].job = post[q].job
      /\ post' \in [Posts -> PostRecords]
  BY <1>3 DEF PostRecords
<1>7. Writers' = Writers \cup {p} /\ p \notin Writers
  BY <1>1, <1>2, <1>4 DEF Writers
<1>8. Cardinality(Writers') = n /\ IsFiniteSet(Writers')
  BY <1>7, FS_AddElement
<1>9. /\ \A q \in Posts : written'[q] <= n
      /\ \A q \in Posts \ {p} : written'[q] < n
  BY <1>2, <1>4
<1>10. \A j : File(j)' = File(j)
  BY <1>1 DEF File
<1> HIDE DEF n
<1>11. n \in Nat \ {0}
  BY <1>2 DEF n
<1>12. \A q \in Posts : written[q] > 0 => q # p /\ written'[q] > 0
  BY <1>1, <1>4
<1>13. \A g \in Files : output[g] # NoPost => output'[g] # NoPost
  BY <1>5, SellerAssumption
<1>14. \A j \in JobIds : File(j) \in Files
  BY DEF File, Files
<1> HIDE DEF f
<1>15. WrittenInOrder'
  <2>1. \A q \in Posts : post'[q].at \in {"new", "generating"} => written'[q] = 0
    BY <1>4, <1>6
  <2>2. \A q \in Posts : post'[q].at \in {"generating", "submitting"} => post'[q].job \in JobIds
    BY <1>1, <1>6
  <2>3. \A q \in Posts : post'[q].at = "submitting" =>
           written'[q] > 0 /\ output'[File(post'[q].job)] # NoPost
    <3>1. written'[p] > 0 /\ output'[File(post'[p].job)] # NoPost
      BY <1>4, <1>5, <1>6, <1>11, SellerAssumption DEF f
    <3>2. ASSUME NEW q \in Posts \ {p}, post'[q].at = "submitting"
          PROVE  written'[q] > 0 /\ output'[File(post'[q].job)] # NoPost
      BY <1>6, <1>12, <1>13, <1>14, <3>2
    <3> QED
      BY <3>1, <3>2
  <2> QED
    BY <1>8, <1>9, <1>10, <2>1, <2>2, <2>3
<1>16. FilesHoldTheLast'
  <2>1. \A g \in Files : output'[g] # NoPost => written'[output'[g]] > 0
    BY <1>4, <1>5, <1>11, <1>12 DEF FilesHoldTheLast
  <2>2. ASSUME perJobFile = TRUE, NEW j \in JobIds, output'[j] # NoPost
        PROVE  post'[output'[j]].job = j
    <3>1. f = post[p].job /\ j \in Files
      BY <2>2 DEF f, File, Files
    <3>2. CASE j = f
      BY <1>5, <1>6, <3>1, <3>2
    <3>3. CASE j # f
      BY <1>5, <1>6, <2>2, <3>1, <3>3 DEF FilesHoldTheLast
    <3> QED
      BY <3>2, <3>3
  <2>3. ASSUME perJobFile = FALSE, NEW q \in Posts
        PROVE  /\ output'["output"] # NoPost
               /\ q = output'["output"] \/ written'[q] < written'[output'["output"]]
    <3>1. f = "output"
      BY <2>3 DEF f, File
    <3> QED
      BY <1>4, <1>5, <1>9, <3>1, SellerAssumption
  <2> QED
    BY <1>1, <2>1, <2>2, <2>3 DEF FilesHoldTheLast
<1>17. SubmittedWithItsFile'
  BY <1>1, <1>6, <1>10, <1>12, <1>13, <1>14 DEF SubmittedWithItsFile
<1>18. CompletedOnce'
  BY <1>1 DEF CompletedOnce, HandedOver
<1> QED
  BY <1>1, <1>4, <1>5, <1>6, <1>15, <1>16, <1>17, <1>18

(***************************************************************************)
(* A submission that is executed, whether its answer comes or not.         *)
(***************************************************************************)
LEMMA HandingOverKeeps ==
    ASSUME SellerInv, NEW p \in Posts, post[p].at = "submitting",
           submitted[post[p].job] = Unsubmitted,
           submitted' = [submitted EXCEPT ![post[p].job] = File(post[p].job)],
           UNCHANGED <<perJobFile, output, written>>,
           \A q \in Posts : written[q] > 0 => post'[q].job = post[q].job,
           jobsCompleted' \in {jobsCompleted, jobsCompleted + 1}
    PROVE  SubmittedWithItsFile' /\ CompletedOnce'
           /\ submitted' \in [JobIds -> Files \cup {Unsubmitted}]
<1> DEFINE j == post[p].job
<1> USE DEF SellerInv, SellerTypes
<1>1. /\ j \in JobIds /\ written[p] > 0 /\ output[File(j)] # NoPost
      /\ File(j) \in Files /\ File(j) # Unsubmitted
  BY SellerAssumption DEF WrittenInOrder, File, Files, Unsubmitted
<1>2. /\ submitted'[j] = File(j) /\ \A i \in JobIds \ {j} : submitted'[i] = submitted[i]
      /\ submitted' \in [JobIds -> Files \cup {Unsubmitted}]
  BY <1>1
<1>3. \A i : File(i)' = File(i)
  BY DEF File
<1> HIDE DEF j
<1>4. SubmittedWithItsFile'
  <2>1. post'[p].job = j
    BY <1>1 DEF j
  <2> QED
    BY <1>1, <1>2, <1>3, <2>1 DEF SubmittedWithItsFile
<1>5. HandedOver' = HandedOver \cup {j} /\ j \notin HandedOver
  BY <1>1, <1>2 DEF HandedOver, j
<1>6. IsFiniteSet(HandedOver) /\ jobsCompleted \in Nat /\ jobsCompleted <= Cardinality(HandedOver)
  BY DEF CompletedOnce
<1>7. /\ IsFiniteSet(HandedOver') /\ Cardinality(HandedOver') = Cardinality(HandedOver) + 1
      /\ Cardinality(HandedOver) \in Nat
  BY <1>5, <1>6, FS_AddElement, FS_CardinalityType
<1>8. CompletedOnce'
  BY <1>6, <1>7 DEF CompletedOnce
<1> QED
  BY <1>2, <1>4, <1>8

LEMMA SellerStep == SellerInv /\ [SellerNext]_sellerVars => SellerInv'
<1> SUFFICES ASSUME SellerInv, [SellerNext]_sellerVars PROVE SellerInv'
  OBVIOUS
<1>1. ASSUME NEW p \in Posts, TakePost(p) PROVE SellerInv'
  <2>1. /\ post' \in [Posts -> PostRecords] /\ \A q \in Posts \ {p} : post'[q] = post[q]
        /\ post[p].at = "new" /\ post'[p].at \in {"generating", "refused"}
        /\ post'[p].at = "generating" => post'[p].job \in JobIds
    BY <1>1 DEF TakePost, SellerInv, SellerTypes, PostRecords
  <2>2. UNCHANGED <<perJobFile, jobsCompleted, output, written, submitted>>
    BY <1>1 DEF TakePost
  <2>3. /\ WrittenInOrder' /\ FilesHoldTheLast'
        /\ \A q \in Posts : written[q] > 0 => post'[q].job = post[q].job
    BY <2>1, <2>2, FateKeepsFiles
  <2> QED
    BY <2>1, <2>2, <2>3, FateKeepsSubmissions DEF SellerInv, SellerTypes, Files
<1>2. ASSUME NEW p \in Posts, GenerateFails(p) PROVE SellerInv'
  <2>1. /\ post' \in [Posts -> PostRecords] /\ \A q \in Posts \ {p} : post'[q] = post[q]
        /\ post'[p].job = post[p].job /\ post[p].at = "generating" /\ post'[p].at = "failed"
    BY <1>2 DEF GenerateFails, Fails, SellerInv, SellerTypes, PostRecords
  <2>2. UNCHANGED <<perJobFile, jobsCompleted, output, written, submitted>>
    BY <1>2 DEF GenerateFails, Fails
  <2>3. /\ WrittenInOrder' /\ FilesHoldTheLast'
        /\ \A q \in Posts : written[q] > 0 => post'[q].job = post[q].job
    BY <2>1, <2>2, FateKeepsFiles
  <2> QED
    BY <2>1, <2>2, <2>3, FateKeepsSubmissions DEF SellerInv, SellerTypes, Files
<1>3. ASSUME NEW p \in Posts, SubmitLands(p) \/ SubmitThrows(p) PROVE SellerInv'
  <2>1. /\ post' \in [Posts -> PostRecords] /\ \A q \in Posts \ {p} : post'[q] = post[q]
        /\ post'[p].job = post[p].job /\ post[p].at = "submitting"
        /\ post'[p].at \in {"submitting", "done", "failed"}
    BY <1>3, SellerAssumption
       DEF SubmitLands, SubmitThrows, Fails, SellerInv, SellerTypes, PostRecords
  <2>2. UNCHANGED <<perJobFile, output, written>>
    BY <1>3 DEF SubmitLands, SubmitThrows
  <2>3. /\ WrittenInOrder' /\ FilesHoldTheLast'
        /\ \A q \in Posts : written[q] > 0 => post'[q].job = post[q].job
    BY <2>1, <2>2, FateKeepsFiles
  <2>4. CASE /\ submitted[post[p].job] = Unsubmitted
             /\ submitted' = [submitted EXCEPT ![post[p].job] = File(post[p].job)]
    <3>1. jobsCompleted' \in {jobsCompleted, jobsCompleted + 1}
      BY <1>3 DEF SubmitLands, SubmitThrows, Fails, counters
    <3> QED
      BY <2>1, <2>2, <2>3, <2>4, <3>1, HandingOverKeeps DEF SellerInv, SellerTypes, Files
  <2>5. CASE UNCHANGED <<submitted, jobsCompleted>>
    BY <2>1, <2>2, <2>3, <2>5, FateKeepsSubmissions DEF SellerInv, SellerTypes, Files
  <2> QED
    BY <1>3, <2>4, <2>5 DEF SubmitLands, SubmitThrows, Fails, counters
<1>4. CASE WindowEnds \/ UNCHANGED sellerVars
  <2>1. UNCHANGED <<perJobFile, post, jobsCompleted, output, written, submitted>>
    BY <1>4 DEF WindowEnds, sellerVars, counters
  <2> QED
    BY <2>1 DEF SellerInv, SellerTypes, WrittenInOrder, FilesHoldTheLast, SubmittedWithItsFile,
                CompletedOnce, Files, File, Writers, HandedOver
<1> QED
  BY <1>1, <1>2, <1>3, <1>4, WritingKeepsInv DEF SellerNext

(***************************************************************************)
(* What the client of a submitted job finds is a text made for it, or,     *)
(* where a seller has one file for all, at least none from before its own; *)
(* and a job is completed once, however many requests a seller works on at *)
(* once and however often a submit fails or its answer is lost (index.ts   *)
(* of the sellers).                                                        *)
(***************************************************************************)
THEOREM FilesAreTheirJobs == SellerSpec => []DeliverableIsItsJobs
<1>1. SellerInv => DeliverableIsItsJobs
  <2> SUFFICES ASSUME SellerInv PROVE DeliverableIsItsJobs
    OBVIOUS
  <2> USE DEF SellerInv, SellerTypes
  <2>1. jobsCompleted <= Cardinality({j \in JobIds : submitted[j] # Unsubmitted})
    BY DEF CompletedOnce, HandedOver
  <2>2. ASSUME NEW j \in JobIds, submitted[j] # Unsubmitted, NEW found,
               found = output[submitted[j]]
        PROVE  /\ found # NoPost
               /\ \/ post[found].job = j
                  \/ ~perJobFile /\ \E p \in Posts : /\ post[p].job = j
                                                     /\ written[p] \in 1..(written[found] - 1)
    <3>1. submitted[j] = File(j) /\ found # NoPost
      BY <2>2 DEF SubmittedWithItsFile
    <3>2. CASE perJobFile = TRUE
      BY <2>2, <3>1, <3>2 DEF FilesHoldTheLast, File
    <3>3. CASE perJobFile = FALSE
      <4>1. found = output["output"] /\ found \in Posts
        BY <2>2, <3>1, <3>3 DEF File, Files
      <4>2. PICK p \in Posts : post[p].job = j /\ written[p] > 0
        BY <2>2 DEF SubmittedWithItsFile
      <4>3. p = found \/ written[p] < written[found]
        BY <3>3, <4>1, <4>2 DEF FilesHoldTheLast
      <4>4. CASE p = found
        BY <3>1, <4>2, <4>4
      <4>5. CASE written[p] < written[found]
        <5>1. written[p] \in 1..(written[found] - 1)
          BY <4>1, <4>2, <4>5
        <5> QED
          BY <3>1, <3>3, <4>2, <5>1
      <4> QED
        BY <4>3, <4>4, <4>5
    <3> QED
      BY <3>2, <3>3
  <2> QED
    BY <2>1, <2>2 DEF DeliverableIsItsJobs
<1> QED
  BY <1>1, SellerStarts, SellerStep, PTL DEF SellerSpec

(***************************************************************************)
(* The sellers' counter of active jobs is right, and the limiter's count   *)
(* within its limit.                                                       *)
(***************************************************************************)
AtWork == {p \in Posts : post[p].at \in {"generating", "submitting"}}
SellerCounts ==
    /\ IsFiniteSet(AtWork) /\ jobsActive = Cardinality(AtWork) /\ inWindow \in 0 .. rateLimit

LEMMA OneMoreAtWork ==
    ASSUME SellerInv, SellerCounts, NEW p \in Posts, post[p].at = "new",
           NEW new, new.at = "generating", post' = [post EXCEPT ![p] = new],
           jobsActive' = jobsActive + 1
    PROVE  IsFiniteSet(AtWork') /\ jobsActive' = Cardinality(AtWork')
<1>1. AtWork' = AtWork \cup {p} /\ p \notin AtWork
  BY DEF AtWork, SellerInv, SellerTypes, PostRecords
<1> QED
  BY <1>1, FS_AddElement DEF SellerCounts

LEMMA OneLessAtWork ==
    ASSUME SellerInv, SellerCounts, NEW p \in Posts, post[p].at \in {"generating", "submitting"},
           NEW end \in {"failed", "done"}, post' = [post EXCEPT ![p].at = end],
           jobsActive' = jobsActive - 1
    PROVE  IsFiniteSet(AtWork') /\ jobsActive' = Cardinality(AtWork')
<1>1. AtWork' = AtWork \ {p} /\ p \in AtWork
  BY DEF AtWork, SellerInv, SellerTypes, PostRecords
<1> QED
  BY <1>1, FS_RemoveElement DEF SellerCounts

LEMMA SameAtWork ==
    ASSUME SellerInv, SellerCounts, jobsActive' = jobsActive,
           \A p \in Posts : post'[p].at \in {"generating", "submitting"}
                               <=> post[p].at \in {"generating", "submitting"}
    PROVE  IsFiniteSet(AtWork') /\ jobsActive' = Cardinality(AtWork')
<1>1. AtWork' = AtWork
  BY DEF AtWork
<1> QED
  BY <1>1 DEF SellerCounts

LEMMA SellerCountsStep ==
    SellerInv /\ SellerCounts /\ [SellerNext]_sellerVars => SellerCounts'
<1> SUFFICES ASSUME SellerInv, SellerCounts, [SellerNext]_sellerVars PROVE SellerCounts'
  OBVIOUS
<1>0. rateLimit \in Nat /\ inWindow \in 0 .. rateLimit
  BY SellerAssumption DEF SellerCounts
<1>1. ASSUME NEW p \in Posts, TakePost(p) PROVE SellerCounts'
  <2>1. inWindow' \in 0 .. rateLimit
    BY <1>0, <1>1 DEF TakePost
  <2>2. ASSUME NEW j \in JobIds, jobsActive' = jobsActive + 1,
               post' = [post EXCEPT ![p] = [at |-> "generating", job |-> j, attempt |-> 0]]
        PROVE  SellerCounts'
    BY <1>1, <2>1, <2>2, OneMoreAtWork DEF TakePost, SellerCounts
  <2>3. ASSUME post' = [post EXCEPT ![p].at = "refused"], jobsActive' = jobsActive
        PROVE  SellerCounts'
    <3>1. \A q \in Posts : post'[q].at \in {"generating", "submitting"}
                              <=> post[q].at \in {"generating", "submitting"}
      BY <1>1, <2>3 DEF TakePost, SellerInv, SellerTypes, PostRecords
    <3> QED
      BY <2>1, <2>3, <3>1, SameAtWork DEF SellerCounts
  <2> QED
    BY <1>1, <2>2, <2>3 DEF TakePost
<1>2. ASSUME NEW p \in Posts, Generated(p) PROVE SellerCounts'
  <2>1. /\ \A q \in Posts : post'[q].at \in {"generating", "submitting"}
                               <=> post[q].at \in {"generating", "submitting"}
        /\ jobsActive' = jobsActive /\ inWindow' = inWindow
    BY <1>2 DEF Generated, counters, SellerInv, SellerTypes, PostRecords
  <2> QED
    BY <1>0, <2>1, SameAtWork DEF SellerCounts
<1>3. ASSUME NEW p \in Posts, Fails(p), post[p].at \in {"generating", "submitting"},
             inWindow' = inWindow
      PROVE  SellerCounts'
  BY <1>0, <1>3, OneLessAtWork DEF Fails, SellerCounts
<1>4. ASSUME NEW p \in Posts, SubmitLands(p) PROVE SellerCounts'
  BY <1>0, <1>4, OneLessAtWork DEF SubmitLands, SellerCounts
<1>5. ASSUME NEW p \in Posts, SubmitThrows(p) PROVE SellerCounts'
  <2>1. CASE Fails(p)
    BY <1>3, <1>5, <2>1 DEF SubmitThrows
  <2>2. ASSUME post' = [post EXCEPT ![p].attempt = @ + 1], UNCHANGED counters
        PROVE  SellerCounts'
    <3>1. /\ \A q \in Posts : post'[q].at = post[q].at
          /\ jobsActive' = jobsActive /\ inWindow' = inWindow
      BY <1>5, <2>2 DEF SubmitThrows, counters, SellerInv, SellerTypes, PostRecords
    <3> QED
      BY <1>0, <3>1, SameAtWork DEF SellerCounts
  <2> QED
    BY <1>5, <2>1, <2>2 DEF SubmitThrows
<1>6. CASE WindowEnds \/ UNCHANGED sellerVars
  <2>1. post' = post /\ jobsActive' = jobsActive /\ inWindow' \in 0 .. rateLimit
    BY <1>0, <1>6 DEF WindowEnds, counters, sellerVars
  <2> QED
    BY <2>1, SameAtWork DEF SellerCounts
<1> QED
  BY <1>1, <1>2, <1>3, <1>4, <1>5, <1>6 DEF SellerNext, GenerateFails

LEMMA SellerStaysTyped == SellerSpec => []SellerTypeOK
<1>1. SellerInit => SellerCounts
  <2> SUFFICES ASSUME NEW own \in BOOLEAN, SellerStart(own) PROVE SellerCounts
    BY DEF SellerInit
  <2>1. AtWork = {}
    BY DEF SellerStart, AtWork
  <2> QED
    BY <2>1, FS_EmptySet, SellerAssumption DEF SellerStart, SellerCounts
<1>2. SellerInv /\ SellerCounts => SellerTypeOK
  BY DEF SellerInv, SellerTypes, PostRecords, SellerCounts, SellerTypeOK, AtWork
<1> QED
  BY <1>1, <1>2, SellerStarts, SellerStep, SellerCountsStep, PTL DEF SellerSpec

----------------------------------------------------------------------------
(* The orchestrator agent: a plan of tasks, each an escrowed job. *)

OrchestratorSpec == OrchestratorInit /\ [][OrchestratorNext]_orchestratorVars

Statuses == {"pending", "running", "completed", "failed"}

(***************************************************************************)
(* planTasks makes plans of two or three tasks that wait for each other in *)
(* a row.                                                                  *)
(***************************************************************************)
TasksInARow(n) ==
    /\ dependsOn \in [1 .. n -> SUBSET (1 .. n)]
    /\ \A t \in 1 .. n : dependsOn[t] = IF t = 1 THEN {} ELSE {t - 1}
    /\ taskStatus \in [1 .. n -> Statuses] /\ delivered \in [1 .. n -> BOOLEAN]
    /\ described \in [1 .. n -> SUBSET (1 .. n)]
    /\ escrow \in [1 .. n -> {"none", "funded", "completed", "ended", "orphaned"}]
    /\ current \in 0 .. n

Executing == orchAt \in {"asking", "escrowing", "polling"}

(***************************************************************************)
(* The task being executed is the one that runs, with all the work before  *)
(* it in its description.                                                  *)
(***************************************************************************)
CurrentRuns ==
    /\ orchAt \in {"looking", "asking", "escrowing", "polling", "reported"}
    /\ IF Executing
       THEN /\ current \in Tasks /\ taskStatus[current] = "running"
            /\ described[current] = dependsOn[current]
       ELSE current = 0
    /\ \A t \in Tasks : taskStatus[t] = "running" => t = current

(***************************************************************************)
(* A task that was taken has its work before it done and handed over; one  *)
(* that failed has taken with it what waits for it; and the report is made *)
(* when there is nothing left.                                             *)
(***************************************************************************)
PlanInv ==
    /\ \A t \in Tasks : taskStatus[t] = "completed" => delivered[t]
    /\ \A t, u \in Tasks : u = t + 1 =>
         /\ taskStatus[u] \in {"running", "completed"} => taskStatus[t] = "completed"
         /\ taskStatus[t] = "failed" => taskStatus[u] = "failed"
    /\ \A t \in Tasks : escrow[t] # "none" => described[t] = dependsOn[t]
    /\ orchAt = "reported" => AllDone

OrchestratorInv == (\E n \in {2, 3} : TasksInARow(n)) /\ CurrentRuns /\ PlanInv

LEMMA OrchestratorStarts == OrchestratorInit => OrchestratorInv
<1> SUFFICES ASSUME NEW goal \in Plans, OrchestratorStart(goal) PROVE OrchestratorInv
  BY DEF OrchestratorInit
<1>1. PICK n \in {2, 3} : /\ dependsOn \in [1 .. n -> SUBSET (1 .. n)]
                          /\ \A t \in 1 .. n : dependsOn[t] = IF t = 1 THEN {} ELSE {t - 1}
  <2>1. CASE goal = "research"
    <3>1. dependsOn = <<{}, {1}>>
      BY <2>1 DEF OrchestratorStart, planTasks
    <3> QED
      BY <3>1
  <2>2. CASE goal # "research"
    <3>1. dependsOn = <<{}, {1}, {2}>>
      BY <2>2 DEF OrchestratorStart, planTasks, Plans
    <3> QED
      BY <3>1
  <2> QED
    BY <2>1, <2>2
<1>2. DOMAIN dependsOn = 1 .. n
  BY <1>1
<1>3. TasksInARow(n)
  BY <1>1, <1>2 DEF OrchestratorStart, TasksInARow, Statuses
<1>4. CurrentRuns /\ PlanInv
  BY <1>2 DEF OrchestratorStart, CurrentRuns, Executing, PlanInv, Tasks
<1> QED
  BY <1>3, <1>4 DEF OrchestratorInv

(***************************************************************************)
(* handlePartialFailure reaches the failed task and all the tasks after    *)
(* it.                                                                     *)
(***************************************************************************)
LEMMA FailureReaches ==
    ASSUME NEW n \in {2, 3}, TasksInARow(n), NEW t \in 1 .. n
    PROVE  Tasks = 1 .. n /\ Cardinality(Tasks) = n /\ ToFail(t) = t .. n
<1>1. Tasks = 1 .. n
  BY DEF TasksInARow, Tasks
<1>2. Cardinality(Tasks) = n
  BY <1>1, FS_Interval
<1> DEFINE upTo(m) == IF t + m < n THEN t + m ELSE n
           Round(f, m) == IF m = 0 THEN {t} ELSE WithDependents(f[m - 1])
           reached == [m \in 0 .. n |-> t .. upTo(m)]
           rounds == CHOOSE f : f = [m \in 0 .. n |-> Round(f, m)]
<1>3. \A m \in 1 .. n : WithDependents(t .. upTo(m - 1)) = t .. upTo(m)
  <2> SUFFICES ASSUME NEW m \in 1 .. n
               PROVE  WithDependents(t .. upTo(m - 1)) = t .. upTo(m)
    OBVIOUS
  <2> DEFINE failing == t .. upTo(m - 1)
  <2>1. \A u \in 1 .. n : dependsOn[u] \cap failing # {} <=> u - 1 \in failing
    <3> TAKE u \in 1 .. n
    <3>1. CASE u = 1
      BY <3>1 DEF TasksInARow
    <3>2. CASE u # 1
      <4>1. dependsOn[u] = {u - 1}
        BY <3>2 DEF TasksInARow
      <4> HIDE DEF failing
      <4> QED
        BY <4>1
    <3> QED
      BY <3>1, <3>2
  <2> QED
    BY <1>1, <2>1 DEF WithDependents
<1>4. reached = [m \in 0 .. n |-> Round(reached, m)]
  <2>1. \A m \in 0 .. n : reached[m] = Round(reached, m)
    <3> TAKE m \in 0 .. n
    <3>1. CASE m = 0
      BY <3>1
    <3>2. CASE m # 0
      <4>1. m \in 1 .. n /\ m - 1 \in 0 .. n
        BY <3>2
      <4>2. reached[m - 1] = t .. upTo(m - 1) /\ reached[m] = t .. upTo(m)
        BY <4>1
      <4> HIDE DEF reached, upTo
      <4> QED
        BY <1>3, <3>2, <4>1, <4>2
    <3> QED
      BY <3>1, <3>2
  <2> HIDE DEF Round
  <2> QED
    BY <2>1
<1>5. rounds = [m \in 0 .. n |-> Round(rounds, m)]
  <2> HIDE DEF Round, reached
  <2> QED
    BY <1>4
<1>6. rounds[0] = {t} /\ \A m \in 1 .. n : rounds[m] = WithDependents(rounds[m - 1])
  <2>1. \A m \in 0 .. n : rounds[m] = Round(rounds, m)
    <3> HIDE DEF rounds, Round
    <3> QED
      BY <1>5
  <2> HIDE DEF rounds
  <2> QED
    BY <2>1
<1>7. ToFail(t) = rounds[n]
  BY <1>2 DEF ToFail
<1> HIDE DEF rounds, reached, Round
<1>8. rounds[0] = t .. upTo(0)
  BY <1>6
<1>9. rounds[1] = t .. upTo(1)
  BY <1>3, <1>6, <1>8
<1>10. rounds[2] = t .. upTo(2)
  BY <1>3, <1>6, <1>9, SMTT(30)
<1>11. n = 3 => rounds[3] = t .. upTo(3)
  BY <1>3, <1>6, <1>10
<1> QED
  BY <1>1, <1>2, <1>7, <1>10, <1>11

(***************************************************************************)
(* As long as a task is left and none is running, one is ready: the loop   *)
(* never gives up as stalled.                                              *)
(***************************************************************************)
LEMMA SomeTaskIsReady ==
    ASSUME OrchestratorInv, orchAt = "looking", ~AllDone
    PROVE  \E t \in Tasks : isReady(t)
<1>1. PICK n \in {2, 3} : TasksInARow(n)
  BY DEF OrchestratorInv
<1>2. Tasks = 1 .. n
  BY <1>1 DEF TasksInARow, Tasks
<1>3. \A t \in Tasks : taskStatus[t] \in {"pending", "completed", "failed"}
  BY <1>1, <1>2 DEF OrchestratorInv, CurrentRuns, Executing, TasksInARow, Statuses
<1> DEFINE Left(t) == t \in Tasks /\ taskStatus[t] = "pending"
           First(t) == Left(t) /\ (t = 1 \/ taskStatus[t - 1] = "completed")
<1>4. \E t \in 1 .. 3 : Left(t)
  BY <1>2, <1>3 DEF AllDone
<1>5. \A t, u \in Tasks : u = t + 1 /\ Left(u) => taskStatus[t] \in {"pending", "completed"}
  BY <1>3 DEF OrchestratorInv, PlanInv
<1>6. Left(1) => First(1)
  OBVIOUS
<1>7. Left(2) => First(1) \/ First(2)
  BY <1>2, <1>5, <1>6
<1>8. Left(3) => First(1) \/ First(2) \/ First(3)
  BY <1>2, <1>5, <1>7
<1>9. PICK t \in 1 .. 3 : First(t)
  BY <1>4, <1>6, <1>7, <1>8
<1>10. \A d \in dependsOn[t] : taskStatus[d] = "completed"
  BY <1>1, <1>2, <1>9 DEF TasksInARow
<1> QED
  BY <1>9, <1>10 DEF isReady

LEMMA FailureKeepsInv ==
    ASSUME OrchestratorInv, Executing, handlePartialFailure(current),
           dependsOn' = dependsOn, delivered' = delivered, described' = described,
           escrow' \in {escrow, [escrow EXCEPT ![current] = "orphaned"]}
    PROVE  OrchestratorInv'
<1>1. PICK n \in {2, 3} : TasksInARow(n)
  BY DEF OrchestratorInv
<1>2. current \in 1 .. n /\ taskStatus[current] = "running"
      /\ described[current] = dependsOn[current]
  BY <1>1, FailureReaches DEF OrchestratorInv, CurrentRuns
<1>3. Tasks = 1 .. n /\ ToFail(current) = current .. n
  BY <1>1, <1>2, FailureReaches
<1>4. /\ taskStatus' \in [1 .. n -> Statuses] /\ orchAt' = "looking" /\ current' = 0
      /\ \A t \in 1 .. n : taskStatus'[t] = IF t >= current /\ taskStatus[t] # "completed"
                                            THEN "failed" ELSE taskStatus[t]
  BY <1>1, <1>2, <1>3 DEF handlePartialFailure, TasksInARow, Statuses
<1>5. TasksInARow(n)'
  BY <1>1, <1>4 DEF TasksInARow
<1>6. Tasks' = 1 .. n
  BY <1>4 DEF Tasks
<1>7. CurrentRuns'
  BY <1>1, <1>2, <1>3, <1>4, <1>6
     DEF OrchestratorInv, CurrentRuns, Executing, TasksInARow, Statuses
<1>8. \A t \in 1 .. n : escrow'[t] # "none" => described'[t] = dependsOn'[t]
  BY <1>1, <1>2, <1>3 DEF OrchestratorInv, PlanInv, TasksInARow
<1>9. \A t, u \in 1 .. n : u = t + 1 =>
         /\ taskStatus'[u] \in {"running", "completed"} => taskStatus'[t] = "completed"
         /\ taskStatus'[t] = "failed" => taskStatus'[u] = "failed"
  <2> SUFFICES ASSUME NEW t \in 1 .. n, NEW u \in 1 .. n, u = t + 1
               PROVE  /\ taskStatus'[u] \in {"running", "completed"} =>
                            taskStatus'[t] = "completed"
                      /\ taskStatus'[t] = "failed" => taskStatus'[u] = "failed"
    OBVIOUS
  <2>1. /\ taskStatus[u] \in {"running", "completed"} => taskStatus[t] = "completed"
        /\ taskStatus[t] = "failed" => taskStatus[u] = "failed"
    BY <1>3 DEF OrchestratorInv, PlanInv
  <2>2. current \in Nat /\ t \in Nat
    BY <1>2
  <2> QED
    BY <1>2, <1>4, <2>1, <2>2
<1>10. PlanInv'
  BY <1>3, <1>4, <1>6, <1>8, <1>9 DEF OrchestratorInv, PlanInv
<1> QED
  BY <1>5, <1>7, <1>10 DEF OrchestratorInv

LEMMA TakeTaskKeepsInv == OrchestratorInv /\ TakeTask => OrchestratorInv'
<1> SUFFICES ASSUME OrchestratorInv, TakeTask PROVE OrchestratorInv'
  OBVIOUS
<1>1. PICK n \in {2, 3} : TasksInARow(n)
  BY DEF OrchestratorInv
<1>2. Tasks = 1 .. n
  BY <1>1 DEF TasksInARow, Tasks
<1> DEFINE ready == {u \in Tasks : isReady(u)}
<1>3. Min(ready) \in ready
  <2>1. ready \subseteq 1 .. 3 /\ ready # {}
    BY <1>2 DEF TakeTask
  <2>2. \E x \in ready : \A y \in ready : x <= y
    <3> HIDE DEF ready
    <3>1. CASE 1 \in ready
      BY <2>1, <3>1
    <3>2. CASE 1 \notin ready /\ 2 \in ready
      BY <2>1, <3>2
    <3>3. CASE 1 \notin ready /\ 2 \notin ready
      <4>1. \A y \in ready : y = 3
        <5> TAKE y \in ready
        <5>1. y \in 1 .. 3 /\ y # 1 /\ y # 2
          BY <2>1, <3>3
        <5> QED
          BY <5>1
      <4>2. PICK x : x \in ready
        BY <2>1
      <4>3. \A y \in ready : x <= y
        BY <4>1, <4>2
      <4> QED
        BY <4>2, <4>3
    <3> QED
      BY <3>1, <3>2, <3>3
  <2> QED
    BY <2>2 DEF Min
<1>4. PICK t : t = Min(ready)
  OBVIOUS
<1>5. t \in 1 .. n /\ taskStatus[t] = "pending"
      /\ \A d \in dependsOn[t] : taskStatus[d] = "completed"
  BY <1>2, <1>3, <1>4 DEF isReady
<1>6. /\ orchAt = "looking" /\ orchAt' = "asking" /\ current' = t
      /\ taskStatus' = [taskStatus EXCEPT ![t] = "running"]
      /\ described' = [described EXCEPT ![t] = {d \in dependsOn[t] : delivered[d]}]
      /\ dependsOn' = dependsOn /\ delivered' = delivered /\ escrow' = escrow
  BY <1>4 DEF TakeTask
<1>7. dependsOn[t] \subseteq Tasks
  BY <1>1, <1>2, <1>5 DEF TasksInARow
<1>8. {d \in dependsOn[t] : delivered[d]} = dependsOn[t]
  BY <1>5, <1>7 DEF OrchestratorInv, PlanInv
<1>9. TasksInARow(n)'
  BY <1>1, <1>2, <1>5, <1>6, <1>7, <1>8 DEF TasksInARow, Statuses
<1>10. Tasks' = 1 .. n
  BY <1>9 DEF TasksInARow, Tasks
<1>11. CurrentRuns'
  <2>1. \A u \in 1 .. n : taskStatus[u] # "running"
    BY <1>2, <1>6 DEF OrchestratorInv, CurrentRuns, Executing
  <2>2. taskStatus'[t] = "running" /\ \A u \in (1 .. n) \ {t} : taskStatus'[u] # "running"
    BY <1>1, <1>5, <1>6, <2>1 DEF TasksInARow
  <2>3. described'[t] = dependsOn'[t]
    BY <1>1, <1>5, <1>6, <1>8 DEF TasksInARow
  <2> QED
    BY <1>5, <1>6, <1>10, <2>2, <2>3 DEF CurrentRuns, Executing
<1>12. \A d, u \in 1 .. n : u = d + 1 =>
         /\ taskStatus'[u] \in {"running", "completed"} => taskStatus'[d] = "completed"
         /\ taskStatus'[d] = "failed" => taskStatus'[u] = "failed"
  <2> SUFFICES ASSUME NEW d \in 1 .. n, NEW u \in 1 .. n, u = d + 1
               PROVE  /\ taskStatus'[u] \in {"running", "completed"} =>
                            taskStatus'[d] = "completed"
                      /\ taskStatus'[d] = "failed" => taskStatus'[u] = "failed"
    OBVIOUS
  <2>1. /\ taskStatus[u] \in {"running", "completed"} => taskStatus[d] = "completed"
        /\ taskStatus[d] = "failed" => taskStatus[u] = "failed"
    BY <1>2 DEF OrchestratorInv, PlanInv
  <2>2. d \in dependsOn[u]
    BY <1>1 DEF TasksInARow
  <2> QED
    BY <1>1, <1>5, <1>6, <2>1, <2>2 DEF TasksInARow
<1>13. PlanInv'
  <2>1. taskStatus'[t] = "running"
        /\ \A u \in (1 .. n) \ {t} :
             taskStatus'[u] = taskStatus[u] /\ described'[u] = described[u]
    BY <1>1, <1>5, <1>6 DEF TasksInARow
  <2>2. \A u \in 1 .. n : taskStatus'[u] = "completed" => delivered'[u]
    <3>1. \A u \in 1 .. n : taskStatus[u] = "completed" => delivered[u]
      BY <1>2 DEF OrchestratorInv, PlanInv
    <3>2. \A u \in 1 .. n : taskStatus'[u] = "completed" => taskStatus[u] = "completed"
      BY <2>1
    <3> QED
      BY <1>6, <3>1, <3>2
  <2>3. described'[t] = dependsOn'[t]
    BY <1>1, <1>5, <1>6, <1>8 DEF TasksInARow
  <2>4. \A u \in 1 .. n : escrow'[u] # "none" => described'[u] = dependsOn'[u]
    BY <1>2, <1>6, <2>1, <2>3 DEF OrchestratorInv, PlanInv
  <2>5. orchAt' # "reported"
    BY <1>6
  <2> QED
    BY <1>10, <1>12, <2>2, <2>4, <2>5 DEF PlanInv
<1> QED
  BY <1>9, <1>11, <1>13 DEF OrchestratorInv

LEMMA OrchestratorStep == OrchestratorInv /\ [OrchestratorNext]_orchestratorVars => OrchestratorInv'
<1> SUFFICES ASSUME OrchestratorInv, [OrchestratorNext]_orchestratorVars PROVE OrchestratorInv'
  OBVIOUS
<1>1. PICK n \in {2, 3} : TasksInARow(n)
  BY DEF OrchestratorInv
<1>2. Tasks = 1 .. n
  BY <1>1 DEF TasksInARow, Tasks
<1>3. ASSUME taskStatus' = taskStatus PROVE Tasks' = Tasks
  BY <1>3 DEF Tasks
<1>4. CASE TakeTask
  BY <1>4, TakeTaskKeepsInv
<1>5. CASE Report
  <2>1. AllDone /\ orchAt = "looking" /\ orchAt' = "reported"
    BY <1>5, SomeTaskIsReady DEF Report
  <2> QED
    BY <1>1, <1>2, <1>3, <1>5, <2>1
       DEF Report, OrchestratorInv, TasksInARow, CurrentRuns, Executing, PlanInv, AllDone
<1>6. CASE ProviderFound
  BY <1>1, <1>2, <1>3, <1>6
     DEF ProviderFound, OrchestratorInv, TasksInARow, CurrentRuns, Executing, PlanInv, AllDone
<1>7. CASE NoProvider
  BY <1>7, FailureKeepsInv DEF NoProvider, Executing
<1>8. CASE JobEscrowed
  <2>1. current \in 1 .. n /\ described[current] = dependsOn[current]
    BY <1>2, <1>8 DEF JobEscrowed, OrchestratorInv, CurrentRuns, Executing
  <2> QED
    BY <1>1, <1>2, <1>3, <1>8, <2>1
       DEF JobEscrowed, OrchestratorInv, TasksInARow, CurrentRuns, Executing, PlanInv, AllDone
<1>9. CASE EscrowFails
  BY <1>9, FailureKeepsInv DEF EscrowFails, Executing
<1>10. CASE JobEnds
  <2>1. PICK t \in Tasks, end \in {"completed", "ended"} :
          escrow[t] = "funded" /\ escrow' = [escrow EXCEPT ![t] = end]
    BY <1>10 DEF JobEnds
  <2>2. /\ UNCHANGED <<dependsOn, taskStatus, delivered, described, orchAt, current>>
        /\ \A u \in Tasks : escrow'[u] # "none" => escrow[u] # "none"
        /\ TasksInARow(n)'
    BY <1>1, <1>2, <1>10, <2>1 DEF JobEnds, TasksInARow
  <2> QED
    BY <1>2, <1>3, <2>2 DEF OrchestratorInv, CurrentRuns, Executing, PlanInv, AllDone
<1>11. CASE PollSeesCompleted
  <2>1. PICK t \in 1 .. n : t = current /\ taskStatus[t] = "running"
    BY <1>2, <1>11 DEF PollSeesCompleted, OrchestratorInv, CurrentRuns, Executing
  <2>2. /\ orchAt' = "looking" /\ current' = 0
        /\ taskStatus' = [taskStatus EXCEPT ![t] = "completed"]
        /\ delivered' = [delivered EXCEPT ![t] = TRUE]
        /\ dependsOn' = dependsOn /\ described' = described /\ escrow' = escrow
    BY <1>11, <2>1 DEF PollSeesCompleted
  <2>3. TasksInARow(n)'
    BY <1>1, <2>1, <2>2 DEF TasksInARow, Statuses
  <2>4. Tasks' = 1 .. n
    BY <2>3 DEF TasksInARow, Tasks
  <2>5. CurrentRuns'
    <3>1. \A u \in 1 .. n : taskStatus'[u] # "running"
      BY <1>1, <1>2, <2>1, <2>2 DEF TasksInARow, OrchestratorInv, CurrentRuns
    <3> QED
      BY <2>2, <2>4, <3>1 DEF CurrentRuns, Executing
  <2>6. \A d, u \in 1 .. n : u = d + 1 =>
           /\ taskStatus'[u] \in {"running", "completed"} => taskStatus'[d] = "completed"
           /\ taskStatus'[d] = "failed" => taskStatus'[u] = "failed"
    <3> SUFFICES ASSUME NEW d \in 1 .. n, NEW u \in 1 .. n, u = d + 1
                 PROVE  /\ taskStatus'[u] \in {"running", "completed"} =>
                              taskStatus'[d] = "completed"
                        /\ taskStatus'[d] = "failed" => taskStatus'[u] = "failed"
      OBVIOUS
    <3>1. /\ taskStatus[u] \in {"running", "completed"} => taskStatus[d] = "completed"
          /\ taskStatus[d] = "failed" => taskStatus[u] = "failed"
      BY <1>2 DEF OrchestratorInv, PlanInv
    <3> QED
      BY <1>1, <2>1, <2>2, <3>1 DEF TasksInARow
  <2>7. PlanInv'
    BY <1>1, <1>2, <2>1, <2>2, <2>4, <2>6 DEF OrchestratorInv, PlanInv, TasksInARow
  <2> QED
    BY <2>3, <2>5, <2>7 DEF OrchestratorInv
<1>12. CASE PollGivesUp
  BY <1>12, FailureKeepsInv DEF PollGivesUp, Executing
<1>13. CASE UNCHANGED orchestratorVars
  BY <1>3, <1>13 DEF orchestratorVars, OrchestratorInv, TasksInARow, CurrentRuns, Executing,
                     PlanInv, AllDone
<1> QED
  BY <1>4, <1>5, <1>6, <1>7, <1>8, <1>9, <1>10, <1>11, <1>12, <1>13 DEF OrchestratorNext

(***************************************************************************)
(* The orchestrator's loop never reports with a task left, a task is paid  *)
(* for only with all the work before it in its description, and a failure  *)
(* reaches everything that waits for the failed task (orchestrator         *)
(* index.ts: executeDAG, handlePartialFailure).                            *)
(***************************************************************************)
THEOREM PlansRunOut == OrchestratorSpec => []PlanRunsOut
<1>1. OrchestratorInv => PlanRunsOut
  <2> SUFFICES ASSUME OrchestratorInv PROVE PlanRunsOut
    OBVIOUS
  <2>1. PICK n \in {2, 3} : TasksInARow(n)
    BY DEF OrchestratorInv
  <2>2. Tasks = 1 .. n
    BY <2>1 DEF TasksInARow, Tasks
  <2>3. \A t, u \in Tasks : t \in dependsOn[u] => u = t + 1
    BY <2>1, <2>2 DEF TasksInARow
  <2> QED
    BY <2>3 DEF OrchestratorInv, PlanInv, PlanRunsOut
<1> QED
  BY <1>1, OrchestratorStarts, OrchestratorStep, PTL DEF OrchestratorSpec

LEMMA OrchestratorStaysTyped == OrchestratorSpec => []OrchestratorTypeOK
<1> DEFINE Types == stalls \in Nat
<1>1. OrchestratorInit => Types
  BY DEF OrchestratorInit, OrchestratorStart
<1>2. Types /\ [OrchestratorNext]_orchestratorVars => Types'
  BY DEF OrchestratorNext, orchestratorVars, TakeTask, Report, ProviderFound, NoProvider,
         JobEscrowed, EscrowFails, JobEnds, PollSeesCompleted, PollGivesUp
<1>3. OrchestratorInv /\ Types => OrchestratorTypeOK
  <2> SUFFICES ASSUME OrchestratorInv, Types PROVE OrchestratorTypeOK
    OBVIOUS
  <2>1. PICK n \in {2, 3} : TasksInARow(n)
    BY DEF OrchestratorInv
  <2>2. Tasks = 1 .. n
    BY <2>1 DEF TasksInARow, Tasks
  <2>3. /\ \A t \in Tasks : /\ dependsOn[t] \subseteq Tasks
                            /\ taskStatus[t] \in {"pending", "running", "completed", "failed"}
                            /\ escrow[t] \in {"none", "funded", "completed", "ended", "orphaned"}
        /\ delivered \in [Tasks -> BOOLEAN] /\ described \in [Tasks -> SUBSET Tasks]
    BY <2>1, <2>2 DEF TasksInARow, Statuses
  <2>4. current \in Tasks \cup {0}
    BY <2>1, <2>2 DEF TasksInARow
  <2> QED
    BY <2>3, <2>4 DEF OrchestratorInv, CurrentRuns, OrchestratorTypeOK
<1> QED
  BY <1>1, <1>2, <1>3, OrchestratorStarts, OrchestratorStep, PTL DEF OrchestratorSpec

----------------------------------------------------------------------------
(* The indexer. *)

IndexerSpec == IndexerInit /\ [][IndexerNext]_indexerVars

(***************************************************************************)
(* The rows of some contracts and ledgers, with the hash of each ledger.   *)
(***************************************************************************)
RowsOf(contracts, hash, ledgers) == {<<c, l, hash[l]>> : c \in contracts, l \in ledgers}

Rows == Contracts \X Ledgers \X Nat
PollStates == {"ended", "waiting", "detecting", "latest", "events"}
PollRecords == [at : PollStates, from : Nat, latest : Nat,
                left : SUBSET Contracts, got : SUBSET Rows]

ChainTypes ==
    /\ tip \in Nat /\ 0 < tip /\ tip <= MaxLedger
    /\ last \in Nat /\ last <= tip /\ reorgs \in Nat /\ rpcErrors \in Nat
    /\ chain \in [Ledgers -> Nat] /\ \A l \in Ledgers : chain[l] <= reorgs
    /\ hashes \in [Ledgers -> Int]

Fits(r) ==
    /\ r.latest <= tip
    /\ r.at \in {"latest", "events"} => r.from > 0
    /\ r.at \in {"detecting", "latest"} => r.got = {}

PollTypes ==
    /\ stops \in 0 .. MaxStops
    /\ poll \in [Chains -> PollRecords] /\ \A p \in Chains : Fits(poll[p])

IndexerTypes == ChainTypes /\ PollTypes /\ clean \in BOOLEAN

(***************************************************************************)
(* What the index was built from: the hash `old` of every ledger up to the *)
(* watermark, of which those that are stored are a part.                   *)
(***************************************************************************)
BuiltFrom(old) ==
    /\ \A l \in 1 .. last : old[l] <= reorgs /\ hashes[l] \in {NoHash, old[l]}
    /\ \A l \in Ledgers : l > last => hashes[l] = NoHash
    /\ rows = RowsOf(Contracts, old, 1 .. last) /\ twice = {}

(***************************************************************************)
(* The chain has left what the index was built from at one ledger or none, *)
(* and from the ledger before it on the hashes are stored that the poller  *)
(* needs to find it, within the depth it looks back.                       *)
(***************************************************************************)
Recoverable(old) ==
    /\ \A l, m \in 1 .. last : l <= m /\ chain[m] = old[m] => chain[l] = old[l]
    /\ \A l \in 1 .. last : chain[l] # old[l] =>
         /\ l > 1 /\ hashes[l] # NoHash /\ hashes[l - 1] # NoHash
         /\ last - l < maxReorgDepth

(***************************************************************************)
(* A poll that is past the look for a reorganisation goes on from an index *)
(* that is the chain's, and what it holds is the chain's too.              *)
(***************************************************************************)
PollIsTrue(old, p) ==
    /\ poll[p].at \in {"latest", "events"} =>
         poll[p].from = last + 1 /\ \A l \in 1 .. last : chain[l] = old[l]
    /\ poll[p].at = "events" =>
         /\ poll[p].from <= poll[p].latest
         /\ poll[p].got
              = RowsOf(Contracts \ poll[p].left, chain, poll[p].from .. poll[p].latest)

(***************************************************************************)
(* No two chains have a poll under way.                                    *)
(***************************************************************************)
OneAtATime ==
    \A p, q \in Chains : poll[p].at \in UnderWay /\ poll[q].at \in UnderWay => p = q

Tracked == store = "adapter" /\ clean = TRUE

IndexIsTrue ==
    \E old \in [Ledgers -> Nat] :
        BuiltFrom(old) /\ Recoverable(old) /\ \A p \in Chains : PollIsTrue(old, p)

IndexerInv == IndexerTypes /\ (clean = TRUE => OneAtATime) /\ (Tracked => IndexIsTrue)

LEMMA IdlePolls ==
    /\ \A state \in PollStates :
         /\ Idle(state) \in PollRecords /\ Idle(state).at = state
         /\ Idle(state).got = {} /\ Idle(state).latest = 0 /\ Idle(state).left = {}
    /\ \A n \in 0 .. MaxStops : n + 1 \in Chains
<1>1. MaxStops \in Nat
  BY IndexerAssumption
<1> QED
  BY <1>1 DEF Idle, PollRecords, Chains

LEMMA IndexerStarts == IndexerInit => IndexerInv
<1> SUFFICES ASSUME NEW kind \in {"EventStore", "adapter"}, IndexerStart(kind) PROVE IndexerInv
  BY DEF IndexerInit
<1> DEFINE old == [l \in Ledgers |-> 0]
<1>1. /\ poll \in [Chains -> PollRecords]
      /\ \A p \in Chains : /\ poll[p].at = "ended" /\ poll[p].latest = 0
                           /\ poll[p].got = {}
  BY IdlePolls DEF IndexerStart, PollStates
<1>2. IndexerTypes
  <2>1. ChainTypes /\ clean \in BOOLEAN /\ stops \in 0 .. MaxStops /\ tip = 1
    BY IndexerAssumption DEF IndexerStart, ChainTypes, Ledgers, Null, NoHash
  <2> QED
    BY <1>1, <2>1 DEF IndexerTypes, PollTypes, Fits
<1>3. old \in [Ledgers -> Nat] /\ BuiltFrom(old)
  BY DEF IndexerStart, BuiltFrom, RowsOf, Null, Ledgers
<1>4. Recoverable(old) /\ \A p \in Chains : PollIsTrue(old, p)
  BY <1>1 DEF IndexerStart, Recoverable, PollIsTrue, Null
<1>5. OneAtATime
  BY <1>1 DEF OneAtATime, UnderWay
<1> HIDE DEF old
<1> QED
  BY <1>2, <1>3, <1>4, <1>5 DEF IndexerInv, IndexIsTrue

(***************************************************************************)
(* The poller goes back to the watermark or to a ledger below it whose     *)
(* stored hash is the chain's.                                             *)
(***************************************************************************)
LEMMA Rewound ==
    ASSUME IndexerTypes, last # Null, NEW unread
    PROVE  /\ RewoundTo(unread) \in 1 .. last
           /\ RewoundTo(unread) # last => Matches(RewoundTo(unread))
<1> DEFINE right == {l \in Ledgers \ unread : Matches(l)}
           walk == {l \in right \cap (startLedger..(last - 1)) :
                      /\ last - l <= maxReorgDepth
                      /\ \A m \in l..last : hashes[m] # NoHash /\ (m \in right => m = l)}
<1>1. RewoundTo(unread) = IF walk = {} THEN last ELSE CHOOSE l \in walk : TRUE
  BY DEF RewoundTo
<1>2. \A l \in walk : l \in 1 .. last /\ Matches(l)
  BY DEF IndexerTypes, ChainTypes, Ledgers, startLedger
<1>3. last \in 1 .. last
  BY DEF IndexerTypes, ChainTypes, Ledgers, Null
<1> HIDE DEF walk
<1> QED
  BY <1>1, <1>2, <1>3

(***************************************************************************)
(* A step of a chain's poll moves that poll alone, and brings it under way *)
(* only as Begin does.                                                     *)
(***************************************************************************)
LEMMA PollMoves ==
    ASSUME IndexerTypes, NEW p \in Chains, PollStep(p)
    PROVE  /\ \A q \in Chains \ {p} : poll'[q] = poll[q]
           /\ UNCHANGED <<store, tip, chain, reorgs, stops>>
           /\ poll'[p].at \in UnderWay => poll[p].at \in UnderWay \/ Begin(p)
<1>1. poll \in [Chains -> PollRecords]
  BY DEF IndexerTypes, PollTypes
<1>2. UNCHANGED <<store, tip, chain, reorgs, stops>>
  BY DEF PollStep, TimerFires, DetectNothing, DetectReorg, GetLatestLedger, RpcError, GetEvents,
         GetEventsFails, InsertBatch, chainVars
<1>3. ASSUME NEW r, poll' = [poll EXCEPT ![p] = r]
      PROVE  poll'[p] = r /\ \A q \in Chains \ {p} : poll'[q] = poll[q]
  BY <1>1, <1>3
<1>4. CASE TimerFires(p)
  <2>1. CASE Begin(p)
    BY <1>2, <1>3, <2>1 DEF Begin
  <2>2. CASE poll' = [poll EXCEPT ![p] = Idle("ended")]
    BY <1>2, <1>3, <2>2, IdlePolls DEF PollStates, UnderWay
  <2> QED
    BY <1>4, <2>1, <2>2 DEF TimerFires
<1>5. ASSUME Over(p) PROVE \A q \in Chains \ {p} : poll'[q] = poll[q]
  BY <1>3, <1>5 DEF Over
<1>6. ASSUME NEW from, Continue(p, from) PROVE \A q \in Chains \ {p} : poll'[q] = poll[q]
  BY <1>1, <1>6 DEF Continue
<1>7. CASE ~TimerFires(p)
  <2>1. poll[p].at \in UnderWay
    BY <1>7 DEF PollStep, DetectNothing, DetectReorg, GetLatestLedger, RpcError, GetEvents,
                GetEventsFails, InsertBatch, UnderWay
  <2>2. \A q \in Chains \ {p} : poll'[q] = poll[q]
    <3>1. CASE DetectNothing(p) \/ DetectReorg(p)
      BY <1>6, <3>1 DEF DetectNothing, DetectReorg
    <3>2. CASE RpcError(p) \/ InsertBatch(p)
      BY <1>5, <3>2 DEF RpcError, InsertBatch
    <3>3. CASE GetLatestLedger(p)
      BY <1>1, <1>5, <3>3 DEF GetLatestLedger
    <3>4. CASE GetEvents(p)
      BY <1>1, <3>4 DEF GetEvents
    <3>5. CASE GetEventsFails(p)
      BY <1>1, <3>5 DEF GetEventsFails
    <3> QED
      BY <1>7, <3>1, <3>2, <3>3, <3>4, <3>5 DEF PollStep
  <2> QED
    BY <1>2, <2>1, <2>2
<1> QED
  BY <1>4, <1>7

(***************************************************************************)
(* Types.  A poll begins, ends, looks for a reorganisation, reads.         *)
(***************************************************************************)
LEMMA PollStaysTyped ==
    ASSUME PollTypes, UNCHANGED <<tip, stops>>, NEW p \in Chains, poll' \in [Chains -> PollRecords],
           \A q \in Chains \ {p} : poll'[q] = poll[q], Fits(poll'[p])
    PROVE  PollTypes'
BY DEF PollTypes, Fits

LEMMA PollContinues ==
    ASSUME IndexerTypes, NEW p \in Chains, NEW from \in Nat, from > 0, Continue(p, from),
           poll[p].at = "detecting"
    PROVE  /\ poll' \in [Chains -> PollRecords] /\ Fits(poll'[p])
           /\ poll'[p].at = "latest" /\ poll'[p].from = from /\ poll'[p].got = {}
<1>1. poll \in [Chains -> PollRecords] /\ Fits(poll[p])
  BY DEF IndexerTypes, PollTypes
<1>2. /\ poll' \in [Chains -> PollRecords]
      /\ poll'[p].at = "latest" /\ poll'[p].from = from /\ poll'[p].got = poll[p].got
      /\ poll'[p].latest = poll[p].latest
  BY <1>1 DEF Continue, PollRecords, PollStates
<1> QED
  BY <1>1, <1>2 DEF Fits

LEMMA PollEnds ==
    ASSUME IndexerTypes, NEW p \in Chains, NEW state \in {"ended", "waiting", "detecting"},
           poll' = [poll EXCEPT ![p] = Idle(state)]
    PROVE  poll' \in [Chains -> PollRecords] /\ poll'[p] = Idle(state) /\ Fits(poll'[p])
<1>1. poll \in [Chains -> PollRecords] /\ tip \in Nat
  BY DEF IndexerTypes, PollTypes, ChainTypes
<1>2. /\ Idle(state).latest = 0 /\ Idle(state).at = state /\ Idle(state).got = {}
      /\ Idle(state) \in PollRecords
  BY IdlePolls DEF PollStates
<1> QED
  BY <1>1, <1>2 DEF Fits

LEMMA PollReads ==
    ASSUME IndexerTypes, NEW p \in Chains, NEW c \in poll[p].left, NEW more \in SUBSET Rows,
           poll[p].at = "events",
           poll' = [poll EXCEPT ![p].left = @ \ {c}, ![p].got = @ \cup more]
    PROVE  /\ poll' \in [Chains -> PollRecords]
           /\ poll'[p].at = "events" /\ poll'[p].from = poll[p].from
           /\ poll'[p].latest = poll[p].latest /\ poll'[p].left = poll[p].left \ {c}
           /\ poll'[p].got = poll[p].got \cup more
<1>1. poll \in [Chains -> PollRecords] /\ poll[p] \in PollRecords
  BY DEF IndexerTypes, PollTypes
<1> QED
  BY <1>1 DEF PollRecords

LEMMA EventsAreRows ==
    ASSUME IndexerTypes, NEW p \in Chains, poll[p].at = "events", NEW c \in poll[p].left, NEW upTo,
           upTo = IF poll[p].from + batchSize - 1 < tip THEN poll[p].from + batchSize - 1 ELSE tip
    PROVE  /\ c \in Contracts /\ poll[p].from .. upTo \subseteq Ledgers
           /\ {<<c, l, chain[l]>> : l \in poll[p].from..upTo} \in SUBSET Rows
<1>1. /\ poll[p] \in PollRecords /\ poll[p].from > 0 /\ tip \in Nat /\ tip <= MaxLedger
      /\ chain \in [Ledgers -> Nat] /\ batchSize \in Nat /\ MaxLedger \in Nat
  BY IndexerAssumption DEF IndexerTypes, PollTypes, ChainTypes, Fits
<1>2. c \in Contracts /\ poll[p].from \in Nat
  BY <1>1 DEF PollRecords
<1>3. upTo \in Int /\ upTo <= tip
  BY <1>1, <1>2
<1>4. \A l \in poll[p].from..upTo : l \in Ledgers
  BY <1>1, <1>2, <1>3 DEF Ledgers
<1> QED
  BY <1>1, <1>2, <1>4 DEF Rows

LEMMA IndexerTypesStep == IndexerTypes /\ [IndexerNext]_indexerVars => IndexerTypes'
<1> SUFFICES ASSUME IndexerTypes, [IndexerNext]_indexerVars PROVE IndexerTypes'
  OBVIOUS
<1>1. ChainTypes /\ PollTypes /\ clean \in BOOLEAN /\ poll \in [Chains -> PollRecords]
  BY DEF IndexerTypes, PollTypes
<1>2. ASSUME UNCHANGED <<tip, chain, reorgs, last, hashes>>, rpcErrors' \in Nat PROVE ChainTypes'
  BY <1>1, <1>2 DEF ChainTypes
<1>3. rpcErrors \in Nat /\ rpcErrors + 1 \in Nat /\ last + 1 \in Nat /\ last + 1 > 0 /\ tip \in Nat
  BY <1>1 DEF ChainTypes
<1>4. ASSUME NEW p \in Chains, PollStep(p), ChainTypes', clean' \in BOOLEAN,
             poll' \in [Chains -> PollRecords], Fits(poll'[p])
      PROVE  IndexerTypes'
  BY <1>1, <1>4, PollMoves, PollStaysTyped DEF IndexerTypes
<1>5. ASSUME NEW p \in Chains, TimerFires(p) PROVE IndexerTypes'
  <2>1. PICK state \in {"detecting", "ended"} : poll' = [poll EXCEPT ![p] = Idle(state)]
    BY <1>5 DEF TimerFires, Begin
  <2>2. ChainTypes' /\ clean' \in BOOLEAN
    BY <1>1, <1>2, <1>3, <1>5 DEF TimerFires, Begin, chainVars, storedVars
  <2> QED
    BY <1>4, <1>5, <2>1, <2>2, PollEnds DEF PollStep, PollStates
<1>6. ASSUME NEW p \in Chains, DetectNothing(p) PROVE IndexerTypes'
  <2>1. ChainTypes' /\ clean' \in BOOLEAN
    BY <1>2, <1>3, <1>6 DEF DetectNothing, chainVars, storedVars
  <2>2. PICK from \in Nat : from > 0 /\ Continue(p, from)
    BY <1>3, <1>6 DEF DetectNothing, startLedger
  <2> QED
    BY <1>4, <1>6, <2>1, <2>2, PollContinues DEF PollStep, DetectNothing
<1>7. ASSUME NEW p \in Chains, DetectReorg(p), Matches(last) PROVE IndexerTypes'
  <2>1. ChainTypes' /\ clean' \in BOOLEAN /\ Continue(p, last + 1)
    BY <1>1, <1>2, <1>3, <1>7 DEF DetectReorg, chainVars, storedVars
  <2> QED
    BY <1>3, <1>4, <1>7, <2>1, PollContinues DEF PollStep, DetectReorg
<1>8. ASSUME NEW p \in Chains, DetectReorg(p), ~Matches(last) PROVE IndexerTypes'
  <2>1. PICK unread \in SUBSET (startLedger..(last - 1)) :
          /\ hashes' = [l \in Ledgers |-> IF l > RewoundTo(unread) THEN NoHash ELSE hashes[l]]
          /\ last' = RewoundTo(unread) /\ Continue(p, RewoundTo(unread) + 1)
          /\ rpcErrors' = rpcErrors + Cardinality(unread)
          /\ clean' = (clean /\ (unread # {} => RewoundTo(unread) # last))
    BY <1>8 DEF DetectReorg
  <2>2. RewoundTo(unread) \in 1 .. last
    BY <1>8, Rewound DEF DetectReorg, HashStored
  <2>3. Cardinality(unread) \in Nat
    <3>1. last \in Nat /\ IsFiniteSet(1 .. last - 1)
      BY <1>1, FS_Interval DEF ChainTypes
    <3> QED
      BY <3>1, FS_Subset, FS_CardinalityType DEF startLedger
  <2>4. UNCHANGED <<tip, chain, reorgs>> /\ poll[p].at = "detecting" /\ clean' \in BOOLEAN
    BY <1>8, <2>1 DEF DetectReorg, chainVars
  <2>5. ChainTypes'
    BY <1>1, <2>1, <2>2, <2>3, <2>4 DEF ChainTypes, NoHash
  <2>6. RewoundTo(unread) + 1 \in Nat /\ RewoundTo(unread) + 1 > 0
    BY <1>1, <2>2 DEF ChainTypes
  <2>7. poll' \in [Chains -> PollRecords] /\ Fits(poll'[p])
    BY <2>1, <2>4, <2>6, PollContinues
  <2> QED
    BY <1>4, <1>8, <2>4, <2>5, <2>7 DEF PollStep
<1>9. ASSUME NEW p \in Chains, Over(p), PollStep(p), ChainTypes', clean' = clean
      PROVE  IndexerTypes'
  <2>1. PICK state \in {"waiting", "ended"} : poll' = [poll EXCEPT ![p] = Idle(state)]
    BY <1>9 DEF Over
  <2> QED
    BY <1>1, <1>4, <1>9, <2>1, PollEnds DEF PollStates
<1>10. ASSUME NEW p \in Chains, GetLatestLedger(p) PROVE IndexerTypes'
  <2>1. ChainTypes' /\ clean' = clean
    BY <1>2, <1>3, <1>10 DEF GetLatestLedger, chainVars, storedVars
  <2>2. CASE Over(p)
    BY <1>9, <1>10, <2>1, <2>2 DEF PollStep
  <2>3. CASE poll' = [poll EXCEPT ![p].at = "events", ![p].latest = tip, ![p].left = Contracts]
    <3>1. poll' \in [Chains -> PollRecords] /\ Fits(poll'[p])
      <4>1. /\ poll[p] \in PollRecords /\ poll[p].from > 0
        BY <1>1, <1>10 DEF GetLatestLedger, PollTypes, Fits
      <4>2. /\ poll' \in [Chains -> PollRecords] /\ poll'[p].at = "events"
            /\ poll'[p].latest = tip /\ poll'[p].from = poll[p].from
        BY <1>1, <1>3, <2>3, <4>1 DEF PollRecords, PollStates
      <4> QED
        BY <1>3, <4>1, <4>2 DEF Fits
    <3> QED
      BY <1>1, <1>4, <1>10, <2>1, <3>1 DEF PollStep
  <2> QED
    BY <1>10, <2>2, <2>3 DEF GetLatestLedger
<1>11. ASSUME NEW p \in Chains, RpcError(p) PROVE IndexerTypes'
  <2>1. ChainTypes' /\ clean' = clean /\ Over(p)
    BY <1>2, <1>3, <1>11 DEF RpcError, chainVars, storedVars
  <2> QED
    BY <1>9, <1>11, <2>1 DEF PollStep
<1>12. ASSUME NEW p \in Chains, poll[p].at = "events", NEW c \in poll[p].left,
              NEW more \in SUBSET Rows, PollStep(p), ChainTypes', clean' \in BOOLEAN,
              poll' = [poll EXCEPT ![p].left = @ \ {c}, ![p].got = @ \cup more]
       PROVE  IndexerTypes'
  <2>1. Fits(poll'[p])
    BY <1>1, <1>12, PollReads DEF Fits, PollTypes
  <2> QED
    BY <1>4, <1>12, <2>1, PollReads
<1>13. ASSUME NEW p \in Chains, GetEvents(p) PROVE IndexerTypes'
  <2>1. ChainTypes' /\ poll[p].at = "events"
    BY <1>2, <1>3, <1>13 DEF GetEvents, chainVars, storedVars
  <2>2. PICK upTo :
          upTo = IF poll[p].from + batchSize - 1 < tip THEN poll[p].from + batchSize - 1 ELSE tip
    BY SMTT(30)
  <2>3. PICK c \in poll[p].left :
          /\ poll' = [poll EXCEPT ![p].left = @ \ {c},
                         ![p].got = @ \cup {<<c, l, chain[l]>> : l \in poll[p].from..upTo}]
          /\ clean' = (clean /\ upTo = poll[p].latest)
    BY <1>13, <2>2 DEF GetEvents
  <2>4. PICK more : more = {<<c, l, chain[l]>> : l \in poll[p].from..upTo}
    OBVIOUS
  <2>5. more \in SUBSET Rows
    BY <2>1, <2>2, <2>4, EventsAreRows
  <2>6. /\ poll' = [poll EXCEPT ![p].left = @ \ {c}, ![p].got = @ \cup more]
        /\ clean' \in BOOLEAN
    BY <2>3, <2>4
  <2> QED
    BY <1>12, <1>13, <2>1, <2>5, <2>6 DEF PollStep
<1>14. ASSUME NEW p \in Chains, GetEventsFails(p) PROVE IndexerTypes'
  <2>1. ChainTypes' /\ poll[p].at = "events" /\ clean' = FALSE
    BY <1>2, <1>3, <1>14 DEF GetEventsFails, chainVars, storedVars
  <2>2. PICK c \in poll[p].left : poll' = [poll EXCEPT ![p].left = @ \ {c}]
    BY <1>14 DEF GetEventsFails
  <2>3. /\ poll' \in [Chains -> PollRecords] /\ poll'[p].at = "events"
        /\ poll'[p].latest = poll[p].latest /\ poll'[p].from = poll[p].from
    BY <1>1, <2>1, <2>2 DEF PollRecords
  <2>4. Fits(poll'[p])
    BY <1>1, <2>1, <2>3 DEF Fits, PollTypes
  <2> QED
    BY <1>4, <1>14, <2>1, <2>3, <2>4 DEF PollStep
<1>15. ASSUME NEW p \in Chains, InsertBatch(p) PROVE IndexerTypes'
  <2>1. poll[p].latest \in Nat /\ poll[p].latest <= tip
    BY <1>1 DEF PollTypes, PollRecords, Fits
  <2>2. UNCHANGED <<tip, chain, reorgs, rpcErrors, clean>> /\ Over(p)
    BY <1>15 DEF InsertBatch, chainVars
  <2>3. last' \in {last, poll[p].latest}
    BY <1>15 DEF InsertBatch
  <2>4. hashes' \in [Ledgers -> Int]
    <3>1. poll[p].latest \in Ledgers => chain[poll[p].latest] \in Int
      BY <1>1 DEF ChainTypes
    <3> QED
      BY <1>1, <1>15, <3>1 DEF InsertBatch, ChainTypes, NoHash
  <2>5. ChainTypes'
    BY <1>1, <2>1, <2>2, <2>3, <2>4 DEF ChainTypes
  <2> QED
    BY <1>9, <1>15, <2>2, <2>5 DEF PollStep
<1>16. ASSUME UNCHANGED <<tip, chain, reorgs, last, hashes, rpcErrors>>, clean' \in BOOLEAN,
              stops' \in 0 .. MaxStops, NEW p \in Chains,
              poll' = [q \in Chains |-> IF q = p THEN Idle("detecting") ELSE poll[q]]
       PROVE  IndexerTypes'
  <2>1. \A q \in Chains : poll'[q] \in PollRecords /\ Fits(poll'[q])
    BY <1>1, <1>3, <1>16, IdlePolls DEF PollTypes, Fits, PollStates
  <2> QED
    BY <1>2, <1>3, <1>16, <2>1 DEF IndexerTypes, PollTypes, Fits
<1>17. CASE Start
  <2>1. stops + 1 \in Chains /\ stops \in 0 .. MaxStops
    BY <1>1, IdlePolls DEF PollTypes
  <2>2. poll' = [q \in Chains |-> IF q = stops + 1 THEN Idle("detecting") ELSE poll[q]]
    BY <1>1, <1>17, <2>1 DEF Start, Begin
  <2> QED
    BY <1>16, <1>17, <2>1, <2>2 DEF Start, Begin, chainVars, storedVars
<1>18. CASE Stop \/ Crash
  <2>1. \A q \in Chains : poll'[q] \in {poll[q], Idle("ended")}
    BY <1>18 DEF Stop, Crash
  <2>2. poll' \in [Chains -> PollRecords] /\ \A q \in Chains : Fits(poll'[q])
    <3>1. \A q \in Chains : poll'[q] \in PollRecords /\ Fits(poll'[q])
      BY <1>1, <1>3, <2>1, IdlePolls DEF PollTypes, Fits, PollStates
    <3>2. poll' = [q \in Chains |-> poll'[q]]
      BY <1>18 DEF Stop, Crash
    <3> QED
      BY <3>1, <3>2
  <2>3. UNCHANGED <<tip, chain, reorgs, last, hashes, rpcErrors, clean>>
        /\ stops' = stops + 1 /\ stops < MaxStops
    BY <1>18 DEF Stop, Crash, chainVars, storedVars
  <2>4. stops' \in 0 .. MaxStops
    BY <1>1, <2>3, IndexerAssumption DEF PollTypes
  <2> QED
    BY <1>1, <1>2, <1>3, <2>2, <2>3, <2>4 DEF IndexerTypes, PollTypes, Fits
<1>19. CASE UNCHANGED indexerVars
  BY <1>1, <1>19 DEF indexerVars, chainVars, storedVars, pollVars, IndexerTypes, ChainTypes,
                     PollTypes, Fits
<1>20. CASE LedgerCloses
  <2>1. /\ tip' = tip + 1 /\ tip < MaxLedger /\ chain' = [chain EXCEPT ![tip + 1] = reorgs]
        /\ UNCHANGED <<reorgs, last, hashes, rpcErrors, clean, poll, stops>>
    BY <1>20 DEF LedgerCloses, storedVars, pollVars
  <2>2. ChainTypes'
    BY <1>1, <2>1, IndexerAssumption, SMTT(30) DEF ChainTypes, Ledgers
  <2>3. \A p \in Chains : Fits(poll[p])'
    BY <1>1, <1>3, <2>1 DEF PollTypes, Fits, PollRecords
  <2> QED
    BY <1>1, <2>1, <2>2, <2>3 DEF IndexerTypes, PollTypes
<1>21. CASE Reorganise
  <2>1. PICK k \in 2..tip :
          /\ chain' = [l \in Ledgers |-> IF l \in k..tip THEN reorgs + 1 ELSE chain[l]]
          /\ clean' \in BOOLEAN /\ reorgs' = reorgs + 1
          /\ UNCHANGED <<tip, last, hashes, rpcErrors, poll, stops>>
    BY <1>21 DEF Reorganise, storedVars, pollVars
  <2> QED
    BY <1>1, <2>1 DEF IndexerTypes, ChainTypes, PollTypes, Fits
<1>22. CASE \E p \in Chains : PollStep(p)
  BY <1>5, <1>6, <1>7, <1>8, <1>10, <1>11, <1>13, <1>14, <1>15, <1>22 DEF PollStep
<1> QED
  BY <1>17, <1>18, <1>19, <1>20, <1>21, <1>22 DEF IndexerNext

(***************************************************************************)
(* What may be missing or double stays so, and as long as nothing is, a    *)
(* poll begins only when no other is under way.                            *)
(***************************************************************************)
LEMMA CleanBefore ==
    ASSUME IndexerTypes, [IndexerNext]_indexerVars, clean' = TRUE
    PROVE  clean = TRUE /\ store' = store
<1>1. clean \in BOOLEAN
  BY DEF IndexerTypes
<1>2. ASSUME NEW p \in Chains, PollStep(p) PROVE clean = TRUE /\ store' = store
  BY <1>1, <1>2 DEF PollStep, TimerFires, Begin, DetectNothing, DetectReorg, GetLatestLedger,
                    RpcError, GetEvents, GetEventsFails, InsertBatch
<1>3. CASE Start \/ Stop \/ Crash \/ LedgerCloses \/ Reorganise \/ UNCHANGED indexerVars
  BY <1>1, <1>3 DEF Start, Begin, Stop, Crash, LedgerCloses, Reorganise, indexerVars
<1> QED
  BY <1>2, <1>3 DEF IndexerNext

LEMMA OneStep ==
    ASSUME IndexerTypes, OneAtATime, [IndexerNext]_indexerVars, clean' = TRUE
    PROVE  OneAtATime'
<1>1. poll \in [Chains -> PollRecords] /\ clean = TRUE
  BY CleanBefore DEF IndexerTypes, PollTypes
<1>2. ASSUME \A q \in Chains : poll'[q].at \in UnderWay => poll[q].at \in UnderWay
      PROVE  OneAtATime'
  BY <1>2 DEF OneAtATime
<1>3. ASSUME NEW p \in Chains, Begin(p) PROVE OneAtATime'
  <2>1. \A q \in Chains \ {p} : poll'[q] = poll[q] /\ poll[q].at \notin UnderWay
    BY <1>1, <1>3 DEF Begin
  <2> QED
    BY <2>1 DEF OneAtATime
<1>4. CASE \E p \in Chains : PollStep(p)
  BY <1>2, <1>3, <1>4, PollMoves
<1>5. CASE Start
  <2>1. stops + 1 \in Chains
    BY IdlePolls DEF IndexerTypes, PollTypes
  <2> QED
    BY <1>3, <1>5, <2>1 DEF Start
<1>6. CASE Stop \/ Crash
  <2>1. \A q \in Chains : poll'[q] \in {poll[q], Idle("ended")}
    BY <1>6 DEF Stop, Crash
  <2> QED
    BY <1>2, <2>1, IdlePolls DEF UnderWay, PollStates
<1>7. CASE LedgerCloses \/ Reorganise \/ UNCHANGED indexerVars
  <2>1. poll' = poll
    BY <1>7 DEF LedgerCloses, Reorganise, pollVars, indexerVars
  <2> QED
    BY <1>2, <2>1
<1> QED
  BY <1>4, <1>5, <1>6, <1>7 DEF IndexerNext

(***************************************************************************)
(* How the rows of an index are put together and cut off.                  *)
(***************************************************************************)
LEMMA RowsAgree ==
    ASSUME NEW C, NEW L, NEW f, NEW g, \A l \in L : f[l] = g[l]
    PROVE  RowsOf(C, f, L) = RowsOf(C, g, L)
BY DEF RowsOf

LEMMA RowsJoin ==
    ASSUME NEW C, NEW f, NEW n \in Nat, NEW m \in Nat, n <= m
    PROVE  /\ RowsOf(C, f, 1 .. n) \cup RowsOf(C, f, n + 1 .. m) = RowsOf(C, f, 1 .. m)
           /\ RowsOf(C, f, 1 .. n) \cap RowsOf(C, f, n + 1 .. m) = {}
<1>1. 1 .. m = (1 .. n) \cup (n + 1 .. m)
  OBVIOUS
<1>2. RowsOf(C, f, (1 .. n) \cup (n + 1 .. m)) = RowsOf(C, f, 1 .. n) \cup RowsOf(C, f, n + 1 .. m)
  BY DEF RowsOf
<1>3. \A k \in 1 .. n : k \notin n + 1 .. m
  OBVIOUS
<1>4. RowsOf(C, f, 1 .. n) \cap RowsOf(C, f, n + 1 .. m) = {}
  BY <1>3 DEF RowsOf
<1> QED
  BY <1>1, <1>2, <1>4

LEMMA RowsCut ==
    ASSUME NEW C, NEW f, NEW n \in Nat, NEW m \in 1 .. n
    PROVE  {e \in RowsOf(C, f, 1 .. n) : e[2] <= m} = RowsOf(C, f, 1 .. m)
<1>1. \A e \in RowsOf(C, f, 1 .. n) : e[2] <= m <=> e \in RowsOf(C, f, 1 .. m)
  <2> SUFFICES ASSUME NEW c \in C, NEW l \in 1 .. n
               PROVE  l <= m <=> <<c, l, f[l]>> \in RowsOf(C, f, 1 .. m)
    BY DEF RowsOf
  <2> QED
    BY DEF RowsOf
<1>2. RowsOf(C, f, 1 .. m) \subseteq RowsOf(C, f, 1 .. n)
  BY DEF RowsOf
<1> QED
  BY <1>1, <1>2

(***************************************************************************)
(* The look for a reorganisation leads to an index that is the chain's:    *)
(* either nothing was abandoned, or the poller finds the ledger before the *)
(* first one that was.                                                     *)
(***************************************************************************)
LEMMA NothingAbandoned ==
    ASSUME IndexerTypes, NEW old \in [Ledgers -> Nat], Recoverable(old), BuiltFrom(old),
           last = Null \/ hashes[last] = NoHash \/ Matches(last)
    PROVE  \A l \in 1 .. last : chain[l] = old[l]
<1> SUFFICES ASSUME NEW l \in 1 .. last PROVE chain[l] = old[l]
  OBVIOUS
<1>1. last \in 1 .. last /\ last # Null /\ last \in Ledgers /\ chain[last] \in Nat
      /\ old[last] \in Nat
  BY IndexerAssumption DEF IndexerTypes, ChainTypes, Ledgers, Null
<1>2. chain[last] = old[last]
  BY <1>1 DEF Recoverable, BuiltFrom, Matches, NoHash
<1> QED
  BY <1>1, <1>2 DEF Recoverable

LEMMA AncestorIsTheChains ==
    ASSUME IndexerTypes, NEW old \in [Ledgers -> Nat], Recoverable(old), BuiltFrom(old),
           HashStored, ~Matches(last),
           NEW unread, unread # {} => RewoundTo(unread) # last
    PROVE  /\ RewoundTo(unread) \in 1 .. last
           /\ \A l \in 1 .. RewoundTo(unread) : chain[l] = old[l]
<1>1. /\ RewoundTo(unread) \in 1 .. last
      /\ RewoundTo(unread) # last => Matches(RewoundTo(unread))
  BY Rewound DEF HashStored
<1>2. last \in 1 .. last /\ last \in Nat /\ 1 .. last \subseteq Ledgers
      /\ \A l \in 1 .. last : chain[l] \in Nat /\ old[l] \in Nat
  BY <1>1, IndexerAssumption DEF IndexerTypes, ChainTypes, Ledgers
<1>3. RewoundTo(unread) # last
  <2> SUFFICES ASSUME unread = {} PROVE RewoundTo(unread) # last
    OBVIOUS
  <2>1. chain[last] # old[last]
    BY <1>2 DEF HashStored, Matches, BuiltFrom
  <2> DEFINE Left(n) == n \in 1 .. last /\ chain[n] # old[n]
             forked == {n \in Nat : Left(n)}
  <2>2. PICK k \in forked : \A n \in forked : k <= n
    <3>1. last \in forked
      BY <1>2, <2>1
    <3>2. PICK k \in forked : \A n \in forked : ~(<<n, k>> \in OpToRel(<, Nat))
      BY <3>1, NatLessThanWellFounded, WFMin
    <3>3. \A n \in Nat : n < k => <<n, k>> \in OpToRel(<, Nat)
      BY DEF OpToRel
    <3>4. k \in Nat /\ \A n \in forked : n \in Nat /\ ~(n < k)
      BY <3>2, <3>3
    <3> HIDE DEF forked
    <3>5. \A n \in forked : k <= n
      <4> TAKE n \in forked
      <4>1. n \in Nat /\ k \in Nat /\ ~(n < k)
        BY <3>4
      <4> QED
        BY <4>1
    <3> QED
      BY <3>2, <3>5
  <2>3. /\ k \in 1 .. last /\ k > 1 /\ last - k < maxReorgDepth
        /\ \A n \in k .. last : chain[n] # old[n]
    BY <1>2, <2>2 DEF Recoverable
  <2>4. \A n \in 1 .. k - 1 : chain[n] = old[n]
    BY <1>2, <2>2, <2>3
  <2>5. \A n \in k - 1 .. last : hashes[n] = old[n] /\ hashes[n] # NoHash
    <3> TAKE n \in k - 1 .. last
    <3>1. n \in 1 .. last
      BY <2>3
    <3>2. hashes[n] # NoHash
      <4>1. CASE n = k - 1
        BY <2>2, <2>3, <4>1 DEF Recoverable
      <4>2. CASE n \in k .. last
        BY <2>3, <3>1, <4>2 DEF Recoverable
      <4> QED
        BY <2>3, <4>1, <4>2
    <3> QED
      BY <3>1, <3>2 DEF BuiltFrom
  <2>6. k - 1 \in 1 .. last /\ Matches(k - 1) /\ \A n \in k .. last : ~Matches(n)
    <3>1. k - 1 \in 1 .. last /\ k - 1 \in 1 .. k - 1 /\ k - 1 \in k - 1 .. last
      BY <1>2, <2>3
    <3>2. Matches(k - 1)
      BY <2>4, <2>5, <3>1 DEF Matches
    <3>3. \A n \in k .. last : n \in k - 1 .. last
      BY <2>3
    <3>4. \A n \in k .. last : ~Matches(n)
      BY <2>3, <2>5, <3>3 DEF Matches
    <3> QED
      BY <3>1, <3>2, <3>4
  <2> DEFINE right == {l \in Ledgers \ unread : Matches(l)}
             walk == {l \in right \cap (startLedger..(last - 1)) :
                        /\ last - l <= maxReorgDepth
                        /\ \A m \in l..last : hashes[m] # NoHash /\ (m \in right => m = l)}
  <2>7. RewoundTo(unread) = IF walk = {} THEN last ELSE CHOOSE l \in walk : TRUE
    BY DEF RewoundTo
  <2>8. k - 1 \in walk
    <3>1. k - 1 \in right /\ k - 1 \in startLedger .. last - 1
      BY <1>2, <2>3, <2>6 DEF startLedger
    <3>2. last - (k - 1) <= maxReorgDepth
      BY <1>2, <2>3, IndexerAssumption
    <3>3. \A m \in k - 1 .. last : hashes[m] # NoHash /\ (m \in right => m = k - 1)
      BY <1>2, <2>3, <2>5, <2>6
    <3> QED
      BY <3>1, <3>2, <3>3
  <2>9. \A l \in walk : l # last
    BY <1>2 DEF startLedger
  <2> HIDE DEF walk
  <2> QED
    BY <2>7, <2>8, <2>9
<1>4. hashes[RewoundTo(unread)] \in {NoHash, old[RewoundTo(unread)]}
  BY <1>1 DEF BuiltFrom
<1>5. chain[RewoundTo(unread)] = old[RewoundTo(unread)]
  BY <1>1, <1>2, <1>3, <1>4 DEF Matches, NoHash
<1> QED
  BY <1>1, <1>2, <1>5 DEF Recoverable

(***************************************************************************)
(* The index as it is, and the poll over, are kept by what touches neither *)
(* the chain nor the index.                                                *)
(***************************************************************************)
LEMMA IndexIsLeft ==
    ASSUME NEW old, BuiltFrom(old), Recoverable(old),
           UNCHANGED <<chain, reorgs, last, hashes, rows, twice>>
    PROVE  BuiltFrom(old)' /\ Recoverable(old)'
BY DEF BuiltFrom, Recoverable

LEMMA PollGoesOn ==
    ASSUME NEW old, IndexerTypes, NEW p \in Chains, poll[p].at = "detecting", last' \in Nat,
           Continue(p, last' + 1), \A l \in 1 .. last' : chain'[l] = old[l]
    PROVE  PollIsTrue(old, p)'
<1>1. poll'[p].at = "latest" /\ poll'[p].from = last' + 1
  BY PollContinues
<1> QED
  BY <1>1 DEF PollIsTrue

(***************************************************************************)
(* A step that leaves the poller's guarantees intact leaves the index true.*)
(***************************************************************************)
LEMMA TruthStep ==
    ASSUME IndexerInv, [IndexerNext]_indexerVars, Tracked' PROVE IndexIsTrue'
<1>1. Tracked /\ clean' = TRUE
  BY CleanBefore DEF Tracked, IndexerInv
<1>2. PICK old \in [Ledgers -> Nat] :
         BuiltFrom(old) /\ Recoverable(old) /\ \A p \in Chains : PollIsTrue(old, p)
  BY <1>1 DEF IndexerInv, IndexIsTrue
<1>3. /\ IndexerTypes /\ ChainTypes /\ PollTypes /\ poll \in [Chains -> PollRecords]
      /\ clean = TRUE /\ clean' = TRUE /\ store = "adapter" /\ OneAtATime
  BY <1>1 DEF IndexerInv, IndexerTypes, PollTypes, Tracked
<1>4. ASSUME UNCHANGED <<chain, reorgs, last, hashes, rows, twice>>,
             \A p \in Chains : PollIsTrue(old, p)'
      PROVE  IndexIsTrue'
  BY <1>2, <1>4, IndexIsLeft DEF IndexIsTrue
<1>5. last \in Nat /\ last \in 0 .. tip /\ 1 .. last \subseteq Ledgers
  BY <1>3, IndexerAssumption DEF ChainTypes, Ledgers
<1>6. ASSUME NEW p \in Chains, PollStep(p), poll[p].at \in UnderWay, NEW q \in Chains \ {p},
             NEW some
      PROVE  PollIsTrue(some, q)'
  <2>1. poll'[q] = poll[q] /\ poll[q].at \notin UnderWay
    BY <1>3, <1>6, PollMoves DEF OneAtATime
  <2> QED
    BY <2>1 DEF PollIsTrue, UnderWay
<1>7. ASSUME NEW p \in Chains, poll'[p].at \notin {"latest", "events"}, NEW some
      PROVE  PollIsTrue(some, p)'
  BY <1>7 DEF PollIsTrue
<1>8. ASSUME NEW p \in Chains, DetectNothing(p) PROVE IndexIsTrue'
  <2>1. /\ UNCHANGED <<chain, reorgs, last, hashes, rows, twice>> /\ poll[p].at = "detecting"
        /\ Continue(p, IF last = Null THEN startLedger ELSE last + 1)
        /\ ~HashStored
    <3>1. clean' = (clean /\ rpcErrors' = rpcErrors)
          /\ rpcErrors' = IF HashStored THEN rpcErrors + 1 ELSE rpcErrors
      BY <1>8 DEF DetectNothing
    <3>2. rpcErrors' = rpcErrors /\ rpcErrors \in Nat
      BY <1>3, <3>1 DEF ChainTypes
    <3>3. ~HashStored
      BY <3>1, <3>2
    <3> QED
      BY <1>8, <3>3 DEF DetectNothing, chainVars, storedVars
  <2>2. \A l \in 1 .. last : chain[l] = old[l]
    BY <1>2, <1>3, <2>1, NothingAbandoned DEF HashStored
  <2>3. Continue(p, last' + 1) /\ last' \in Nat
    BY <1>5, <2>1 DEF Null, startLedger
  <2>4. PollIsTrue(old, p)'
    BY <1>3, <2>1, <2>2, <2>3, PollGoesOn
  <2> QED
    BY <1>4, <1>6, <1>8, <2>1, <2>4 DEF PollStep, UnderWay
<1>9. ASSUME NEW p \in Chains, DetectReorg(p), Matches(last) PROVE IndexIsTrue'
  <2>1. /\ UNCHANGED <<chain, reorgs, last, hashes, rows, twice>> /\ poll[p].at = "detecting"
        /\ Continue(p, last' + 1) /\ last' \in Nat
    BY <1>5, <1>9 DEF DetectReorg, chainVars, storedVars
  <2>2. \A l \in 1 .. last : chain[l] = old[l]
    BY <1>2, <1>3, <1>9, NothingAbandoned
  <2>3. PollIsTrue(old, p)'
    BY <1>3, <2>1, <2>2, PollGoesOn
  <2> QED
    BY <1>4, <1>6, <1>9, <2>1, <2>3 DEF PollStep, UnderWay
<1>10. ASSUME NEW p \in Chains, DetectReorg(p), ~Matches(last) PROVE IndexIsTrue'
  <2>1. PICK unread \in SUBSET (startLedger..(last - 1)) :
          /\ rows' = {e \in rows : e[2] <= RewoundTo(unread)}
          /\ twice' = {e \in twice : e[2] <= RewoundTo(unread)}
          /\ hashes' = [l \in Ledgers |-> IF l > RewoundTo(unread) THEN NoHash ELSE hashes[l]]
          /\ last' = RewoundTo(unread) /\ Continue(p, RewoundTo(unread) + 1)
          /\ clean' = (clean /\ (unread # {} => RewoundTo(unread) # last))
    BY <1>10 DEF DetectReorg
  <2>2. PICK ancestor : ancestor = RewoundTo(unread)
    OBVIOUS
  <2>3. ancestor \in 1 .. last /\ \A l \in 1 .. ancestor : chain[l] = old[l]
    BY <1>2, <1>3, <1>10, <2>1, <2>2, AncestorIsTheChains DEF DetectReorg
  <2>4. UNCHANGED <<chain, reorgs>> /\ poll[p].at = "detecting" /\ last' = ancestor
    BY <1>10, <2>1, <2>2 DEF DetectReorg, chainVars
  <2>5. rows' = RowsOf(Contracts, old, 1 .. last')
    <3>1. rows = RowsOf(Contracts, old, 1 .. last) /\ rows' = {e \in rows : e[2] <= ancestor}
      BY <1>2, <2>1, <2>2 DEF BuiltFrom
    <3> QED
      BY <1>5, <2>3, <2>4, <3>1, RowsCut
  <2>6. BuiltFrom(old)'
    BY <1>2, <1>5, <2>1, <2>2, <2>3, <2>4, <2>5 DEF BuiltFrom
  <2>7. Recoverable(old)'
    BY <1>5, <2>3, <2>4 DEF Recoverable
  <2>8. PollIsTrue(old, p)'
    <3>1. last' \in Nat
      BY <1>5, <2>3, <2>4
    <3> QED
      BY <1>3, <2>1, <2>2, <2>3, <2>4, <3>1, PollGoesOn
  <2>9. \A q \in Chains : PollIsTrue(old, q)'
    BY <1>6, <1>10, <2>4, <2>8 DEF PollStep, UnderWay
  <2> QED
    BY <1>2, <2>6, <2>7, <2>9 DEF IndexIsTrue
<1>11. ASSUME NEW p \in Chains, Over(p) PROVE poll'[p].at \notin {"latest", "events"}
  <2>1. PICK state \in {"waiting", "ended"} : poll' = [poll EXCEPT ![p] = Idle(state)]
    BY <1>11 DEF Over
  <2> QED
    BY <1>3, <2>1, PollEnds, IdlePolls DEF PollStates
<1>12. ASSUME NEW p \in Chains, GetLatestLedger(p) PROVE IndexIsTrue'
  <2>1. UNCHANGED <<chain, reorgs, last, hashes, rows, twice>> /\ poll[p].at = "latest"
    BY <1>12 DEF GetLatestLedger, chainVars, storedVars
  <2>2. PollIsTrue(old, p)'
    <3>1. CASE Over(p)
      BY <1>7, <1>11, <3>1
    <3>2. CASE /\ ~(poll[p].from > tip)
               /\ poll' = [poll EXCEPT ![p].at = "events", ![p].latest = tip,
                                       ![p].left = Contracts]
      <4>1. /\ poll[p] \in PollRecords /\ poll[p].got = {} /\ tip \in Nat
        BY <1>3, <2>1 DEF PollTypes, Fits, ChainTypes
      <4>2. /\ poll'[p].at = "events" /\ poll'[p].latest = tip /\ poll'[p].from = poll[p].from
            /\ poll'[p].left = Contracts /\ poll'[p].got = {} /\ poll[p].from <= tip
        BY <1>3, <3>2, <4>1 DEF PollRecords
      <4>3. RowsOf(Contracts \ Contracts, chain', poll[p].from .. tip) = {}
        BY DEF RowsOf
      <4> QED
        BY <1>2, <2>1, <4>2, <4>3 DEF PollIsTrue
    <3> QED
      BY <1>12, <3>1, <3>2 DEF GetLatestLedger
  <2> QED
    BY <1>4, <1>6, <1>12, <2>1, <2>2 DEF PollStep, UnderWay
<1>13. ASSUME NEW p \in Chains, GetEvents(p) PROVE IndexIsTrue'
  <2>1. UNCHANGED <<chain, reorgs, last, hashes, rows, twice>> /\ poll[p].at = "events"
    BY <1>13, SMTT(30) DEF GetEvents, chainVars, storedVars
  <2>2. PICK upTo :
          upTo = IF poll[p].from + batchSize - 1 < tip THEN poll[p].from + batchSize - 1 ELSE tip
    BY SMTT(30)
  <2>3. PICK c \in poll[p].left :
          /\ poll' = [poll EXCEPT ![p].left = @ \ {c},
                        ![p].got = @ \cup {<<c, l, chain[l]>> : l \in poll[p].from..upTo}]
          /\ clean' = (clean /\ upTo = poll[p].latest)
    BY <1>13, <2>2 DEF GetEvents
  <2>4. upTo = poll[p].latest
    BY <1>3, <2>3
  <2>5. PICK more : more = {<<c, l, chain[l]>> : l \in poll[p].from..upTo}
    OBVIOUS
  <2>6. c \in Contracts /\ more \in SUBSET Rows
    BY <1>3, <2>1, <2>2, <2>5, EventsAreRows
  <2>7. /\ poll'[p].at = "events" /\ poll'[p].latest = poll[p].latest
        /\ poll'[p].from = poll[p].from /\ poll'[p].left = poll[p].left \ {c}
        /\ poll'[p].got = poll[p].got \cup more
    <3>1. poll' = [poll EXCEPT ![p].left = @ \ {c}, ![p].got = @ \cup more]
      BY <2>3, <2>5
    <3>2. IndexerTypes
      BY <1>3
    <3> QED
      BY <2>1, <2>6, <3>1, <3>2, PollReads
  <2>8. poll[p].got \cup more
          = RowsOf(Contracts \ (poll[p].left \ {c}), chain, poll[p].from .. poll[p].latest)
    <3>1. poll[p].got = RowsOf(Contracts \ poll[p].left, chain, poll[p].from .. poll[p].latest)
      BY <1>2, <2>1 DEF PollIsTrue
    <3>2. more = RowsOf({c}, chain, poll[p].from .. poll[p].latest)
      BY <2>4, <2>5 DEF RowsOf
    <3>3. PICK left : left = poll[p].left
      OBVIOUS
    <3>4. PICK L : L = poll[p].from .. poll[p].latest
      OBVIOUS
    <3>5. RowsOf(Contracts \ left, chain, L) \cup RowsOf({c}, chain, L)
            = RowsOf(Contracts \ (left \ {c}), chain, L)
      <4>1. Contracts \ (left \ {c}) = (Contracts \ left) \cup {c}
        BY <2>6
      <4> QED
        BY <4>1 DEF RowsOf
    <3> QED
      BY <3>1, <3>2, <3>3, <3>4, <3>5
  <2>9. PollIsTrue(old, p)'
    BY <1>2, <2>1, <2>7, <2>8 DEF PollIsTrue
  <2> QED
    BY <1>4, <1>6, <1>13, <2>1, <2>9 DEF PollStep, UnderWay
<1>14. ASSUME NEW p \in Chains, InsertBatch(p) PROVE IndexIsTrue'
  <2>1. PICK latest, got : latest = poll[p].latest /\ got = poll[p].got
    OBVIOUS
  <2>2. /\ poll[p].at = "events" /\ poll[p].from = last + 1 /\ last + 1 <= latest
        /\ latest \in Nat /\ latest <= tip /\ \A l \in 1 .. last : chain[l] = old[l]
        /\ got = RowsOf(Contracts, chain, last + 1 .. latest)
    <3>1. poll[p].at = "events" /\ poll[p].left = {} /\ Contracts \ {} = Contracts
      BY <1>14 DEF InsertBatch
    <3>2. latest \in Nat /\ latest <= tip
      BY <1>3, <2>1 DEF PollTypes, PollRecords, Fits
    <3> QED
      BY <1>2, <2>1, <3>1, <3>2 DEF PollIsTrue
  <2>3. PICK hash \in {chain[latest], NoHash} :
          /\ last' = latest /\ hashes' = [hashes EXCEPT ![latest] = hash]
          /\ rows' = rows \cup got /\ twice' = twice \cup (rows \cap got)
          /\ Over(p) /\ UNCHANGED <<chain, reorgs>>
    BY <1>3, <1>14, <2>1 DEF InsertBatch, Insert, chainVars
  <2>4. rows = RowsOf(Contracts, chain, 1 .. last)
    BY <1>2, <2>2, RowsAgree, ZenonT(40) DEF BuiltFrom
  <2>5. rows' = RowsOf(Contracts, chain, 1 .. latest) /\ twice' = {}
    <3>1. twice = {}
      BY <1>2 DEF BuiltFrom
    <3>2. /\ RowsOf(Contracts, chain, 1 .. last) \cup RowsOf(Contracts, chain, last + 1 .. latest)
               = RowsOf(Contracts, chain, 1 .. latest)
          /\ RowsOf(Contracts, chain, 1 .. last) \cap RowsOf(Contracts, chain, last + 1 .. latest)
               = {}
      BY <1>5, <2>2, RowsJoin
    <3> QED
      BY <2>2, <2>3, <2>4, <3>1, <3>2
  <2>6. latest \in Ledgers /\ 1 .. latest \subseteq Ledgers
    BY <1>3, <1>5, <2>2, IndexerAssumption DEF ChainTypes, Ledgers
  <2>7. PICK new \in [Ledgers -> Nat] : new = chain
    BY <1>3 DEF ChainTypes
  <2>8. \A l \in 1 .. latest : hashes'[l] \in {NoHash, chain[l]} /\ chain[l] <= reorgs
    <3> TAKE l \in 1 .. latest
    <3>1. chain[l] <= reorgs /\ l \in Ledgers
      BY <1>3, <2>6 DEF ChainTypes
    <3>2. CASE l = latest
      BY <1>3, <2>3, <2>6, <3>1, <3>2 DEF ChainTypes
    <3>3. CASE l # latest /\ l > last
      BY <1>2, <1>3, <2>3, <3>1, <3>3 DEF ChainTypes, BuiltFrom
    <3>4. CASE l # latest /\ l <= last
      BY <1>2, <1>3, <2>2, <2>3, <3>1, <3>4 DEF ChainTypes, BuiltFrom
    <3> QED
      BY <1>5, <3>2, <3>3, <3>4
  <2>9. \A l \in Ledgers : l > latest => hashes'[l] = NoHash
    BY <1>2, <1>3, <1>5, <2>2, <2>3 DEF ChainTypes, BuiltFrom, Ledgers
  <2>10. BuiltFrom(new)'
    BY <2>3, <2>5, <2>7, <2>8, <2>9 DEF BuiltFrom
  <2>11. Recoverable(new)'
    BY <2>3, <2>7 DEF Recoverable
  <2>12. PollIsTrue(new, p)'
    BY <1>7, <1>11, <2>3
  <2>13. \A q \in Chains : PollIsTrue(new, q)'
    BY <1>6, <1>14, <2>2, <2>12 DEF PollStep, UnderWay
  <2> QED
    BY <2>10, <2>11, <2>13 DEF IndexIsTrue
<1>15. ASSUME NEW p \in Chains, PollStep(p), UNCHANGED <<chain, reorgs, last, hashes, rows, twice>>,
              poll'[p].at \notin {"latest", "events"}
       PROVE  IndexIsTrue'
  <2>1. ASSUME NEW q \in Chains \ {p} PROVE PollIsTrue(old, q)'
    <3>1. poll'[q] = poll[q]
      BY <1>3, <1>15, PollMoves
    <3> QED
      BY <1>2, <1>15, <3>1 DEF PollIsTrue
  <2> QED
    BY <1>4, <1>7, <1>15, <2>1
<1>16. ASSUME NEW p \in Chains, TimerFires(p) \/ RpcError(p) \/ GetEventsFails(p) PROVE IndexIsTrue'
  <2>1. CASE TimerFires(p)
    <3>1. PICK state \in {"detecting", "ended"} : poll' = [poll EXCEPT ![p] = Idle(state)]
      BY <2>1 DEF TimerFires, Begin
    <3>2. poll'[p].at \notin {"latest", "events"}
      BY <1>3, <3>1, PollEnds, IdlePolls DEF PollStates
    <3>3. UNCHANGED <<chain, reorgs, last, hashes, rows, twice>>
      BY <2>1 DEF TimerFires, chainVars, storedVars
    <3> QED
      BY <1>15, <2>1, <3>2, <3>3 DEF PollStep
  <2>2. CASE RpcError(p)
    <3>1. UNCHANGED <<chain, reorgs, last, hashes, rows, twice>> /\ Over(p)
      BY <2>2 DEF RpcError, chainVars, storedVars
    <3> QED
      BY <1>11, <1>15, <2>2, <3>1 DEF PollStep
  <2>3. CASE GetEventsFails(p)
    BY <1>3, <2>3 DEF GetEventsFails
  <2> QED
    BY <1>16, <2>1, <2>2, <2>3
<1>17. CASE Start \/ Stop \/ Crash
  <2>1. UNCHANGED <<chain, reorgs, last, hashes, rows, twice>>
    BY <1>17 DEF Start, Stop, Crash, chainVars, storedVars
  <2>2. \A q \in Chains : poll'[q] \in {poll[q], Idle("ended"), Idle("detecting")}
    BY <1>3, <1>17 DEF Start, Begin, Stop, Crash
  <2>3. ASSUME NEW q \in Chains PROVE PollIsTrue(old, q)'
    <3>1. CASE poll'[q] = poll[q]
      BY <1>2, <2>1, <3>1 DEF PollIsTrue
    <3>2. CASE poll'[q] \in {Idle("ended"), Idle("detecting")}
      BY <1>7, <3>2, IdlePolls DEF PollStates
    <3> QED
      BY <2>2, <3>1, <3>2
  <2> QED
    BY <1>4, <2>1, <2>3
<1>18. CASE UNCHANGED indexerVars
  <2>1. UNCHANGED <<chain, reorgs, last, hashes, rows, twice, poll>>
    BY <1>18 DEF indexerVars, chainVars, storedVars, pollVars
  <2> QED
    BY <1>2, <1>4, <2>1 DEF PollIsTrue
<1>19. CASE LedgerCloses
  <2>1. /\ tip' = tip + 1 /\ chain' = [chain EXCEPT ![tip + 1] = reorgs] /\ tip \in Nat
        /\ UNCHANGED <<reorgs, last, hashes, rows, twice, poll>>
    BY <1>3, <1>19 DEF LedgerCloses, storedVars, pollVars, ChainTypes
  <2>2. \A l \in 1 .. tip : chain'[l] = chain[l]
    BY <1>3, <2>1, IndexerAssumption DEF ChainTypes, Ledgers
  <2>3. \A l \in 1 .. last : chain'[l] = chain[l]
    BY <1>5, <2>1, <2>2
  <2>4. BuiltFrom(old)' /\ Recoverable(old)'
    BY <1>2, <2>1, <2>3 DEF BuiltFrom, Recoverable
  <2>5. ASSUME NEW p \in Chains PROVE PollIsTrue(old, p)'
    <3>1. poll[p] \in PollRecords /\ Fits(poll[p]) /\ PollIsTrue(old, p)
      BY <1>2, <1>3 DEF PollTypes
    <3>2. poll[p].at = "events" => \A l \in poll[p].from .. poll[p].latest : chain'[l] = chain[l]
      BY <2>1, <2>2, <3>1 DEF PollRecords, Fits
    <3>3. poll[p].at = "events" =>
            RowsOf(Contracts \ poll[p].left, chain', poll[p].from .. poll[p].latest)
              = RowsOf(Contracts \ poll[p].left, chain, poll[p].from .. poll[p].latest)
      BY <3>2, RowsAgree
    <3> QED
      BY <2>1, <2>3, <3>1, <3>3 DEF PollIsTrue
  <2> QED
    BY <1>2, <2>4, <2>5 DEF IndexIsTrue
<1>20. CASE Reorganise
  <2>1. PICK k \in 2 .. tip :
          /\ chain' = [l \in Ledgers |-> IF l \in k..tip THEN reorgs + 1 ELSE chain[l]]
          /\ \A p \in Chains : poll[p].at \notin {"latest", "events"}
          /\ k <= last => /\ \A l \in (k - 1)..last : hashes[l] # NoHash
                          /\ last - k < maxReorgDepth
          /\ reorgs' = reorgs + 1
          /\ UNCHANGED <<tip, last, hashes, rows, twice, poll>>
    BY <1>3, <1>20 DEF Reorganise, storedVars, pollVars
  <2>2. /\ \A l \in 1 .. last : chain'[l] = IF l >= k THEN reorgs + 1 ELSE chain[l]
        /\ \A l \in 1 .. last : old[l] \in Nat /\ old[l] <= reorgs
        /\ reorgs \in Nat
    BY <1>2, <1>3, <1>5, <2>1 DEF BuiltFrom, ChainTypes, Ledgers
  <2>3. \A l \in 1 .. last : chain'[l] = old[l] <=> l < k /\ chain[l] = old[l]
    BY <1>5, <2>1, <2>2
  <2>4. BuiltFrom(old)'
    BY <1>2, <2>1, <2>2 DEF BuiltFrom
  <2>5. \A l, m \in 1 .. last : l <= m /\ chain'[m] = old[m] => chain'[l] = old[l]
    <3> SUFFICES ASSUME NEW l \in 1 .. last, NEW m \in 1 .. last, l <= m, chain'[m] = old[m]
                 PROVE  chain'[l] = old[l]
      OBVIOUS
    <3>1. m < k /\ chain[m] = old[m]
      BY <2>3
    <3>2. l < k /\ chain[l] = old[l]
      BY <1>2, <1>5, <2>1, <3>1 DEF Recoverable
    <3> QED
      BY <2>3, <3>2
  <2>6. ASSUME NEW l \in 1 .. last, chain'[l] # old[l]
        PROVE  l > 1 /\ hashes[l] # NoHash /\ hashes[l - 1] # NoHash /\ last - l < maxReorgDepth
    <3>1. CASE chain[l] # old[l]
      BY <1>2, <3>1 DEF Recoverable
    <3>2. CASE l >= k
      BY <1>5, <2>1, <3>2, IndexerAssumption
    <3> QED
      BY <2>1, <2>3, <2>6, <3>1, <3>2
  <2>7. Recoverable(old)'
    BY <2>1, <2>5, <2>6 DEF Recoverable
  <2>8. \A p \in Chains : PollIsTrue(old, p)'
    BY <1>7, <2>1
  <2> QED
    BY <1>2, <2>4, <2>7, <2>8 DEF IndexIsTrue
<1>21. CASE \E p \in Chains : PollStep(p)
  BY <1>8, <1>9, <1>10, <1>12, <1>13, <1>14, <1>16, <1>21 DEF PollStep
<1> QED
  BY <1>17, <1>18, <1>19, <1>20, <1>21 DEF IndexerNext

(***************************************************************************)
(* A poll that goes on from its look for a reorganisation has an index     *)
(* that is the chain's, every event once and none of an abandoned fork,    *)
(* for any number of contracts, ledgers, reorganisations, stops that leave *)
(* a poll running and restarts, and any batch size and depth: with a store *)
(* that keeps rows, watermark and hash together, until one of the things   *)
(* has happened the poller does not guard against, of which one is a start *)
(* while an earlier poll is under way (indexer/src/poller.ts: start, stop, *)
(* poll, detectAndRecoverReorg).                                           *)
(***************************************************************************)
THEOREM IndexStaysExact == IndexerSpec => []IndexIsExact
<1>1. IndexerInv /\ [IndexerNext]_indexerVars => IndexerInv'
  <2> SUFFICES ASSUME IndexerInv, [IndexerNext]_indexerVars PROVE IndexerInv'
    OBVIOUS
  <2>1. IndexerTypes'
    BY IndexerTypesStep DEF IndexerInv
  <2>2. clean' = TRUE => OneAtATime'
    BY CleanBefore, OneStep DEF IndexerInv
  <2>3. Tracked' => IndexIsTrue'
    BY TruthStep
  <2> QED
    BY <2>1, <2>2, <2>3 DEF IndexerInv
<1>2. IndexerInv => IndexIsExact
  <2> SUFFICES ASSUME IndexerInv, store = "adapter", clean, NEW p \in Chains,
                      poll[p].at \in {"latest", "events"}
               PROVE  /\ twice = {}
                      /\ rows = {<<c, l, chain[l]>> : c \in Contracts, l \in startLedger..last}
    BY DEF IndexIsExact
  <2>1. PICK old \in [Ledgers -> Nat] : BuiltFrom(old) /\ PollIsTrue(old, p)
    BY DEF IndexerInv, IndexerTypes, Tracked, IndexIsTrue
  <2>2. rows = RowsOf(Contracts, chain, 1 .. last)
    BY <2>1, RowsAgree DEF BuiltFrom, PollIsTrue
  <2> QED
    BY <2>1, <2>2 DEF BuiltFrom, RowsOf, startLedger
<1> QED
  BY <1>1, <1>2, IndexerStarts, PTL DEF IndexerSpec

(***************************************************************************)
(* No hash is of a later reorganisation than there may be, and the rows,   *)
(* those stored twice among them, are events of the chain's ledgers.       *)
(***************************************************************************)
Hashes == 0 .. MaxReorgs

StoredTypes ==
    /\ store \in {"EventStore", "adapter"} /\ reorgs <= MaxReorgs
    /\ hashes \in [Ledgers -> {NoHash} \cup Hashes]
    /\ rows \subseteq Events /\ twice \subseteq rows
    /\ running \in BOOLEAN /\ pollTimer \in Chains \cup {0}
    /\ \A p \in Chains : poll[p].got \subseteq Events

LEMMA ChainHashes ==
    ASSUME IndexerTypes, StoredTypes PROVE \A l \in Ledgers : chain[l] \in Hashes
BY IndexerAssumption DEF IndexerTypes, ChainTypes, StoredTypes, Hashes

LEMMA StoredTypesStep ==
    IndexerTypes /\ IndexerTypes' /\ StoredTypes /\ [IndexerNext]_indexerVars => StoredTypes'
<1> SUFFICES ASSUME IndexerTypes, IndexerTypes', StoredTypes, [IndexerNext]_indexerVars
             PROVE  StoredTypes'
  OBVIOUS
<1> USE DEF StoredTypes
<1>0. poll \in [Chains -> PollRecords] /\ tip \in Ledgers
  BY DEF IndexerTypes, PollTypes, ChainTypes, Ledgers
<1>1. ASSUME NEW p \in Chains, PollStep(p), poll'[p].got \subseteq Events,
             hashes' \in [Ledgers -> {NoHash} \cup Hashes],
             rows' \subseteq Events, twice' \subseteq rows',
             running' = running, pollTimer' \in {pollTimer, p}
      PROVE  StoredTypes'
  BY <1>1, PollMoves
<1>2. ASSUME NEW p \in Chains, Over(p)
      PROVE  poll'[p].got \subseteq Events /\ running' = running /\ pollTimer' \in {pollTimer, p}
  <2>1. PICK state \in {"waiting", "ended"} : poll' = [poll EXCEPT ![p] = Idle(state)]
    BY <1>2 DEF Over
  <2> QED
    BY <1>0, <1>2, <2>1, IdlePolls DEF Over, PollStates
<1>3. ASSUME NEW p \in Chains, TimerFires(p) PROVE StoredTypes'
  <2>1. PICK state \in {"detecting", "ended"} : poll' = [poll EXCEPT ![p] = Idle(state)]
    BY <1>3 DEF TimerFires, Begin
  <2>2. poll'[p].got \subseteq Events
    BY <1>0, <2>1, IdlePolls DEF PollStates
  <2> QED
    BY <1>1, <1>3, <2>2 DEF PollStep, TimerFires, storedVars
<1>4. ASSUME NEW p \in Chains, NEW from, Continue(p, from) PROVE poll'[p].got = poll[p].got
  BY <1>0, <1>4 DEF Continue, PollRecords
<1>5. ASSUME NEW p \in Chains, DetectNothing(p) PROVE StoredTypes'
  BY <1>1, <1>4, <1>5 DEF PollStep, DetectNothing, storedVars
<1>6. ASSUME NEW p \in Chains, DetectReorg(p) PROVE StoredTypes'
  <2>1. running' = running /\ pollTimer' = pollTimer /\ poll'[p].got = poll[p].got
    BY <1>4, <1>6 DEF DetectReorg
  <2>2. CASE Matches(last)
    BY <1>1, <1>6, <2>1, <2>2 DEF PollStep, DetectReorg, storedVars
  <2>3. CASE ~Matches(last)
    <3>1. PICK unread \in SUBSET (startLedger..(last - 1)) :
            /\ rows' = {e \in rows : e[2] <= RewoundTo(unread)}
            /\ twice' = {e \in twice : e[2] <= RewoundTo(unread)}
            /\ hashes' = [l \in Ledgers |-> IF l > RewoundTo(unread) THEN NoHash ELSE hashes[l]]
      BY <1>6, <2>3 DEF DetectReorg
    <3>2. hashes' \in [Ledgers -> {NoHash} \cup Hashes]
      BY <3>1
    <3> QED
      BY <1>1, <1>6, <2>1, <3>1, <3>2 DEF PollStep
  <2> QED
    BY <2>2, <2>3
<1>7. ASSUME NEW p \in Chains, GetLatestLedger(p) PROVE StoredTypes'
  <2>1. poll'[p].got \subseteq Events /\ running' = running /\ pollTimer' \in {pollTimer, p}
    <3>1. CASE Over(p)
      BY <1>2, <3>1
    <3>2. CASE poll' = [poll EXCEPT ![p].at = "events", ![p].latest = tip, ![p].left = Contracts]
               /\ UNCHANGED <<running, pollTimer>>
      BY <1>0, <3>2 DEF PollRecords
    <3> QED
      BY <1>7, <3>1, <3>2 DEF GetLatestLedger
  <2> QED
    BY <1>1, <1>7, <2>1 DEF PollStep, GetLatestLedger, storedVars
<1>8. ASSUME NEW p \in Chains, RpcError(p) PROVE StoredTypes'
  BY <1>1, <1>2, <1>8 DEF PollStep, RpcError, storedVars
<1>9. ASSUME NEW p \in Chains, GetEvents(p) PROVE StoredTypes'
  <2>1. PICK upTo :
          upTo = IF poll[p].from + batchSize - 1 < tip THEN poll[p].from + batchSize - 1 ELSE tip
    BY SMTT(30)
  <2>2. PICK c \in poll[p].left :
          poll' = [poll EXCEPT ![p].left = @ \ {c},
                      ![p].got = @ \cup {<<c, l, chain[l]>> : l \in poll[p].from..upTo}]
    BY <1>9, <2>1 DEF GetEvents
  <2>3. PICK more : more = {<<c, l, chain[l]>> : l \in poll[p].from..upTo}
    OBVIOUS
  <2>4. /\ c \in Contracts /\ more \in SUBSET Rows /\ poll[p].from .. upTo \subseteq Ledgers
        /\ poll[p].at = "events"
    BY <1>9, <2>1, <2>3, EventsAreRows DEF GetEvents
  <2>5. more \subseteq Events
    BY <2>3, <2>4, ChainHashes DEF Events, Hashes
  <2>6. poll'[p].got = poll[p].got \cup more
    <3>1. poll' = [poll EXCEPT ![p].left = @ \ {c}, ![p].got = @ \cup more]
      BY <2>2, <2>3
    <3>2. IndexerTypes /\ more \in SUBSET Rows /\ poll[p].at = "events"
      BY <2>4
    <3> QED
      BY <3>1, <3>2, PollReads
  <2> QED
    BY <1>1, <1>9, <2>5, <2>6 DEF PollStep, GetEvents, storedVars
<1>10. ASSUME NEW p \in Chains, GetEventsFails(p) PROVE StoredTypes'
  <2>1. poll'[p].got = poll[p].got
    BY <1>0, <1>10 DEF GetEventsFails, PollRecords
  <2> QED
    BY <1>1, <1>10, <2>1 DEF PollStep, GetEventsFails, storedVars
<1>11. ASSUME NEW p \in Chains, InsertBatch(p) PROVE StoredTypes'
  <2>1. /\ rows' = rows \cup poll[p].got /\ twice' = twice \cup (rows \cap poll[p].got)
        /\ Over(p)
    BY <1>11 DEF InsertBatch, Insert
  <2>2. hashes' \in [Ledgers -> {NoHash} \cup Hashes]
    <3>1. CASE hashes' = hashes
      BY <3>1
    <3>2. ASSUME NEW hash \in {chain[poll[p].latest], NoHash},
                 hashes' = [hashes EXCEPT ![poll[p].latest] = hash]
          PROVE  hashes' \in [Ledgers -> {NoHash} \cup Hashes]
      <4>1. CASE poll[p].latest \in Ledgers
        BY <3>2, <4>1, ChainHashes
      <4>2. CASE poll[p].latest \notin Ledgers
        BY <3>2, <4>2
      <4> QED
        BY <4>1, <4>2
    <3> QED
      BY <1>11, <3>1, <3>2 DEF InsertBatch
  <2>3. rows' \subseteq Events /\ twice' \subseteq rows'
    BY <2>1
  <2> QED
    BY <1>1, <1>2, <1>11, <2>1, <2>2, <2>3 DEF PollStep
<1>12. CASE Start \/ Stop \/ Crash
  <2>1. \A q \in Chains : poll'[q] \in {poll[q], Idle("ended"), Idle("detecting")}
    BY <1>0, <1>12 DEF Start, Begin, Stop, Crash
  <2>2. \A q \in Chains : poll'[q].got \subseteq Events
    BY <2>1, IdlePolls DEF PollStates
  <2>3. /\ running' \in BOOLEAN /\ pollTimer' \in {pollTimer, 0}
        /\ UNCHANGED <<store, reorgs, storedVars>>
    BY <1>12 DEF Start, Stop, Crash, chainVars
  <2> QED
    BY <2>2, <2>3 DEF storedVars
<1>13. CASE LedgerCloses \/ UNCHANGED indexerVars
  BY <1>13 DEF LedgerCloses, indexerVars, chainVars, storedVars, pollVars
<1>14. CASE Reorganise
  <2>1. reorgs' = reorgs + 1 /\ reorgs < MaxReorgs
        /\ UNCHANGED <<store, pollVars, storedVars>>
    BY <1>14 DEF Reorganise
  <2>2. reorgs' <= MaxReorgs
    BY <2>1, IndexerAssumption DEF IndexerTypes, ChainTypes
  <2> QED
    BY <2>1, <2>2 DEF storedVars, pollVars
<1>15. CASE \E p \in Chains : PollStep(p)
  BY <1>3, <1>5, <1>6, <1>7, <1>8, <1>9, <1>10, <1>11, <1>15 DEF PollStep
<1> QED
  BY <1>12, <1>13, <1>14, <1>15 DEF IndexerNext

LEMMA IndexerStaysTyped == IndexerSpec => []IndexerTypeOK
<1>1. IndexerInit => IndexerTypes /\ StoredTypes
  <2> SUFFICES ASSUME NEW kind \in {"EventStore", "adapter"}, IndexerStart(kind)
               PROVE  StoredTypes
    BY IndexerStarts DEF IndexerInit, IndexerInv
  <2>1. \A p \in Chains : poll[p].got = {}
    BY IdlePolls DEF IndexerStart, PollStates
  <2>2. /\ reorgs = 0 /\ hashes = [l \in Ledgers |-> NoHash] /\ rows = {} /\ twice = {}
        /\ running = FALSE /\ pollTimer = 0 /\ store = kind
    BY DEF IndexerStart
  <2>3. reorgs <= MaxReorgs /\ hashes \in [Ledgers -> {NoHash} \cup Hashes]
    BY <2>2, IndexerAssumption
  <2> QED
    BY <2>1, <2>2, <2>3 DEF StoredTypes
<1>2. IndexerTypes /\ StoredTypes => IndexerTypeOK
  <2> SUFFICES ASSUME IndexerTypes, StoredTypes PROVE IndexerTypeOK
    OBVIOUS
  <2>1. tip \in Ledgers /\ last \in 0 .. MaxLedger
    BY IndexerAssumption DEF IndexerTypes, ChainTypes, Ledgers
  <2>2. chain \in [Ledgers -> 0 .. MaxReorgs]
    BY ChainHashes DEF IndexerTypes, ChainTypes, Hashes
  <2>3. \A p \in Chains : poll[p].at \in {"ended", "waiting"} \cup UnderWay
    BY DEF IndexerTypes, PollTypes, PollRecords, PollStates, UnderWay
  <2>4. {running, clean} \subseteq BOOLEAN
    BY DEF IndexerTypes, StoredTypes
  <2> QED
    BY <2>1, <2>2, <2>3, <2>4 DEF IndexerTypeOK, StoredTypes, Hashes
<1> QED
  BY <1>1, <1>2, IndexerTypesStep, StoredTypesStep, PTL DEF IndexerSpec

----------------------------------------------------------------------------
(* The queue of failed work. *)

DlqSpec == DlqInit /\ [][DlqNext]_dlqVars

Runs == [at : {"idle", "working", "sleeping", "returned", "saving", "threw", "threwStores"},
         attempt : Nat]
Replays == [at : {"idle", "next", "working", "resolving", "givingUp"},
            todo : SUBSET DlqJobs, job : DlqJobs \cup {"none"}, attempt : Nat]

(***************************************************************************)
(* A replayer that is about to mark a letter resolved has done its work,   *)
(* and it has listed only work that withRetry has given up.                *)
(***************************************************************************)
ResolvesWhatIsDone ==
    \A r \in Replayers : replay[r].at = "resolving" => replay[r].job \in executed
ListsWhatIsGivenUp ==
    \A r \in Replayers :
        /\ \A j \in replay[r].todo : GivenUp(j)
        /\ replay[r].at \notin {"idle", "next"} => replay[r].job \in DlqJobs

DlqInv ==
    /\ run \in [DlqJobs -> Runs]
    /\ letter \in [DlqJobs -> {"none", "pending", "replayed", "resolved"}]
    /\ executed \subseteq DlqJobs \cup {"none"}
    /\ replay \in [Replayers -> Replays]
    /\ ResolvesWhatIsDone /\ ListsWhatIsGivenUp /\ QueueIsTrue

LEMMA DlqStarts == DlqInit => DlqInv
BY DEF DlqInit, DlqStart, Resting, Runs, Replays, DlqInv, ResolvesWhatIsDone,
       ListsWhatIsGivenUp, QueueIsTrue

(***************************************************************************)
(* What a caller does with its work, on which no replayer works: it stays  *)
(* given up once it is.                                                    *)
(***************************************************************************)
LEMMA CallerKeepsInv ==
    ASSUME DlqInv, NEW j \in DlqJobs, NEW new \in Runs, run' = [run EXCEPT ![j] = new],
           GivenUp(j) => new.at \in {"saving", "threw", "threwStores"},
           new.at = "threw" => letter[j] # "none",
           executed \subseteq executed', executed' \subseteq executed \cup {j},
           UNCHANGED <<letter, replay>>
    PROVE  DlqInv'
<1>1. run' \in [DlqJobs -> Runs]
  BY DEF DlqInv
<1>2. \A i \in DlqJobs : GivenUp(i) => GivenUp(i)'
  BY DEF DlqInv, GivenUp
<1>3. \A i \in DlqJobs : run'[i].at = "threw" => letter[i] # "none"
  BY DEF DlqInv, QueueIsTrue
<1>4. \A r \in Replayers : replay[r] \in Replays
  BY DEF DlqInv
<1>5. ListsWhatIsGivenUp'
  BY <1>2, <1>4 DEF DlqInv, ListsWhatIsGivenUp, Replays
<1>6. \A r \in Replayers : replay[r].at \notin {"idle", "next"} => replay[r].job \in DlqJobs
  BY DEF DlqInv, ListsWhatIsGivenUp
<1>7. QueueIsTrue'
  BY <1>2, <1>3, <1>6 DEF DlqInv, QueueIsTrue
<1> QED
  BY <1>1, <1>5, <1>7 DEF DlqInv, ResolvesWhatIsDone

LEMMA RunKeepsInv ==
    ASSUME DlqInv, NEW j \in DlqJobs,
           \/ Run(j) \/ WorkDone(j) \/ WorkFails(j) \/ LetterLands(j) \/ LetterSaved(j)
           \/ SaveFails(j)
    PROVE  DlqInv'
<1>0. run[j] \in Runs /\ run[j].attempt \in Nat
  BY DEF DlqInv, Runs
<1>1. CASE Run(j)
  <2>1. [run[j] EXCEPT !.at = "working"] \in Runs
    BY <1>0 DEF Runs
  <2> QED
    BY <1>0, <1>1, <2>1, CallerKeepsInv DEF Run, GivenUp, Runs
<1>2. CASE WorkDone(j)
  <2>1. [run[j] EXCEPT !.at = "returned"] \in Runs
    BY <1>0 DEF Runs
  <2> QED
    BY <1>0, <1>2, <2>1, CallerKeepsInv DEF WorkDone, GivenUp, Runs
<1>3. CASE WorkFails(j)
  <2>1. PICK new : /\ new \in {[at |-> "sleeping", attempt |-> run[j].attempt + 1],
                               [run[j] EXCEPT !.at = "saving"]}
                   /\ run' = [run EXCEPT ![j] = new]
    BY <1>3 DEF WorkFails
  <2>2. new \in Runs /\ new.at \in {"sleeping", "saving"}
    BY <1>0, <2>1 DEF Runs
  <2> QED
    BY <1>3, <2>1, <2>2, CallerKeepsInv DEF WorkFails, GivenUp
<1>4. CASE LetterLands(j)
  <2>1. /\ letter' \in [DlqJobs -> {"none", "pending", "replayed", "resolved"}]
        /\ \A i \in DlqJobs : letter'[i] = letter[i] \/ (i = j /\ letter'[i] = "pending")
        /\ GivenUp(j)
    BY <1>4 DEF LetterLands, DlqInv, GivenUp
  <2>2. QueueIsTrue'
    BY <1>4, <2>1 DEF LetterLands, DlqInv, QueueIsTrue, GivenUp
  <2> QED
    BY <1>4, <2>1, <2>2
       DEF LetterLands, DlqInv, ResolvesWhatIsDone, ListsWhatIsGivenUp, GivenUp
<1>5. CASE LetterSaved(j)
  <2>1. [run[j] EXCEPT !.at = "threw"] \in Runs
    BY <1>0 DEF Runs
  <2> QED
    BY <1>0, <1>5, <2>1, CallerKeepsInv DEF LetterSaved, GivenUp, Runs
<1>6. CASE SaveFails(j)
  <2>1. [run[j] EXCEPT !.at = "threwStores"] \in Runs
    BY <1>0 DEF Runs
  <2> QED
    BY <1>0, <1>6, <2>1, CallerKeepsInv DEF SaveFails, GivenUp, Runs
<1> QED
  BY <1>1, <1>2, <1>3, <1>4, <1>5, <1>6

(***************************************************************************)
(* What a replayer does.                                                   *)
(***************************************************************************)
LEMMA ReplayKeepsInv ==
    ASSUME DlqInv, NEW r \in Replayers,
           \/ ListPending(r) \/ GetLetter(r) \/ ReplayDone(r) \/ ReplaySucceeds(r)
           \/ ReplayFails(r) \/ MarkResolved(r) \/ MarkReplayed(r)
    PROVE  DlqInv'
<1> USE DEF DlqInv, ResolvesWhatIsDone, ListsWhatIsGivenUp, QueueIsTrue, GivenUp, Replays
<1>1. CASE ListPending(r)
  <2>1. PICK pending : /\ pending = {j \in DlqJobs : letter[j] = "pending"}
                       /\ replay' = [replay EXCEPT ![r].at = "next", ![r].todo = pending]
    BY <1>1 DEF ListPending
  <2>2. \A j \in pending : j \in DlqJobs /\ run[j].at \in {"saving", "threw", "threwStores"}
    BY <2>1
  <2>3. /\ replay'[r].at = "next" /\ replay'[r].todo = pending
        /\ \A o \in Replayers \ {r} : replay'[o] = replay[o]
    BY <2>1
  <2>4. [replay[r] EXCEPT !.at = "next", !.todo = pending] \in Replays
    <3>1. replay[r] \in Replays /\ pending \in SUBSET DlqJobs
      BY <2>1
    <3> QED
      BY <3>1
  <2>5. replay' \in [Replayers -> Replays]
    BY <2>1, <2>4
  <2> QED
    BY <1>1, <2>2, <2>3, <2>5 DEF ListPending
<1>2. CASE GetLetter(r)
  <2>1. PICK j \in replay[r].todo :
            replay' = [replay EXCEPT ![r] = [at |-> "working", todo |-> replay[r].todo \ {j},
                                             job |-> j, attempt |-> 0]]
    BY <1>2 DEF GetLetter
  <2> QED
    BY <1>2, <2>1 DEF GetLetter
<1>3. CASE ReplayDone(r)
  BY <1>3 DEF ReplayDone, Resting
<1>4. CASE ReplaySucceeds(r)
  BY <1>4 DEF ReplaySucceeds
<1>5. CASE ReplayFails(r)
  BY <1>5 DEF ReplayFails
<1>6. CASE MarkResolved(r)
  BY <1>6 DEF MarkResolved, Marks
<1>7. CASE MarkReplayed(r)
  BY <1>7 DEF MarkReplayed, Marks, Resting
<1> QED
  BY <1>1, <1>2, <1>3, <1>4, <1>5, <1>6, <1>7

LEMMA DlqStep == DlqInv /\ [DlqNext]_dlqVars => DlqInv'
BY RunKeepsInv, ReplayKeepsInv
   DEF DlqNext, dlqVars, DlqInv, ResolvesWhatIsDone, ListsWhatIsGivenUp, QueueIsTrue, GivenUp

LEMMA QueueStaysTrue == DlqSpec => []QueueIsTrue
<1>1. DlqInv => QueueIsTrue
  BY DEF DlqInv
<1> QED
  BY <1>1, DlqStarts, DlqStep, PTL DEF DlqSpec

RetriesInBounds ==
    storeSet \in BOOLEAN /\ \A j \in DlqJobs : run[j].attempt <= maxRetries

LEMMA DlqStaysTyped == DlqSpec => []DlqTypeOK
<1>1. DlqInit => RetriesInBounds
  BY DlqAssumption DEF DlqInit, DlqStart, RetriesInBounds
<1>2. DlqInv /\ RetriesInBounds /\ [DlqNext]_dlqVars => RetriesInBounds'
  <2> SUFFICES ASSUME DlqInv, RetriesInBounds, [DlqNext]_dlqVars PROVE RetriesInBounds'
    OBVIOUS
  <2> USE DEF RetriesInBounds
  <2>0. storeSet' = storeSet /\ run \in [DlqJobs -> Runs] /\ maxRetries \in Nat
    BY DlqAssumption
       DEF DlqInv, DlqNext, dlqVars, Run, WorkDone, WorkFails, LetterLands, LetterSaved,
           SaveFails, ListPending, GetLetter, ReplayDone, ReplaySucceeds, ReplayFails, MarkResolved,
           MarkReplayed
  <2>1. ASSUME NEW j \in DlqJobs,
               \/ Run(j) \/ WorkDone(j) \/ LetterLands(j) \/ LetterSaved(j) \/ SaveFails(j)
        PROVE  RetriesInBounds'
    BY <2>0, <2>1 DEF Run, WorkDone, LetterLands, LetterSaved, SaveFails, Runs
  <2>2. ASSUME NEW j \in DlqJobs, WorkFails(j) PROVE RetriesInBounds'
    BY <2>0, <2>2 DEF WorkFails, Runs
  <2>3. ASSUME run' = run PROVE RetriesInBounds'
    BY <2>0, <2>3
  <2> QED
    BY <2>1, <2>2, <2>3 DEF DlqNext, dlqVars, ListPending, GetLetter, ReplayDone, ReplaySucceeds,
                            ReplayFails, MarkResolved, MarkReplayed
<1>3. DlqInv /\ RetriesInBounds => DlqTypeOK
  <2> SUFFICES ASSUME DlqInv, RetriesInBounds PROVE DlqTypeOK
    OBVIOUS
  <2>1. \A j \in DlqJobs : run[j].attempt \in 0 .. maxRetries
    BY DlqAssumption DEF DlqInv, Runs, RetriesInBounds
  <2>2. \A r \in Replayers : replay[r].todo \subseteq DlqJobs
    BY DEF DlqInv, Replays
  <2> QED
    BY <2>1, <2>2 DEF DlqInv, RetriesInBounds, DlqTypeOK
<1> QED
  BY <1>1, <1>2, <1>3, DlqStarts, DlqStep, PTL DEF DlqSpec

----------------------------------------------------------------------------
(* The end of an agent's process. *)

ShutdownSpec == ShutdownInit /\ [][ShutdownNext]_shutdownVars

(***************************************************************************)
(* A shutdown that has its answer from the tracker was right to be given   *)
(* it, and no request is accepted once one of them waits.                  *)
(***************************************************************************)
ShutdownInv ==
    /\ connection \in [Requests -> {"none", "open", "ended"}]
    /\ task \in [Requests -> {"none", "running", "settled"}]
    /\ shutdownAt \in [Registrations -> {"idle", "draining", "closing", "done"}]
    /\ awaited \in [Registrations -> SUBSET Requests]
    /\ drained \in [Registrations -> BOOLEAN]
    /\ tasks = {r \in Requests : task[r] = "running"}
    /\ \A r \in Requests : connection[r] # "ended" => task[r] = "none"
    /\ \A h \in Registrations : drained[h] => AllSettled(h)
    /\ listening => \A h \in Registrations : shutdownAt[h] = "idle"
    /\ early \subseteq {r \in Requests : connection[r] = "ended"}
    /\ \A h \in Registrations : shutdownAt[h] # "idle" =>
          \A r \in early : r \in awaited[h] \/ task[r] # "running"
    /\ exitCode = 9 => dbOpen
    /\ CleanExitIsDrained

LEMMA ShutdownStarts == ShutdownInit => ShutdownInv
BY DEF ShutdownInit, ShutdownInv, AllSettled, CleanExitIsDrained, Alive

LEMMA RequestKeepsInv ==
    ASSUME ShutdownInv, NEW r \in Requests, Accept(r) \/ Answer(r) \/ Settle(r)
    PROVE  ShutdownInv'
<1> USE DEF ShutdownInv, AllSettled, CleanExitIsDrained, Alive, process
<1>1. CASE Accept(r)
  BY <1>1 DEF Accept
<1>2. CASE Answer(r)
  BY <1>2 DEF Answer
<1>3. CASE Settle(r)
  BY <1>3 DEF Settle
<1> QED
  BY <1>1, <1>2, <1>3

LEMMA SignalKeepsInv == ASSUME ShutdownInv, Signal PROVE ShutdownInv'
BY DEF Signal, ShutdownInv, AllSettled, CleanExitIsDrained, Alive

LEMMA ShutdownKeepsInv ==
    ASSUME ShutdownInv, NEW h \in Registrations, Drained(h) \/ Exit(h) \/ Unregister(h)
    PROVE  ShutdownInv'
<1> USE DEF ShutdownInv, AllSettled, CleanExitIsDrained, Alive
<1>1. CASE Drained(h)
  <2>1. PICK d \in BOOLEAN :
            /\ d => AllSettled(h)
            /\ drained' = [drained EXCEPT ![h] = d]
    BY <1>1 DEF Drained
  <2> QED
    BY <1>1, <2>1 DEF Drained
<1>2. CASE Exit(h) /\ drained[h]
  <2>1. \A r \in early : task[r] # "running"
    BY <1>2 DEF Exit
  <2> QED
    BY <1>2, <2>1 DEF Exit, ServerClosed
<1>4. CASE Exit(h) /\ ~drained[h]
  BY <1>4 DEF Exit
<1>3. CASE Unregister(h)
  BY <1>3 DEF Unregister
<1> QED
  BY <1>1, <1>2, <1>3, <1>4

LEMMA ShutdownStep == ShutdownInv /\ [ShutdownNext]_shutdownVars => ShutdownInv'
<1> SUFFICES ASSUME ShutdownInv, [ShutdownNext]_shutdownVars PROVE ShutdownInv'
  OBVIOUS
<1>1. CASE UNCHANGED shutdownVars
  BY <1>1 DEF shutdownVars, ShutdownInv, AllSettled, CleanExitIsDrained, Alive
<1> QED
  BY <1>1, RequestKeepsInv, SignalKeepsInv, ShutdownKeepsInv DEF ShutdownNext

LEMMA CleanExitStaysDrained == ShutdownSpec => []CleanExitIsDrained
<1>1. ShutdownInv => CleanExitIsDrained
  BY DEF ShutdownInv
<1> QED
  BY <1>1, ShutdownStarts, ShutdownStep, PTL DEF ShutdownSpec

LEMMA ShutdownStaysTyped == ShutdownSpec => []ShutdownTypeOK
<1> DEFINE Types == /\ listening \in BOOLEAN /\ dbOpen \in BOOLEAN /\ exitCode \in {0, 1, 9}
                    /\ handlers \subseteq Registrations
<1>1. ShutdownInit => Types
  BY DEF ShutdownInit
<1>2. Types /\ [ShutdownNext]_shutdownVars => Types'
  BY DEF ShutdownNext, shutdownVars, process, Accept, Answer, Settle, Signal, Drained, Exit,
         Unregister
<1>3. ShutdownInv /\ Types => ShutdownTypeOK
  BY DEF ShutdownInv, ShutdownTypeOK
<1> QED
  BY <1>1, <1>2, <1>3, ShutdownStarts, ShutdownStep, PTL DEF ShutdownSpec

----------------------------------------------------------------------------
(* The watcher of expired jobs. *)

WatcherSpec == WatcherInit /\ [][WatcherNext]_watcherVars

TickStates == {"unused", "asking", "working", "over"}
Stages == {"none", "reading", "refunding"}
Going == {t \in Ticks : InFlightTick(t)}

(***************************************************************************)
(* A tick works when the indexer has answered it, on jobs it has locked;   *)
(* the ticks begin one after the other; only a watcher that runs has a     *)
(* timer of its own.  A timer that nobody holds any more was left by a     *)
(* tick that ended: there are no more of them and of ticks in flight than  *)
(* ticks that began.                                                       *)
(***************************************************************************)
TicksInOrder ==
    /\ \A t \in Ticks : tick[t] = "unused" <=> t > ticked
    /\ \A t \in Ticks, j \in WatchedJobs : work[t][j] # "none" => tick[t] = "working"
    /\ watching = FALSE => timer = FALSE
    /\ others + Cardinality(Going) <= ticked

WatcherTypes ==
    /\ watching \in BOOLEAN /\ timer \in BOOLEAN /\ others \in Nat
    /\ ticked \in 0..MaxTicks /\ tick \in [Ticks -> TickStates]
    /\ work \in [Ticks -> [WatchedJobs -> Stages]]
    /\ inFlight \subseteq WatchedJobs
    /\ jobOnChain \in [WatchedJobs -> {"Funded", "Submitted", "Cancelled"}]
    /\ refunded \subseteq WatchedJobs

WatcherInv == WatcherTypes /\ TicksInOrder /\ WatcherKeepsWatch

LEMMA TicksAreFinite == IsFiniteSet(Ticks) /\ IsFiniteSet(Going) /\ Cardinality(Going) \in Nat
<1>1. IsFiniteSet(Ticks)
  BY FS_Interval, WatcherAssumption DEF Ticks
<1>2. IsFiniteSet(Going)
  BY <1>1, FS_Subset DEF Going
<1> QED
  BY <1>1, <1>2, FS_CardinalityType

LEMMA WatcherStarts == WatcherInit => WatcherInv
<1> SUFFICES ASSUME WatcherInit PROVE WatcherInv
  OBVIOUS
<1>1. \A t \in Ticks : tick[t] = "unused" /\ t \in Nat /\ t > 0
  BY WatcherAssumption DEF WatcherInit, Ticks
<1>2. Going = {}
  BY <1>1 DEF Going, InFlightTick
<1>3. Cardinality(Going) = 0
  BY <1>2, FS_EmptySet
<1>4. \A t \in Ticks, j \in WatchedJobs : work[t][j] = "none"
  BY DEF WatcherInit
<1>5. WatcherTypes
  <2>1. ticked \in 0..MaxTicks /\ others \in Nat
    BY WatcherAssumption DEF WatcherInit
  <2>2. tick \in [Ticks -> TickStates] /\ work \in [Ticks -> [WatchedJobs -> Stages]]
    BY DEF WatcherInit, TickStates, Stages
  <2>3. jobOnChain \in [WatchedJobs -> {"Funded", "Submitted", "Cancelled"}]
    BY DEF WatcherInit
  <2> QED
    BY <2>1, <2>2, <2>3 DEF WatcherInit, WatcherTypes
<1>6. TicksInOrder
  BY <1>1, <1>3, <1>4 DEF WatcherInit, TicksInOrder
<1>7. WatcherKeepsWatch
  BY <1>4 DEF WatcherInit, WatcherKeepsWatch
<1> QED
  BY <1>5, <1>6, <1>7 DEF WatcherInv

(***************************************************************************)
(* Timers: a tick that begins is one more that began and is in flight.     *)
(***************************************************************************)
LEMMA TickBeginsKeepsInv == ASSUME WatcherInv, TickBegins PROVE WatcherInv'
<1> USE DEF WatcherInv, WatcherTypes, TicksInOrder, WatcherKeepsWatch
<1> DEFINE new == ticked + 1
<1>1. /\ new \in Ticks /\ ticked' = new /\ tick' = [tick EXCEPT ![new] = "asking"]
      /\ UNCHANGED <<watching, work, inFlight, refunded, jobOnChain>>
  BY WatcherAssumption DEF TickBegins, Ticks
<1>2. new > ticked /\ tick[new] = "unused"
  BY <1>1
<1> HIDE DEF new
<1>3. /\ tick'[new] = "asking" /\ \A t \in Ticks \ {new} : tick'[t] = tick[t]
      /\ tick' \in [Ticks -> TickStates]
  BY <1>1 DEF TickStates
<1>4. Going' = Going \cup {new} /\ new \notin Going
  BY <1>1, <1>2, <1>3 DEF Going, InFlightTick
<1>5. Cardinality(Going') = Cardinality(Going) + 1
  BY <1>4, TicksAreFinite, FS_AddElement
<1>6. /\ timer' \in BOOLEAN /\ others' \in Nat /\ others' <= others
      /\ watching = FALSE => timer' = FALSE
  <2>1. CASE timer /\ timer' = FALSE /\ UNCHANGED others
    <3>1. others' \in Nat /\ others' <= others
      BY <2>1
    <3>2. timer' = FALSE
      BY <2>1
    <3> QED
      BY <3>1, <3>2, Zenon
  <2>2. CASE others > 0 /\ others' = others - 1 /\ UNCHANGED timer
    <3>1. others' \in Nat /\ others' <= others
      BY <2>2
    <3>2. timer' = timer
      BY <2>2
    <3> QED
      BY <3>1, <3>2, Zenon
  <2> QED
    BY <2>1, <2>2, Zenon DEF TickBegins
<1>7. ticked' \in 0..MaxTicks /\ \A t \in Ticks : t > ticked' <=> t > ticked /\ t # new
  BY <1>1, WatcherAssumption DEF Ticks, new
<1>8. WatcherTypes'
  BY <1>1, <1>3, <1>6, <1>7
<1>9. TicksInOrder'
  <2>1. \A t \in Ticks : tick'[t] = "unused" <=> t > ticked'
    BY <1>2, <1>3, <1>7
  <2>2. \A t \in Ticks, j \in WatchedJobs : work'[t][j] # "none" => tick'[t] = "working"
    BY <1>1, <1>2, <1>3
  <2>3. others' + Cardinality(Going') <= ticked'
    BY <1>1, <1>5, <1>6, TicksAreFinite DEF new
  <2> QED
    BY <1>1, <1>6, <2>1, <2>2, <2>3
<1>10. WatcherKeepsWatch'
  <2>1. \E t \in Ticks : tick'[t] = "asking"
    BY <1>1, <1>3
  <2> QED
    BY <1>1, <2>1 DEF InFlightTick
<1> QED
  BY <1>8, <1>9, <1>10

LEMMA TickEndsKeepsInv == ASSUME WatcherInv, NEW t \in Ticks, TickEnds(t) PROVE WatcherInv'
<1> USE DEF WatcherInv, WatcherTypes, TicksInOrder, WatcherKeepsWatch
<1>1. /\ tick[t] = "working" /\ tick' = [tick EXCEPT ![t] = "over"]
      /\ \A j \in WatchedJobs : work[t][j] = "none"
      /\ UNCHANGED <<watching, ticked, work, inFlight, refunded, jobOnChain>>
  BY DEF TickEnds
<1>2. /\ tick'[t] = "over" /\ \A u \in Ticks \ {t} : tick'[u] = tick[u]
      /\ tick' \in [Ticks -> TickStates]
  BY <1>1 DEF TickStates
<1>3. Going' = Going \ {t} /\ t \in Going
  BY <1>1, <1>2 DEF Going, InFlightTick
<1>4. Cardinality(Going') = Cardinality(Going) - 1
  BY <1>3, TicksAreFinite, FS_RemoveElement
<1>5. /\ others' \in {others, others + 1}
      /\ \/ watching = TRUE /\ timer' = TRUE
         \/ watching = FALSE /\ timer' = timer
  BY Zenon DEF TickEnds, ScheduleNext
<1>6. TicksInOrder'
  <2>1. others' + Cardinality(Going') <= ticked'
    BY <1>1, <1>4, <1>5, TicksAreFinite
  <2>2. \A u \in Ticks, j \in WatchedJobs : work'[u][j] # "none" => tick'[u] = "working"
    BY <1>1, <1>2
  <2>3. \A u \in Ticks : tick'[u] = "unused" <=> u > ticked'
    BY <1>1, <1>2
  <2>4. watching' = FALSE => timer' = FALSE
    BY <1>1, <1>5
  <2> QED
    BY <2>1, <2>2, <2>3, <2>4
<1>7. WatcherTypes'
  <2>1. others' \in Nat
    BY <1>5
  <2>2. timer' \in BOOLEAN
    BY <1>5, Zenon
  <2> QED
    BY <1>1, <1>2, <2>1, <2>2, Zenon
<1>8. WatcherKeepsWatch'
  BY <1>1, <1>5
<1> QED
  BY <1>6, <1>7, <1>8

(***************************************************************************)
(* The indexer's answer: the jobs a tick takes are not locked, so no other *)
(* tick has them.                                                          *)
(***************************************************************************)
LEMMA AnswerKeepsInv == ASSUME WatcherInv, NEW t \in Ticks, IndexerAnswers(t) PROVE WatcherInv'
<1> USE DEF WatcherInv, WatcherTypes, TicksInOrder, WatcherKeepsWatch
<1>1. PICK expired \in SUBSET WatchedJobs :
          /\ inFlight' = inFlight \cup expired
          /\ work' = [work EXCEPT ![t] = [j \in WatchedJobs |->
                         IF j \in expired \ inFlight THEN "reading" ELSE "none"]]
  BY DEF IndexerAnswers
<1>2. /\ tick[t] = "asking" /\ tick' = [tick EXCEPT ![t] = "working"]
      /\ UNCHANGED <<watching, timer, others, ticked, refunded, jobOnChain>>
  BY DEF IndexerAnswers, timers
<1>3. /\ tick'[t] = "working" /\ \A u \in Ticks \ {t} : tick'[u] = tick[u]
      /\ tick' \in [Ticks -> TickStates]
  BY <1>2 DEF TickStates
<1>4. /\ \A j \in WatchedJobs : work'[t][j] # "none" <=> j \in expired \ inFlight
      /\ \A u \in Ticks \ {t} : work'[u] = work[u]
      /\ work' \in [Ticks -> [WatchedJobs -> Stages]]
  BY <1>1 DEF Stages
<1>5. \A j \in WatchedJobs : work[t][j] = "none"
  BY <1>2
<1>6. Going' = Going
  BY <1>2, <1>3 DEF Going, InFlightTick
<1>7. TicksInOrder'
  <2>1. \A u \in Ticks, j \in WatchedJobs : work'[u][j] # "none" => tick'[u] = "working"
    BY <1>3, <1>4
  <2>2. \A u \in Ticks : tick'[u] = "unused" <=> u > ticked'
    BY <1>2, <1>3
  <2> QED
    BY <1>2, <1>6, <2>1, <2>2
<1>8. WatcherKeepsWatch'
  <2>1. \A u, v \in Ticks, j \in WatchedJobs :
           work'[u][j] # "none" /\ work'[v][j] # "none" => u = v
    BY <1>4
  <2>2. inFlight' = {j \in WatchedJobs : \E u \in Ticks : work'[u][j] # "none"}
    <3>1. \A j \in WatchedJobs :
             j \in inFlight' <=> \E u \in Ticks : work'[u][j] # "none"
      <4> TAKE j \in WatchedJobs
      <4>1. j \in inFlight <=> \E u \in Ticks \ {t} : work[u][j] # "none"
        BY <1>5
      <4> QED
        BY <1>1, <1>4, <4>1
    <3> QED
      BY <1>1, <3>1
  <2>3. watching' => timer' \/ others' > 0 \/ \E u \in Ticks : InFlightTick(u)'
    BY <1>2, <1>3 DEF InFlightTick
  <2> QED
    BY <1>2, <2>1, <2>2, <2>3
<1> QED
  BY <1>1, <1>2, <1>3, <1>4, <1>7, <1>8

(***************************************************************************)
(* What a tick does with one of its jobs: it goes on with it, or is done   *)
(* and gives up the lock that nobody else holds.                           *)
(***************************************************************************)
LEMMA JobKeepsInv ==
    ASSUME WatcherInv, NEW t \in Ticks, NEW j \in WatchedJobs, work[t][j] # "none",
           \/ Stage(t, j, "refunding") /\ UNCHANGED inFlight
           \/ Release(t, j),
           UNCHANGED <<timers, ticked, tick>>,
           \/ jobOnChain' = jobOnChain
           \/ jobOnChain' = [jobOnChain EXCEPT ![j] = "Cancelled"],
           \/ refunded' = refunded
           \/ refunded' = refunded \cup {j} /\ jobOnChain'[j] = "Cancelled"
    PROVE  WatcherInv'
<1> USE DEF WatcherInv, WatcherTypes, TicksInOrder, WatcherKeepsWatch
<1>1. PICK stage \in {"refunding", "none"} :
          /\ work' = [work EXCEPT ![t][j] = stage]
          /\ inFlight' = IF stage = "none" THEN inFlight \ {j} ELSE inFlight
  BY Zenon DEF Stage, Release
<1>2. /\ work'[t][j] = stage
      /\ \A u \in Ticks, i \in WatchedJobs : u # t \/ i # j => work'[u][i] = work[u][i]
      /\ work' \in [Ticks -> [WatchedJobs -> Stages]]
  BY <1>1 DEF Stages
<1>3. UNCHANGED <<watching, timer, others, ticked, tick>> /\ Going' = Going
  <2>1. UNCHANGED <<watching, timer, others, ticked, tick>>
    BY DEF timers
  <2> QED
    BY <2>1 DEF Going, InFlightTick
<1>4. ASSUME NEW u \in Ticks, NEW i \in WatchedJobs, work'[u][i] # "none"
      PROVE  work[u][i] # "none"
  <2>1. CASE u = t /\ i = j
    BY <2>1
  <2>2. CASE u # t \/ i # j
    BY <1>2, <1>4, <2>2
  <2> QED
    BY <2>1, <2>2
<1>5. /\ jobOnChain' \in [WatchedJobs -> {"Funded", "Submitted", "Cancelled"}]
      /\ \A i \in refunded' : i \in WatchedJobs /\ jobOnChain'[i] = "Cancelled"
  OBVIOUS
<1>6. inFlight' = {i \in WatchedJobs : \E u \in Ticks : work'[u][i] # "none"}
  <2>1. \A i \in WatchedJobs : i \in inFlight' <=> \E u \in Ticks : work'[u][i] # "none"
    <3>1. ASSUME NEW i \in WatchedJobs, i # j
          PROVE  i \in inFlight' <=> \E u \in Ticks : work'[u][i] # "none"
      BY <1>1, <1>2, <3>1
    <3>2. j \in inFlight' <=> \E u \in Ticks : work'[u][j] # "none"
      <4>1. j \in inFlight /\ \A u \in Ticks \ {t} : work[u][j] = "none"
        OBVIOUS
      <4> QED
        BY <1>1, <1>2, <4>1
    <3> QED
      BY <3>1, <3>2
  <2> QED
    BY <1>1, <2>1
<1>7. watching' => timer' \/ others' > 0 \/ \E u \in Ticks : InFlightTick(u)'
  BY <1>3 DEF InFlightTick
<1>8. TicksInOrder'
  BY <1>3, <1>4
<1> QED
  BY <1>1, <1>2, <1>3, <1>4, <1>5, <1>6, <1>7, <1>8

LEMMA WatcherStep == WatcherInv /\ [WatcherNext]_watcherVars => WatcherInv'
<1> SUFFICES ASSUME WatcherInv, [WatcherNext]_watcherVars PROVE WatcherInv'
  OBVIOUS
<1> USE DEF WatcherInv, WatcherTypes, TicksInOrder, WatcherKeepsWatch
<1>1. ASSUME UNCHANGED <<ticked, tick, work, inFlight, refunded>>,
             \A j \in WatchedJobs :
                jobOnChain[j] = "Cancelled" => jobOnChain'[j] = "Cancelled",
             jobOnChain' \in [WatchedJobs -> {"Funded", "Submitted", "Cancelled"}],
             others' = others,
             \/ watching' = watching /\ timer' = timer
             \/ watching' = TRUE /\ timer' = TRUE
             \/ watching' = FALSE /\ timer' = FALSE
      PROVE  WatcherInv'
  <2>1. Going' = Going /\ \A t \in Ticks : InFlightTick(t)' <=> InFlightTick(t)
    BY <1>1 DEF Going, InFlightTick
  <2>2. watching' \in BOOLEAN /\ timer' \in BOOLEAN /\ (watching' = FALSE => timer' = FALSE)
    <3>1. watching \in BOOLEAN /\ timer \in BOOLEAN /\ (watching = FALSE => timer = FALSE)
      BY Zenon
    <3>2. CASE watching' = watching /\ timer' = timer
      BY <3>1, <3>2, Zenon
    <3>3. CASE watching' = TRUE /\ timer' = TRUE
      BY <3>3, Zenon
    <3>4. CASE watching' = FALSE /\ timer' = FALSE
      BY <3>4, Zenon
    <3> QED
      BY <1>1, <3>2, <3>3, <3>4, Zenon
  <2>3. watching' => timer' \/ others' > 0 \/ \E t \in Ticks : InFlightTick(t)'
    <3>1. watching => timer \/ others > 0 \/ \E t \in Ticks : InFlightTick(t)
      BY Zenon
    <3>2. CASE watching' = watching /\ timer' = timer
      BY <1>1, <2>1, <3>1, <3>2, Zenon
    <3>3. CASE timer' = TRUE \/ watching' = FALSE
      BY <3>3, Zenon
    <3> QED
      BY <1>1, <3>2, <3>3, Zenon
  <2>4. WatcherTypes'
    BY <1>1, <2>2
  <2>5. TicksInOrder'
    BY <1>1, <2>1, <2>2
  <2> QED
    BY <1>1, <2>3, <2>4, <2>5
<1>2. CASE StartWatcher
  <2>1. timer = FALSE /\ watching' = TRUE /\ timer' = TRUE /\ others' = others
    BY <1>2, Zenon DEF StartWatcher, ScheduleNext
  <2> QED
    BY <1>1, <1>2, <2>1 DEF StartWatcher
<1>3. CASE StopWatcher
  <2>1. watching' = FALSE /\ timer' = FALSE /\ others' = others
    BY <1>3, Zenon DEF StopWatcher
  <2> QED
    BY <1>1, <1>3, <2>1 DEF StopWatcher
<1>4. CASE WatcherStopped \/ UNCHANGED watcherVars
  BY <1>1, <1>4 DEF WatcherStopped, watcherVars, timers
<1>5. CASE \E j \in WatchedJobs : ProviderSubmits(j)
  <2>1. PICK j \in WatchedJobs :
           jobOnChain[j] = "Funded" /\ jobOnChain' = [jobOnChain EXCEPT ![j] = "Submitted"]
    BY <1>5 DEF ProviderSubmits
  <2>2. UNCHANGED <<timers, ticked, tick, work, inFlight, refunded>>
    BY <1>5 DEF ProviderSubmits
  <2>3. /\ jobOnChain' \in [WatchedJobs -> {"Funded", "Submitted", "Cancelled"}]
        /\ \A i \in WatchedJobs :
              jobOnChain[i] = "Cancelled" => jobOnChain'[i] = "Cancelled"
    BY <2>1
  <2> QED
    BY <1>1, <2>2, <2>3 DEF timers
<1>6. ASSUME NEW t \in Ticks, NEW j \in WatchedJobs,
             ReadJob(t, j) \/ ReadFails(t, j) \/ Refunded(t, j) \/ RefundFails(t, j)
      PROVE  WatcherInv'
  <2>1. work[t][j] # "none" /\ UNCHANGED <<timers, ticked, tick>>
    BY <1>6 DEF ReadJob, ReadFails, Refunded, RefundFails
  <2>2. (Stage(t, j, "refunding") /\ UNCHANGED inFlight) \/ Release(t, j)
    BY <1>6, Zenon DEF ReadJob, ReadFails, Refunded, RefundFails
  <2>3. jobOnChain' = jobOnChain \/ jobOnChain' = [jobOnChain EXCEPT ![j] = "Cancelled"]
    BY <1>6 DEF ReadJob, ReadFails, Refunded, RefundFails
  <2>4. refunded' = refunded \/ (refunded' = refunded \cup {j} /\ jobOnChain'[j] = "Cancelled")
    BY <1>6 DEF ReadJob, ReadFails, Refunded, RefundFails
  <2> QED
    BY <2>1, <2>2, <2>3, <2>4, JobKeepsInv
<1> QED
  BY <1>2, <1>3, <1>4, <1>5, <1>6, TickBeginsKeepsInv, TickEndsKeepsInv, AnswerKeepsInv
     DEF WatcherNext

LEMMA WatchIsKept == WatcherSpec => []WatcherKeepsWatch
<1>1. WatcherInv => WatcherKeepsWatch
  BY DEF WatcherInv
<1> QED
  BY <1>1, WatcherStarts, WatcherStep, PTL DEF WatcherSpec

LEMMA WatcherStaysTyped == WatcherSpec => []WatcherTypeOK
<1>1. WatcherInv => WatcherTypeOK
  BY TicksAreFinite, WatcherAssumption
     DEF WatcherInv, WatcherTypes, TicksInOrder, WatcherTypeOK, TickStates
<1> QED
  BY <1>1, WatcherStarts, WatcherStep, PTL DEF WatcherSpec

----------------------------------------------------------------------------
(* The store of events, read page by page (indexer/src/db.ts). *)

RowsSpec == EventStoreInit /\ [][MigrationsNext \/ RowsNext]_storeVars

LEMMA RowsAreFinite ==
    ASSUME eventRows \in Seq(Nat)
    PROVE  /\ IsFiniteSet(Kept) /\ Kept \subseteq Nat
           /\ \A query, i : Ahead(query, i) \subseteq Kept /\ IsFiniteSet(Ahead(query, i))
                              /\ Place(query, i) \in Nat
<1>1. DOMAIN eventRows = 1 .. Len(eventRows) /\ Len(eventRows) \in Nat
  OBVIOUS
<1>2. IsFiniteSet(1 .. Len(eventRows)) /\ 1 .. Len(eventRows) \subseteq Nat
  BY <1>1, FS_Interval
<1>3. IsFiniteSet(Kept) /\ Kept \subseteq Nat
  BY <1>1, <1>2, FS_Subset DEF Kept
<1>4. \A query, i : Ahead(query, i) \subseteq Kept
  BY DEF Ahead
<1> QED
  BY <1>3, <1>4, FS_Subset, FS_CardinalityType DEF Place

(***************************************************************************)
(* A row ahead of another has the earlier place.                           *)
(***************************************************************************)
LEMMA PlacesAreInOrder ==
    ASSUME eventRows \in Seq(Nat), NEW query, NEW i \in Kept, NEW j \in Ahead(query, i)
    PROVE  Ahead(query, j) \subseteq Ahead(query, i) /\ Place(query, j) < Place(query, i)
<1>1. \A k \in Kept : k \in Nat /\ eventRows[k] \in Nat
  BY RowsAreFinite DEF Kept
<1>2. /\ j \in Kept /\ j \notin Ahead(query, j)
      /\ \A k \in Ahead(query, j) : k \in Ahead(query, i)
  BY <1>1 DEF Ahead, Before
<1>3. /\ Cardinality(Ahead(query, j)) <= Cardinality(Ahead(query, i))
      /\ Cardinality(Ahead(query, j)) # Cardinality(Ahead(query, i))
  BY <1>2, RowsAreFinite, FS_Subset
<1> QED
  BY <1>2, <1>3, RowsAreFinite DEF Place

(***************************************************************************)
(* The places are in a row: if a row has this place or a later one, some   *)
(* row has this one.  The first row that has is it, for the last of those  *)
(* ahead of it has the place before.                                       *)
(***************************************************************************)
LEMMA PlacesAreTaken ==
    ASSUME eventRows \in Seq(Nat), NEW query, NEW offset \in Nat,
           NEW i \in Kept, Place(query, i) >= offset
    PROVE  \E m \in Kept : Place(query, m) = offset
<1> DEFINE P(k) == Place(query, k)
           Late == {k \in Kept : P(k) >= offset}
<1>1. \A k \in Kept : P(k) \in Nat
  BY RowsAreFinite
<1>2. PICK m \in Late : \A k \in Late : P(m) <= P(k)
  <2> DEFINE Places == {P(k) : k \in Late}
  <2>1. Places \in SUBSET Nat /\ Places # {}
    BY <1>1
  <2>2. PICK p \in Places : \A r \in Places : p <= r
    <3> HIDE DEF Places
    <3> QED
      BY <2>1, SmallestNumber
  <2>3. PICK m \in Late : p = P(m)
    OBVIOUS
  <2> QED
    BY <2>2, <2>3
<1>3. SUFFICES ASSUME P(m) > offset PROVE FALSE
  BY <1>1, <1>2
<1>4. \A k \in Ahead(query, m) : k \in Kept /\ P(k) < P(m) /\ P(k) < offset
  <2> TAKE k \in Ahead(query, m)
  <2>1. k \in Kept /\ P(k) < P(m)
    BY PlacesAreInOrder, RowsAreFinite
  <2> QED
    BY <1>1, <1>2, <2>1
<1>5. Ahead(query, m) # {}
  <2>1. Ahead(query, m) = {} => P(m) = 0
    BY FS_EmptySet DEF Place
  <2> HIDE DEF P
  <2> QED
    BY <1>1, <1>3, <2>1
<1>6. PICK prior \in Ahead(query, m) : \A k \in Ahead(query, m) : P(k) <= P(prior)
  <2> DEFINE Gaps == {P(m) - P(k) : k \in Ahead(query, m)}
  <2>1. Gaps \in SUBSET Nat /\ Gaps # {}
    BY <1>1, <1>4, <1>5
  <2>2. PICK g \in Gaps : \A r \in Gaps : g <= r
    <3> HIDE DEF Gaps
    <3> QED
      BY <2>1, SmallestNumber
  <2>3. PICK prior \in Ahead(query, m) : g = P(m) - P(prior)
    OBVIOUS
  <2>4. \A k \in Ahead(query, m) : P(m) - P(prior) <= P(m) - P(k)
    BY <2>2, <2>3
  <2> HIDE DEF P
  <2> QED
    BY <1>1, <1>4, <2>4
<1>7. Ahead(query, m) \subseteq Ahead(query, prior) \cup {prior}
  <2> SUFFICES ASSUME NEW k \in Ahead(query, m), k # prior, k \notin Ahead(query, prior)
               PROVE  FALSE
    OBVIOUS
  <2>1. \A r \in Kept : r \in Nat /\ eventRows[r] \in Nat
    BY RowsAreFinite, SMTT(30) DEF Kept
  <2>2. prior \in Ahead(query, k)
    BY <1>4, <2>1 DEF Ahead, Before
  <2>3. P(prior) < P(k)
    BY <1>4, <2>2, PlacesAreInOrder
  <2> QED
    BY <1>1, <1>4, <1>6, <2>3
<1>8. /\ IsFiniteSet(Ahead(query, prior) \cup {prior})
      /\ Cardinality(Ahead(query, prior) \cup {prior}) <= P(prior) + 1
  <2>1. IsFiniteSet(Ahead(query, prior)) /\ P(prior) = Cardinality(Ahead(query, prior))
    BY RowsAreFinite DEF Place
  <2>2. P(prior) \in Nat
    BY <1>1, <1>4
  <2>3. /\ IsFiniteSet(Ahead(query, prior) \cup {prior})
        /\ Cardinality(Ahead(query, prior) \cup {prior})
              = IF prior \in Ahead(query, prior) THEN Cardinality(Ahead(query, prior))
                ELSE Cardinality(Ahead(query, prior)) + 1
    BY <2>1, FS_AddElement
  <2> HIDE DEF P
  <2> QED
    BY <2>1, <2>2, <2>3
<1>9. P(m) <= Cardinality(Ahead(query, prior) \cup {prior})
  BY <1>7, <1>8, FS_Subset DEF Place
<1> QED
  BY <1>1, <1>3, <1>4, <1>8, <1>9, RowsAreFinite, FS_CardinalityType

(***************************************************************************)
(* Who reads has had every row whose place is before its offset, of those  *)
(* that were there when it began and still are.                            *)
(***************************************************************************)
ReadSoFar ==
    ~purged /\ reader.query # "none" =>
        /\ reader.present \subseteq Kept
        /\ reader.query # "finished" =>
              \A i \in reader.present : Place(reader.query, i) < reader.offset => i \in reader.read

ReaderInv ==
    /\ eventRows \in Seq(Nat)
    /\ reader \in [query : {"none", "ascending", "descending", "finished"}, offset : Nat,
                   read : SUBSET Nat, present : SUBSET Nat]
    /\ ReadSoFar /\ PagesMissNothing

(***************************************************************************)
(* Rows that are inserted move the others down, never up.                  *)
(***************************************************************************)
LEMMA InsertedRowsMoveNoneUp ==
    ASSUME eventRows \in Seq(Nat), InsertEventsBatch
    PROVE  /\ eventRows' \in Seq(Nat) /\ Kept \subseteq Kept'
           /\ \A query : \A i \in Kept : /\ Place(query, i)' \in Nat
                                        /\ Place(query, i) <= Place(query, i)'
<1>1. PICK n \in 1..2 : \E ledgers \in [1..n -> 1..MaxRowLedger] : eventRows' = eventRows \o ledgers
  BY DEF InsertEventsBatch
<1>2. PICK ledgers \in [1..n -> 1..MaxRowLedger] : eventRows' = eventRows \o ledgers
  BY <1>1
<1>3. ledgers \in Seq(Nat)
  BY EventStoreAssumption
<1>4. /\ eventRows' \in Seq(Nat)
      /\ \A i \in DOMAIN eventRows : i \in DOMAIN eventRows' /\ eventRows'[i] = eventRows[i]
  BY <1>2, <1>3
<1>5. Kept \subseteq Kept'
  BY <1>4 DEF Kept
<1>6. ASSUME NEW query, NEW i \in Kept
      PROVE  Place(query, i)' \in Nat /\ Place(query, i) <= Place(query, i)'
  <2>1. Ahead(query, i) \subseteq Ahead(query, i)'
    BY <1>4, <1>5 DEF Ahead, Before, Kept
  <2>2. IsFiniteSet(Ahead(query, i)')
    <3>1. IsFiniteSet(1 .. Len(eventRows'))
      BY <1>4, FS_Interval
    <3>2. Ahead(query, i)' \subseteq 1 .. Len(eventRows')
      BY <1>4 DEF Ahead, Kept
    <3> QED
      BY <3>1, <3>2, FS_Subset
  <2> QED
    BY <2>1, <2>2, FS_Subset, FS_CardinalityType DEF Place
<1> QED
  BY <1>4, <1>5, <1>6

LEMMA ReaderStep == ReaderInv /\ [MigrationsNext \/ RowsNext]_storeVars => ReaderInv'
<1> SUFFICES ASSUME ReaderInv, [MigrationsNext \/ RowsNext]_storeVars PROVE ReaderInv'
  OBVIOUS
<1>1. CASE UNCHANGED <<eventRows, purged, reader>>
  BY <1>1 DEF ReaderInv, ReadSoFar, PagesMissNothing, Kept, Place, Ahead, Before
<1>2. CASE InsertEventsBatch
  <2>1. UNCHANGED <<purged, reader>>
    BY <1>2 DEF InsertEventsBatch
  <2>2. /\ eventRows' \in Seq(Nat) /\ Kept \subseteq Kept'
        /\ \A query : \A i \in Kept : /\ Place(query, i)' \in Nat
                                     /\ Place(query, i) <= Place(query, i)'
    BY <1>2, InsertedRowsMoveNoneUp DEF ReaderInv
  <2>3. \A query : \A i \in Kept : Place(query, i) \in Nat
    BY RowsAreFinite DEF ReaderInv
  <2> QED
    BY <2>1, <2>2, <2>3 DEF ReaderInv, ReadSoFar, PagesMissNothing
<1>3. CASE DeleteEventsFromLedger
  <2>1. eventRows' \in Seq(Nat)
    <3>1. PICK from \in 1..MaxRowLedger :
            eventRows' = [i \in DOMAIN eventRows |->
                            IF eventRows[i] >= from THEN 0 ELSE eventRows[i]]
      BY <1>3 DEF DeleteEventsFromLedger
    <3> QED
      BY <3>1 DEF ReaderInv
  <2> QED
    BY <1>3, <2>1 DEF DeleteEventsFromLedger, ReaderInv, ReadSoFar, PagesMissNothing
<1>4. CASE BeginReading
  <2>1. Kept \subseteq Nat /\ \A query, i : Place(query, i) \in Nat
    BY RowsAreFinite DEF ReaderInv
  <2>2. PICK query \in {"ascending", "descending"} :
           reader' = [query |-> query, offset |-> 0, read |-> {}, present |-> Kept]
    BY <1>4 DEF BeginReading
  <2>3. Kept' = Kept /\ \A i : Place(query, i)' = Place(query, i)
    BY <1>4 DEF BeginReading, Kept, Place, Ahead, Before
  <2>4. ReadSoFar'
    BY <2>1, <2>2, <2>3 DEF ReadSoFar
  <2> QED
    BY <1>4, <2>1, <2>2, <2>4 DEF BeginReading, ReaderInv, PagesMissNothing
<1>5. CASE ReadPage
  <2> DEFINE q == reader.query
             page == Page(q, reader.offset)
  <2>1. /\ q \in {"ascending", "descending"} /\ UNCHANGED <<eventRows, purged>>
        /\ \/ page = {} /\ reader' = [reader EXCEPT !.query = "finished"]
           \/ reader' = [reader EXCEPT !.offset = @ + pageLimit, !.read = @ \cup page]
    BY <1>5 DEF ReadPage
  <2>2. Kept' = Kept /\ \A query, i : Place(query, i)' = Place(query, i)
    BY <2>1 DEF Kept, Place, Ahead, Before
  <2>3. Kept \subseteq Nat /\ \A i : Place(q, i) \in Nat
    BY RowsAreFinite DEF ReaderInv
  <2>4. reader.offset \in Nat /\ pageLimit \in Nat \ {0}
    BY EventStoreAssumption DEF ReaderInv
  <2>5. CASE page = {} /\ reader' = [reader EXCEPT !.query = "finished"]
    <3>1. ASSUME ~purged, NEW i \in reader.present PROVE i \in reader.read
      <4>1. i \in Kept /\ (Place(q, i) < reader.offset => i \in reader.read)
        BY <2>1, <3>1 DEF ReaderInv, ReadSoFar
      <4>2. SUFFICES ASSUME Place(q, i) >= reader.offset PROVE FALSE
        BY <2>3, <2>4, <4>1
      <4>3. PICK m \in Kept : Place(q, m) = reader.offset
        BY <2>4, <4>1, <4>2, PlacesAreTaken DEF ReaderInv
      <4>4. m \in page
        BY <2>4, <4>3 DEF Page
      <4> QED
        BY <2>5, <4>4
    <3>2. /\ reader'.present = reader.present /\ reader'.read = reader.read
          /\ reader'.query = "finished" /\ purged' = purged /\ eventRows' = eventRows
      BY <2>1, <2>5 DEF ReaderInv
    <3>3. ~purged => reader.present \subseteq Kept
      BY <2>1 DEF ReaderInv, ReadSoFar
    <3>4. ReadSoFar' /\ PagesMissNothing'
      BY <2>2, <3>1, <3>2, <3>3 DEF ReadSoFar, PagesMissNothing
    <3> QED
      BY <2>5, <3>2, <3>4 DEF ReaderInv
  <2>6. CASE reader' = [reader EXCEPT !.offset = @ + pageLimit, !.read = @ \cup page]
    <3>1. /\ reader'.present = reader.present /\ reader'.read = reader.read \cup page
          /\ reader'.query = q /\ reader'.offset = reader.offset + pageLimit
          /\ purged' = purged /\ eventRows' = eventRows
      BY <2>1, <2>6 DEF ReaderInv
    <3>2. page \subseteq Nat
      BY <2>3 DEF Page
    <3>3. ASSUME ~purged, NEW i \in reader.present, Place(q, i) < reader.offset + pageLimit
          PROVE  i \in reader.read \cup page
      <4>1. i \in Kept /\ (Place(q, i) < reader.offset => i \in reader.read)
        BY <2>1, <3>3 DEF ReaderInv, ReadSoFar
      <4>2. Place(q, i) >= reader.offset => i \in page
        BY <2>3, <2>4, <3>3, <4>1 DEF Page
      <4> QED
        BY <2>3, <2>4, <4>1, <4>2
    <3>4. ~purged => reader.present \subseteq Kept
      BY <2>1 DEF ReaderInv, ReadSoFar
    <3>5. ReadSoFar' /\ PagesMissNothing'
      BY <2>1, <2>2, <3>1, <3>3, <3>4 DEF ReadSoFar, PagesMissNothing
    <3>6. reader' \in [query : {"none", "ascending", "descending", "finished"}, offset : Nat,
                       read : SUBSET Nat, present : SUBSET Nat]
      <4>1. \A o \in Nat, r \in SUBSET Nat :
               [reader EXCEPT !.offset = o, !.read = r]
                  \in [query : {"none", "ascending", "descending", "finished"}, offset : Nat,
                       read : SUBSET Nat, present : SUBSET Nat]
        BY DEF ReaderInv
      <4>2. reader.offset + pageLimit \in Nat /\ reader.read \cup page \in SUBSET Nat
        BY <2>4, <3>2 DEF ReaderInv
      <4> HIDE DEF page
      <4> QED
        BY <2>6, <4>1, <4>2
    <3> QED
      BY <3>1, <3>5, <3>6 DEF ReaderInv
  <2> QED
    BY <2>1, <2>5, <2>6
<1>6. CASE FinishReading
  BY <1>6 DEF FinishReading, NoReader, ReaderInv, ReadSoFar, PagesMissNothing
<1> QED
  BY <1>1, <1>2, <1>3, <1>4, <1>5, <1>6
     DEF MigrationsNext, Migrate, RollBack, WriteCache, RowsNext, storeVars

LEMMA ReadersMissNothing == RowsSpec => []PagesMissNothing
<1>1. EventStoreInit => ReaderInv
  BY DEF EventStoreInit, NoReader, ReaderInv, ReadSoFar, PagesMissNothing
<1>2. ReaderInv => PagesMissNothing
  BY DEF ReaderInv
<1> QED
  BY <1>1, <1>2, ReaderStep, PTL DEF RowsSpec

LEMMA SeqOfFunction ==
    ASSUME NEW S, NEW n \in Nat, NEW f \in [1 .. n -> S]
    PROVE  f \in Seq(S) /\ Len(f) = n
OBVIOUS

LEMMA ElementsOf ==
    ASSUME NEW S, NEW s \in Seq(S) PROVE ToSet(s) \subseteq S
<1>1. ASSUME NEW x \in ToSet(s) PROVE x \in S
  <2>1. PICK i \in DOMAIN s : x = s[i]
    BY DEF ToSet
  <2>2. i \in 1 .. Len(s)
    BY <2>1, LenProperties
  <2> QED
    BY <2>1, <2>2, ElementOfSeq
<1> QED
  BY <1>1

(***************************************************************************)
(* What the migrations came to is of their files, and what a reader read,  *)
(* and was to read, are rows that were stored.                             *)
(***************************************************************************)
StoreTypes ==
    /\ applied \subseteq MigrationFiles
    /\ outcome \in [applied : SUBSET MigrationFiles, rolledBack : SUBSET MigrationFiles,
                    pending : SUBSET MigrationFiles]
    /\ eventRows \in Seq(0 .. MaxRowLedger) /\ Len(eventRows) <= MaxRows
    /\ purged \in BOOLEAN /\ cached \in 0 .. 2
    /\ reader \in [query : {"none", "ascending", "descending", "finished"}, offset : Nat,
                   read : SUBSET (1 .. Len(eventRows)), present : SUBSET (1 .. Len(eventRows))]

LEMMA StoreTypesStep == StoreTypes /\ [MigrationsNext \/ RowsNext]_storeVars => StoreTypes'
<1> SUFFICES ASSUME StoreTypes, [MigrationsNext \/ RowsNext]_storeVars PROVE StoreTypes'
  OBVIOUS
<1> USE DEF StoreTypes
<1>0. Len(eventRows) \in Nat /\ DOMAIN eventRows = 1 .. Len(eventRows)
  BY LenProperties
<1>1. CASE Migrate
  <2>1. PICK dryRun \in BOOLEAN, done \in 0 .. Cardinality(MigrationFiles \ applied) :
          LET pending == MigrationFiles \ applied
              now1 == IF dryRun THEN {} ELSE Lowest(done, pending)
          IN  /\ applied' = applied \cup now1
              /\ outcome' = [applied |-> now1, rolledBack |-> {}, pending |-> pending]
    BY <1>1 DEF Migrate
  <2> DEFINE pending == MigrationFiles \ applied
             now1 == IF dryRun THEN {} ELSE Lowest(done, pending)
  <2>2. now1 \subseteq MigrationFiles /\ pending \subseteq MigrationFiles
    BY DEF Lowest
  <2>3. applied' = applied \cup now1
        /\ outcome' = [applied |-> now1, rolledBack |-> {}, pending |-> pending]
    BY <2>1
  <2> HIDE DEF pending, now1
  <2> QED
    BY <1>1, <2>2, <2>3 DEF Migrate
<1>2. CASE RollBack
  <2>1. PICK n : /\ applied' = applied \ Highest(n, applied)
                 /\ outcome' = [applied |-> {}, rolledBack |-> Highest(n, applied),
                                pending |-> {}]
                 /\ UNCHANGED <<eventRows, purged, reader, cached>>
    BY <1>2 DEF RollBack
  <2>2. Highest(n, applied) \subseteq MigrationFiles
    BY DEF Highest
  <2> QED
    BY <2>1, <2>2
<1>3. CASE WriteCache
  BY <1>3 DEF WriteCache
<1>4. CASE InsertEventsBatch
  <2>0. PICK n \in 1..2 :
          /\ Len(eventRows) + n <= MaxRows
          /\ \E ledgers \in [1..n -> 1..MaxRowLedger] : eventRows' = eventRows \o ledgers
    BY <1>4 DEF InsertEventsBatch
  <2>1. PICK ledgers \in [1..n -> 1..MaxRowLedger] : eventRows' = eventRows \o ledgers
    BY <2>0
  <2>2. ledgers \in Seq(0 .. MaxRowLedger) /\ Len(ledgers) = n
    BY EventStoreAssumption
  <2>3. eventRows' \in Seq(0 .. MaxRowLedger) /\ Len(eventRows') = Len(eventRows) + n
    BY <1>0, <2>0, <2>1, <2>2, ConcatProperties
  <2>4. 1 .. Len(eventRows) \subseteq 1 .. Len(eventRows')
    BY <1>0, <2>3
  <2>5. reader' = reader /\ UNCHANGED <<applied, outcome, purged, cached>>
    BY <1>4 DEF InsertEventsBatch
  <2>6. reader' \in [query : {"none", "ascending", "descending", "finished"}, offset : Nat,
                     read : SUBSET (1 .. Len(eventRows')),
                     present : SUBSET (1 .. Len(eventRows'))]
    BY <2>4, <2>5
  <2> QED
    BY <2>0, <2>3, <2>5, <2>6
<1>5. CASE DeleteEventsFromLedger
  <2>1. PICK from \in 1..MaxRowLedger :
          eventRows' = [i \in DOMAIN eventRows |->
                          IF eventRows[i] >= from THEN 0 ELSE eventRows[i]]
    BY <1>5 DEF DeleteEventsFromLedger
  <2>2. eventRows' \in [1 .. Len(eventRows) -> 0 .. MaxRowLedger]
    BY <1>0, <2>1, ElementOfSeq, EventStoreAssumption
  <2>3. eventRows' \in Seq(0 .. MaxRowLedger) /\ Len(eventRows') = Len(eventRows)
    <3> DEFINE long == Len(eventRows)
    <3>1. long \in Nat
      BY <1>0
    <3> HIDE DEF long
    <3>2. eventRows' \in [1 .. long -> 0 .. MaxRowLedger]
      BY <2>2 DEF long
    <3>3. eventRows' \in Seq(0 .. MaxRowLedger) /\ Len(eventRows') = long
      BY <3>1, <3>2, SeqOfFunction
    <3> QED
      BY <3>3 DEF long
  <2>4. UNCHANGED <<applied, outcome, reader, cached>>
        /\ purged' = (purged \/ reader.query # "none")
    BY <1>5 DEF DeleteEventsFromLedger
  <2>5. purged' \in BOOLEAN
    BY <2>4
  <2> QED
    BY <2>3, <2>4, <2>5
<1>6. CASE BeginReading
  <2>1. PICK query \in {"ascending", "descending"} :
          reader' = [query |-> query, offset |-> 0, read |-> {}, present |-> Kept]
    BY <1>6 DEF BeginReading
  <2>2. Kept \subseteq 1 .. Len(eventRows)
    BY <1>0 DEF Kept
  <2> QED
    BY <1>6, <2>1, <2>2 DEF BeginReading
<1>7. CASE ReadPage
  <2> DEFINE page == Page(reader.query, reader.offset)
  <2>1. reader' = IF page = {} THEN [reader EXCEPT !.query = "finished"]
                  ELSE [reader EXCEPT !.offset = @ + pageLimit, !.read = @ \cup page]
    BY <1>7 DEF ReadPage
  <2>2. page \subseteq 1 .. Len(eventRows)
    BY <1>0 DEF Page, Kept
  <2> HIDE DEF page
  <2>3. reader.offset + pageLimit \in Nat
    BY EventStoreAssumption
  <2>4. UNCHANGED <<applied, outcome, eventRows, purged, cached>>
    BY <1>7 DEF ReadPage
  <2>5. reader' \in [query : {"none", "ascending", "descending", "finished"}, offset : Nat,
                     read : SUBSET (1 .. Len(eventRows)), present : SUBSET (1 .. Len(eventRows))]
    BY <2>1, <2>2, <2>3
  <2> QED
    BY <2>4, <2>5
<1>8. CASE FinishReading
  BY <1>8 DEF FinishReading, NoReader
<1>9. CASE UNCHANGED storeVars
  BY <1>9 DEF storeVars
<1> QED
  BY <1>1, <1>2, <1>3, <1>4, <1>5, <1>6, <1>7, <1>8, <1>9 DEF MigrationsNext, RowsNext

LEMMA StoreStaysTyped == RowsSpec => []EventStoreTypeOK
<1>1. EventStoreInit => StoreTypes
  <2> SUFFICES ASSUME EventStoreInit PROVE StoreTypes
    OBVIOUS
  <2>1. eventRows \in Seq(0 .. MaxRowLedger) /\ Len(eventRows) = 0
    BY EmptySeq DEF EventStoreInit
  <2>2. purged \in BOOLEAN
    BY DEF EventStoreInit
  <2> QED
    BY <2>1, <2>2, EventStoreAssumption DEF EventStoreInit, StoreTypes, NoReader, NoOutcome
<1>2. StoreTypes => EventStoreTypeOK
  <2> SUFFICES ASSUME StoreTypes PROVE EventStoreTypeOK
    OBVIOUS
  <2>1. DOMAIN eventRows = 1 .. Len(eventRows)
    BY LenProperties DEF StoreTypes
  <2>2. ToSet(eventRows) \subseteq 0 .. MaxRowLedger
    BY ElementsOf DEF StoreTypes
  <2> QED
    BY <2>1, <2>2 DEF StoreTypes, EventStoreTypeOK
<1> QED
  BY <1>1, <1>2, StoreTypesStep, PTL DEF RowsSpec

----------------------------------------------------------------------------
(* The store for Postgres (indexer/src/db-postgres.ts). *)

PostgresSpec == PostgresInit /\ [][PostgresNext]_pgVars

PgCallStates == {"idle", "many", "one", "get", "inserting", "returned", "lost",
                 "threw"}
PgCallRecords ==
    [at : PgCallStates, on : Adapters \cup {NoAdapter}, left : Seq(PgEvents),
     mine : SUBSET PgEvents, counted : Nat]
PgCounts == [c \in PgCalls |-> IF pg[c].at \in Answers THEN pg[c].counted ELSE 0]

(***************************************************************************)
(* What an adapter with its migrations done writes into is there.          *)
(***************************************************************************)
TablesFirst ==
    /\ \A a \in Adapters : initOf[a] = "initialized" => tables
    /\ \A c \in PgCalls : pg[c].at = "inserting" => tables
    /\ pgRows # {} => tables

(***************************************************************************)
(* What a call has still to insert has no key twice and none that it       *)
(* inserted before.                                                        *)
(***************************************************************************)
KeysInOrder(left, mine) ==
    /\ \A i, j \in DOMAIN left : i # j => left[i] # left[j]
    /\ \A i \in DOMAIN left : left[i] \notin mine

(***************************************************************************)
(* An open transaction counted what it inserted and nobody has committed;  *)
(* nothing is counted before.                                              *)
(***************************************************************************)
CallInOrder(call) ==
    /\ KeysInOrder(call.left, call.mine)
    /\ call.at = "one" => call.left # <<>>
    /\ call.at \in {"one", "many", "get"} => call.on \in Adapters
    /\ call.at = "inserting" =>
          call.counted = Cardinality(call.mine) /\ call.mine \cap pgRows = {}
    /\ call.at \notin Answers \cup {"inserting"} => call.counted = 0 /\ call.mine = {}

(***************************************************************************)
(* No key is in two open transactions: the second insert of it waits.      *)
(***************************************************************************)
KeysHeldOnce ==
    \A c, o \in PgCalls : pg[c].at = "inserting" /\ pg[o].at = "inserting" /\ c # o =>
        pg[c].mine \cap pg[o].mine = {}

PgInv ==
    /\ initOf \in [Adapters -> {"none", "connecting", "locking", "initialized"}]
    /\ pg \in [PgCalls -> PgCallRecords] /\ pgRows \subseteq PgEvents
    /\ TablesFirst /\ KeysHeldOnce /\ \A c \in PgCalls : CallInOrder(pg[c])
    /\ SumFunctionOnSet(PgCounts, PgCalls) = Cardinality(pgRows)

LEMMA PostgresStarts == PostgresInit => PgInv
<1> SUFFICES ASSUME PostgresInit PROVE PgInv
  OBVIOUS
<1>1. \A c \in PgCalls : pg[c] = [at |-> "idle", on |-> NoAdapter, left |-> <<>>,
                                  mine |-> {}, counted |-> 0]
  BY DEF PostgresInit, Uncalled
<1>2. pg \in [PgCalls -> PgCallRecords]
  BY DEF PostgresInit, Uncalled, PgCallRecords, PgCallStates
<1>3. TablesFirst /\ KeysHeldOnce /\ \A c \in PgCalls : CallInOrder(pg[c])
  <2>1. KeysInOrder(<<>>, {})
    BY DEF KeysInOrder
  <2>2. \A c \in PgCalls : CallInOrder(pg[c])
    <3>1. \A c \in PgCalls : /\ pg[c].at = "idle" /\ pg[c].left = <<>> /\ pg[c].mine = {}
                             /\ pg[c].counted = 0
      BY <1>1
    <3> QED
      BY <2>1, <3>1 DEF CallInOrder, Answers
  <2> QED
    BY <1>1, <2>2 DEF PostgresInit, TablesFirst, KeysHeldOnce
<1>4. SumFunctionOnSet(PgCounts, PgCalls) = 0
  BY <1>1, PostgresAssumption, SumOfZeros DEF PgCounts, Answers
<1> QED
  BY <1>2, <1>3, <1>4, FS_EmptySet DEF PostgresInit, PgInv

(***************************************************************************)
(* A step of one call keeps the invariant if what it commits is not in an  *)
(* open transaction, and is what it counts.                                *)
(***************************************************************************)
LEMMA CallGoesOn ==
    ASSUME PgInv, NEW c \in PgCalls, NEW new \in PgCallRecords,
           pg' = [pg EXCEPT ![c] = new], CallInOrder(pg[c])', TablesFirst',
           initOf' \in [Adapters -> {"none", "connecting", "locking", "initialized"}],
           pgRows' \subseteq PgEvents, pg[c].at \notin Answers,
           Cardinality(pgRows') = Cardinality(pgRows)
                                    + (IF new.at \in Answers THEN new.counted ELSE 0),
           \A o \in PgCalls \ {c} : pg[o].at = "inserting" =>
              /\ pg[o].mine \cap pgRows' = {}
              /\ new.at = "inserting" => new.mine \cap pg[o].mine = {}
    PROVE  PgInv'
<1>1. /\ pg' \in [PgCalls -> PgCallRecords] /\ pg'[c] = new
      /\ \A o \in PgCalls \ {c} : pg'[o] = pg[o]
  BY DEF PgInv
<1>2. KeysHeldOnce'
  BY <1>1 DEF PgInv, KeysHeldOnce
<1>3. \A o \in PgCalls : CallInOrder(pg[o])'
  BY <1>1 DEF PgInv, CallInOrder, Answers
<1>4. SumFunctionOnSet(PgCounts', PgCalls) = Cardinality(pgRows')
  <2> DEFINE f == PgCounts
             g == PgCounts'
  <2>1. \A o \in PgCalls : pg[o].counted \in Nat
    BY DEF PgInv, PgCallRecords
  <2>2. /\ \A o \in PgCalls : f[o] \in Int
        /\ f[c] = 0 /\ g[c] = IF new.at \in Answers THEN new.counted ELSE 0
        /\ \A o \in PgCalls \ {c} : g[o] = f[o]
    BY <1>1, <2>1 DEF PgCounts, Answers
  <2>3. g[c] \in Int
    BY <2>2 DEF PgCallRecords
  <2>4. SumFunctionOnSet(f, PgCalls) \in Int
    BY <2>2, SumInt, PostgresAssumption
  <2> HIDE DEF f, g
  <2>5. SumFunctionOnSet(g, PgCalls) = SumFunctionOnSet(f, PgCalls) - f[c] + g[c]
    BY <2>2, <2>3, SumChange, PostgresAssumption
  <2>6. SumFunctionOnSet(f, PgCalls) = Cardinality(pgRows)
    BY DEF PgInv, f
  <2>7. SumFunctionOnSet(g, PgCalls) = Cardinality(pgRows')
    BY <2>2, <2>3, <2>4, <2>5, <2>6
  <2> QED
    BY <2>7 DEF g
<1> QED
  BY <1>1, <1>2, <1>3, <1>4 DEF PgInv

LEMMA RowsCounted ==
    ASSUME PgInv PROVE IsFiniteSet(pgRows) /\ Cardinality(pgRows) \in Nat
BY PostgresAssumption, FS_Subset, FS_CardinalityType DEF PgInv

(***************************************************************************)
(* The steps of a call.                                                    *)
(***************************************************************************)
LEMMA MovesKeepInv ==
    ASSUME PgInv, NEW c \in PgCalls, NEW state \in {"threw", "returned", "inserting"},
           pg[c].at \in {"idle", "many", "one", "get"}, Moves(c, state),
           state = "inserting" => tables, UNCHANGED <<tables, initOf, pgRows>>
    PROVE  PgInv'
<1> DEFINE new == [pg[c] EXCEPT !.at = state]
<1>1. pg[c] \in PgCallRecords /\ pg[c].counted = 0 /\ pg[c].mine = {} /\ CallInOrder(pg[c])
  BY DEF PgInv, CallInOrder, Answers
<1>2. /\ \A o \in PgCalls : pg[o].at = "inserting" => pg[o].mine \cap pgRows = {}
      /\ Cardinality(pgRows) \in Nat
  BY RowsCounted DEF PgInv, CallInOrder, Answers
<1>3. /\ new \in PgCallRecords /\ pg' = [pg EXCEPT ![c] = new] /\ new.at = state
      /\ new.counted = 0 /\ new.left = pg[c].left /\ new.mine = {}
  BY <1>1 DEF Moves, PgCallRecords, PgCallStates
<1> HIDE DEF new
<1>4. pg'[c] = new /\ \A o \in PgCalls \ {c} : pg'[o] = pg[o]
  BY <1>3 DEF PgInv
<1>5. CallInOrder(pg[c])'
  BY <1>1, <1>3, <1>4, FS_EmptySet DEF CallInOrder, Answers
<1>6. TablesFirst'
  BY <1>3, <1>4 DEF PgInv, TablesFirst
<1>7. Cardinality(pgRows') = Cardinality(pgRows)
                               + (IF new.at \in Answers THEN new.counted ELSE 0)
  BY <1>2, <1>3
<1> QED
  <2>1. /\ initOf' \in [Adapters -> {"none", "connecting", "locking", "initialized"}]
        /\ pgRows' \subseteq PgEvents /\ pgRows' = pgRows /\ pg[c].at \notin Answers
    BY DEF PgInv, Answers
  <2> QED
    BY <1>2, <1>3, <1>5, <1>6, <1>7, <2>1, CallGoesOn DEF Answers

LEMMA CallIsMade ==
    ASSUME PgInv, NEW c \in PgCalls, NEW a \in Adapters, CallPostgres(c, a) PROVE PgInv'
<1>1. PICK events \in UNION {SetToSeqs(S) : S \in SUBSET PgEvents},
           kind \in {"many", "one", "get"} :
        /\ kind = "one" => Len(events) = 1
        /\ IF kind = "many" /\ events = <<>>
           THEN Moves(c, "returned") /\ UNCHANGED initOf
           ELSE /\ pg' = [pg EXCEPT ![c] = [Uncalled EXCEPT !.at = kind, !.on = a,
                                                            !.left = events]]
                /\ initOf' = [initOf EXCEPT ![a] = IF @ = "none" THEN "connecting" ELSE @]
  BY DEF CallPostgres
<1>2. /\ events \in Seq(PgEvents)
      /\ \A i, j \in DOMAIN events : i # j => events[i] # events[j]
  <2>1. PICK S \in SUBSET PgEvents : events \in SetToSeqs(S)
    BY <1>1
  <2>2. Cardinality(S) \in Nat
    BY PostgresAssumption, FS_Subset, FS_CardinalityType
  <2>3. /\ events \in [1..Cardinality(S) -> S]
        /\ \A i, j \in 1..Cardinality(S) : i # j => events[i] # events[j]
    BY <2>1 DEF SetToSeqs
  <2>4. events \in [1..Cardinality(S) -> PgEvents]
    BY <2>3
  <2>5. events \in Seq(PgEvents)
    BY <2>2, <2>4
  <2> QED
    BY <2>3, <2>5
<1>3. /\ pg[c].at = "idle" /\ pgRows' = pgRows /\ tables' = tables /\ pg[c] \in PgCallRecords
      /\ pg[c].counted = 0 /\ pg[c].mine = {} /\ CallInOrder(pg[c])
  BY DEF CallPostgres, PgInv, CallInOrder, Answers
<1>4. /\ \A o \in PgCalls : pg[o].at = "inserting" => pg[o].mine \cap pgRows = {}
      /\ Cardinality(pgRows) \in Nat
  BY RowsCounted DEF PgInv, CallInOrder, Answers
<1>5. CASE Moves(c, "returned") /\ UNCHANGED initOf
  BY <1>3, <1>5, MovesKeepInv
<1>6. CASE /\ pg' = [pg EXCEPT ![c] = [Uncalled EXCEPT !.at = kind, !.on = a, !.left = events]]
           /\ initOf' = [initOf EXCEPT ![a] = IF @ = "none" THEN "connecting" ELSE @]
  <2> DEFINE new == [Uncalled EXCEPT !.at = kind, !.on = a, !.left = events]
  <2>1. /\ new \in PgCallRecords /\ pg' = [pg EXCEPT ![c] = new] /\ new.at = kind
        /\ new.counted = 0 /\ new.left = events /\ new.mine = {} /\ new.on = a
    BY <1>2, <1>6 DEF Uncalled, PgCallRecords, PgCallStates
  <2> HIDE DEF new
  <2>2. CallInOrder(pg[c])'
    <3>1. pg'[c] = new
      BY <2>1 DEF PgInv
    <3>2. kind = "one" => events # <<>>
      BY <1>1
    <3>3. KeysInOrder(events, {})
      BY <1>2 DEF KeysInOrder
    <3> QED
      BY <1>1, <2>1, <3>1, <3>2, <3>3 DEF CallInOrder, Answers
  <2>3. TablesFirst' /\ initOf' \in [Adapters -> {"none", "connecting", "locking", "initialized"}]
    BY <1>3, <1>6, <2>1 DEF PgInv, TablesFirst
  <2>4. Cardinality(pgRows') = Cardinality(pgRows)
                                 + (IF new.at \in Answers THEN new.counted ELSE 0)
    BY <1>3, <1>4, <2>1
  <2> QED
    BY <1>3, <1>4, <2>1, <2>2, <2>3, <2>4, CallGoesOn DEF PgInv, Answers
<1> QED
  BY <1>1, <1>5, <1>6

(***************************************************************************)
(* An insert of its own: a row that is there is returned.                  *)
(***************************************************************************)
LEMMA InsertKeepsInv == ASSUME PgInv, NEW c \in PgCalls, InsertEvent(c) PROVE PgInv'
<1>a. PICK answer \in Answers :
        pg' = [pg EXCEPT ![c].at = answer,
                         ![c].counted = IF Head(pg[c].left) \in pgRows THEN 0 ELSE 1]
  BY DEF InsertEvent
<1> DEFINE key == Head(pg[c].left)
           new == [pg[c] EXCEPT !.at = answer, !.counted = IF key \in pgRows THEN 0 ELSE 1]
<1>1. pg[c] \in PgCallRecords /\ CallInOrder(pg[c]) /\ pg[c].at = "one"
  BY DEF PgInv, InsertEvent
<1>2. key \in PgEvents
  BY <1>1 DEF CallInOrder, PgCallRecords, Answers
<1> HIDE DEF key
<1>3. /\ new \in PgCallRecords /\ pg' = [pg EXCEPT ![c] = new] /\ new.at = answer
      /\ new.counted = (IF key \in pgRows THEN 0 ELSE 1) /\ new.left = pg[c].left
      /\ new.mine = pg[c].mine
      /\ pgRows' = pgRows \cup {key} /\ initOf' = initOf /\ tables' = tables
  BY <1>1, <1>a DEF InsertEvent, PgCallRecords, PgCallStates, Answers, key
<1> HIDE DEF new
<1>4. pg'[c] = new /\ \A o \in PgCalls \ {c} : pg'[o] = pg[o]
  BY <1>3 DEF PgInv
<1>5. tables
  BY <1>1 DEF InsertEvent, Ready, PgInv, TablesFirst, CallInOrder, Answers
<1>6. CallInOrder(pg[c])'
  BY <1>1, <1>3, <1>4 DEF CallInOrder, Answers
<1>7. TablesFirst'
  BY <1>3, <1>4, <1>5 DEF PgInv, TablesFirst
<1>8. Cardinality(pgRows') = Cardinality(pgRows)
                               + (IF new.at \in Answers THEN new.counted ELSE 0)
  <2>1. IsFiniteSet(pgRows) /\ Cardinality(pgRows) \in Nat
    BY RowsCounted
  <2>2. Cardinality(pgRows \cup {key})
          = IF key \in pgRows THEN Cardinality(pgRows) ELSE Cardinality(pgRows) + 1
    BY <2>1, FS_AddElement
  <2> QED
    BY <1>3, <2>1, <2>2
<1>9. \A o \in PgCalls \ {c} : pg[o].at = "inserting" => pg[o].mine \cap pgRows' = {}
  BY <1>3 DEF InsertEvent, HeldByOthers, PgInv, CallInOrder, key, Answers
<1> QED
  BY <1>1, <1>2, <1>3, <1>6, <1>7, <1>8, <1>9, CallGoesOn DEF PgInv, Answers

(***************************************************************************)
(* A transaction: it inserts a chunk that no other one holds, and commits  *)
(* or rolls back what it inserted.                                         *)
(***************************************************************************)
LEMMA ChunkKeepsInv == ASSUME PgInv, NEW c \in PgCalls, InsertChunk(c) PROVE PgInv'
<1> DEFINE key == Head(pg[c].left)
           mine == IF key \notin pgRows THEN pg[c].mine \cup {key} ELSE pg[c].mine
           counted == IF key \notin pgRows THEN pg[c].counted + 1 ELSE pg[c].counted
           new == [pg[c] EXCEPT !.left = Tail(@), !.mine = mine, !.counted = counted]
<1>1. /\ pg[c] \in PgCallRecords /\ CallInOrder(pg[c]) /\ pg[c].at = "inserting"
      /\ pg[c].left \in Seq(PgEvents) /\ pg[c].left # <<>> /\ pg[c].counted \in Nat
      /\ pg[c].mine \subseteq PgEvents
  BY DEF PgInv, InsertChunk, PgCallRecords
<1>2. /\ key \in PgEvents /\ key = pg[c].left[1] /\ Tail(pg[c].left) \in Seq(PgEvents)
      /\ Len(pg[c].left) \in Nat \ {0} /\ DOMAIN pg[c].left = 1..Len(pg[c].left)
      /\ DOMAIN Tail(pg[c].left) = 1..(Len(pg[c].left) - 1)
      /\ \A i \in DOMAIN Tail(pg[c].left) : Tail(pg[c].left)[i] = pg[c].left[i + 1]
  BY <1>1
<1>3. /\ \A i, j \in DOMAIN Tail(pg[c].left) :
            i # j => Tail(pg[c].left)[i] # Tail(pg[c].left)[j]
      /\ \A i \in DOMAIN Tail(pg[c].left) : Tail(pg[c].left)[i] \notin pg[c].mine \cup {key}
      /\ key \notin pg[c].mine
  <2> DEFINE left == pg[c].left
             rest == Tail(left)
  <2>1. /\ \A i, j \in DOMAIN left : i # j => left[i] # left[j]
        /\ \A i \in DOMAIN left : left[i] \notin pg[c].mine
    BY <1>1 DEF CallInOrder, KeysInOrder, Answers
  <2> HIDE DEF key, left, rest
  <2>2. /\ 1 \in DOMAIN left
        /\ \A i \in DOMAIN rest : i + 1 \in DOMAIN left /\ i + 1 # 1 /\ rest[i] = left[i + 1]
        /\ \A i, j \in DOMAIN rest : i # j => i + 1 # j + 1
    BY <1>2 DEF left, rest
  <2> QED
    BY <1>2, <2>1, <2>2, SMTT(30) DEF left, rest
<1>4. /\ IsFiniteSet(pg[c].mine) /\ pg[c].counted = Cardinality(pg[c].mine)
      /\ pg[c].mine \cap pgRows = {}
  BY <1>1, PostgresAssumption, FS_Subset DEF CallInOrder, Answers
<1> HIDE DEF key
<1>5. /\ mine \subseteq PgEvents /\ counted \in Nat /\ counted = Cardinality(mine)
      /\ mine \cap pgRows = {} /\ mine \subseteq pg[c].mine \cup {key}
  <2>1. Cardinality(pg[c].mine \cup {key}) = Cardinality(pg[c].mine) + 1
    BY <1>3, <1>4, FS_AddElement
  <2> QED
    BY <1>1, <1>2, <1>4, <2>1
<1>6. pg' = [pg EXCEPT ![c] = new] /\ UNCHANGED <<tables, initOf, pgRows>>
  BY DEF InsertChunk, PgInv, PgCallRecords, key
<1> HIDE DEF mine, counted
<1>7. /\ new \in PgCallRecords /\ new.at = "inserting" /\ new.counted = counted
      /\ new.left = Tail(pg[c].left) /\ new.mine = mine
  BY <1>1, <1>2, <1>5 DEF PgCallRecords
<1> HIDE DEF new
<1>8. pg'[c] = new /\ \A o \in PgCalls \ {c} : pg'[o] = pg[o]
  BY <1>6 DEF PgInv
<1>9. CallInOrder(pg[c])'
  <2>1. KeysInOrder(new.left, new.mine)
    BY <1>3, <1>5, <1>7 DEF KeysInOrder
  <2> QED
    BY <1>5, <1>6, <1>7, <1>8, <2>1 DEF CallInOrder, Answers
<1>10. TablesFirst'
  BY <1>1, <1>6, <1>8 DEF PgInv, TablesFirst
<1>11. Cardinality(pgRows') = Cardinality(pgRows)
                                + (IF new.at \in Answers THEN new.counted ELSE 0)
  BY <1>6, <1>7, RowsCounted DEF Answers
<1>12. \A o \in PgCalls \ {c} : pg[o].at = "inserting" =>
          pg[o].mine \cap pgRows' = {} /\ new.mine \cap pg[o].mine = {}
  <2>1. \A o \in PgCalls \ {c} : pg[o].at = "inserting" =>
          /\ key \notin pg[o].mine /\ pg[o].mine \cap pgRows = {}
          /\ pg[c].mine \cap pg[o].mine = {}
    BY <1>1 DEF InsertChunk, HeldByOthers, PgInv, CallInOrder, KeysHeldOnce, key, Answers
  <2> QED
    BY <1>5, <1>6, <1>7, <2>1
<1> QED
  BY <1>1, <1>6, <1>7, <1>9, <1>10, <1>11, <1>12, CallGoesOn DEF PgInv, Answers

LEMMA CommitKeepsInv == ASSUME PgInv, NEW c \in PgCalls, CommitMany(c) PROVE PgInv'
<1>a. PICK answer \in Answers : Moves(c, answer)
  BY DEF CommitMany
<1> DEFINE new == [pg[c] EXCEPT !.at = answer]
<1>1. /\ pg[c] \in PgCallRecords /\ CallInOrder(pg[c]) /\ pg[c].at = "inserting" /\ tables
      /\ pg[c].mine \subseteq PgEvents
  BY DEF PgInv, CommitMany, PgCallRecords, TablesFirst
<1>2. /\ new \in PgCallRecords /\ pg' = [pg EXCEPT ![c] = new] /\ new.at = answer
      /\ new.counted = pg[c].counted /\ new.left = pg[c].left /\ new.mine = pg[c].mine
      /\ pgRows' = pgRows \cup pg[c].mine /\ initOf' = initOf /\ tables' = tables
  BY <1>1, <1>a DEF CommitMany, Moves, PgCallRecords, PgCallStates, Answers
<1> HIDE DEF new
<1>3. pg'[c] = new /\ \A o \in PgCalls \ {c} : pg'[o] = pg[o]
  BY <1>2 DEF PgInv
<1>4. CallInOrder(pg[c])'
  BY <1>1, <1>2, <1>3 DEF CallInOrder, Answers
<1>5. TablesFirst'
  BY <1>1, <1>2, <1>3 DEF PgInv, TablesFirst
<1>6. Cardinality(pgRows') = Cardinality(pgRows)
                               + (IF new.at \in Answers THEN new.counted ELSE 0)
  <2>1. IsFiniteSet(pg[c].mine) /\ IsFiniteSet(pgRows)
    BY <1>1, PostgresAssumption, FS_Subset DEF PgInv
  <2>2. Cardinality(pgRows \cup pg[c].mine) = Cardinality(pgRows) + Cardinality(pg[c].mine)
                                              - Cardinality(pgRows \cap pg[c].mine)
    BY <2>1, FS_Union
  <2>3. pgRows \cap pg[c].mine = {} /\ new.counted = Cardinality(pg[c].mine)
    BY <1>1, <1>2 DEF CallInOrder, Answers
  <2>4. Cardinality(pgRows) \in Nat /\ Cardinality(pg[c].mine) \in Nat
    BY <2>1, FS_CardinalityType
  <2>5. Cardinality(pgRows \cap pg[c].mine) = 0
    BY <2>3, FS_EmptySet
  <2> QED
    BY <1>2, <2>2, <2>3, <2>4, <2>5
<1>7. \A o \in PgCalls \ {c} : pg[o].at = "inserting" => pg[o].mine \cap pgRows' = {}
  BY <1>1, <1>2 DEF PgInv, CallInOrder, KeysHeldOnce, Answers
<1> QED
  BY <1>1, <1>2, <1>4, <1>5, <1>6, <1>7, CallGoesOn DEF PgInv, Answers

LEMMA RollbackKeepsInv == ASSUME PgInv, NEW c \in PgCalls, RollbackMany(c) PROVE PgInv'
<1> DEFINE new == [Uncalled EXCEPT !.at = "threw"]
<1>1. /\ new \in PgCallRecords /\ pg' = [pg EXCEPT ![c] = new] /\ new.at = "threw"
      /\ new.counted = 0 /\ new.left = <<>> /\ new.mine = {}
      /\ UNCHANGED <<tables, initOf, pgRows>> /\ pg[c].at = "inserting"
  <2>1. <<>> \in Seq(PgEvents)
    OBVIOUS
  <2> QED
    BY <2>1 DEF RollbackMany, Uncalled, PgCallRecords, PgCallStates
<1> HIDE DEF new
<1>2. pg'[c] = new /\ \A o \in PgCalls \ {c} : pg'[o] = pg[o]
  BY <1>1 DEF PgInv
<1>3. CallInOrder(pg[c])' /\ TablesFirst'
  <2>1. KeysInOrder(<<>>, {})
    BY DEF KeysInOrder
  <2> QED
    BY <1>1, <1>2, <2>1 DEF PgInv, CallInOrder, TablesFirst, Answers
<1>4. Cardinality(pgRows') = Cardinality(pgRows)
                               + (IF new.at \in Answers THEN new.counted ELSE 0)
  BY <1>1, RowsCounted
<1>5. \A o \in PgCalls \ {c} : pg[o].at = "inserting" => pg[o].mine \cap pgRows' = {}
  BY <1>1 DEF PgInv, CallInOrder, Answers
<1> QED
  BY <1>1, <1>3, <1>4, <1>5, CallGoesOn DEF PgInv, Answers

(***************************************************************************)
(* The migrations: while they wait or run nobody inserts through the       *)
(* adapter, so those they fail have counted nothing.                       *)
(***************************************************************************)
LEMMA MigrationKeepsInv ==
    ASSUME PgInv, NEW a \in Adapters,
           MigrateConnects(a) \/ MigrateLocks(a) \/ MigrateCommits(a) \/ MigrateFails(a)
    PROVE  PgInv'
<1>1. CASE UNCHANGED <<pg, pgRows>>
  <2>1. /\ initOf' \in [Adapters -> {"none", "connecting", "locking", "initialized"}]
        /\ TablesFirst'
    BY <1>1 DEF MigrateConnects, MigrateLocks, MigrateCommits, MigrateFails, PgInv, TablesFirst
  <2> QED
    BY <1>1, <2>1 DEF PgInv, KeysHeldOnce, CallInOrder, PgCounts, Answers
<1>2. CASE MigrateFails(a)
  <2>1. \A c \in PgCalls :
           \/ pg'[c] = pg[c]
           \/ pg[c].at \in {"many", "one", "get"} /\ pg'[c] = [pg[c] EXCEPT !.at = "threw"]
    BY <1>2 DEF MigrateFails
  <2>2. \A c \in PgCalls :
           /\ pg[c] \in PgCallRecords /\ pg'[c] \in PgCallRecords
           /\ pg'[c].mine = pg[c].mine /\ pg'[c].left = pg[c].left
           /\ pg'[c].counted = pg[c].counted /\ pg'[c].on = pg[c].on
           /\ \/ pg'[c].at = pg[c].at
              \/ pg[c].at \in {"many", "one", "get"} /\ pg'[c].at = "threw"
    <3> TAKE c \in PgCalls
    <3>1. pg[c] \in PgCallRecords
      BY DEF PgInv
    <3>2. CASE pg'[c] = pg[c]
      BY <3>1, <3>2
    <3>3. CASE pg[c].at \in {"many", "one", "get"} /\ pg'[c] = [pg[c] EXCEPT !.at = "threw"]
      BY <3>1, <3>3 DEF PgCallRecords, PgCallStates
    <3> QED
      BY <2>1, <3>2, <3>3
  <2>3. pg' \in [PgCalls -> PgCallRecords]
    BY <1>2, <2>2 DEF MigrateFails
  <2>4. initOf' \in [Adapters -> {"none", "connecting", "locking", "initialized"}]
    BY <1>2 DEF MigrateFails, PgInv
  <2>5. TablesFirst' /\ KeysHeldOnce' /\ pgRows' = pgRows
    BY <1>2, <2>2 DEF MigrateFails, PgInv, TablesFirst, KeysHeldOnce
  <2>6. \A c \in PgCalls : CallInOrder(pg[c])'
    BY <1>2, <2>2 DEF MigrateFails, PgInv, CallInOrder, Answers
  <2>7. PgCounts' = PgCounts
    BY <2>2 DEF PgCounts, Answers
  <2> QED
    BY <2>3, <2>4, <2>5, <2>6, <2>7 DEF PgInv
<1> QED
  BY <1>1, <1>2 DEF MigrateConnects, MigrateLocks, MigrateCommits

LEMMA PostgresStep == PgInv /\ [PostgresNext]_pgVars => PgInv'
<1> SUFFICES ASSUME PgInv, [PostgresNext]_pgVars PROVE PgInv'
  OBVIOUS
<1>1. CASE UNCHANGED pgVars
  BY <1>1 DEF pgVars, PgInv, TablesFirst, KeysHeldOnce, CallInOrder, PgCounts, Answers
<1>2. ASSUME NEW c \in PgCalls, QueryThrows(c) \/ GetPgEvents(c) \/ BeginMany(c) PROVE PgInv'
  <2>1. BeginMany(c) => tables
    BY DEF BeginMany, Ready, PgInv, TablesFirst, CallInOrder, Answers
  <2> QED
    BY <1>2, <2>1, MovesKeepInv DEF QueryThrows, GetPgEvents, BeginMany
<1> QED
  BY <1>1, <1>2, CallIsMade, InsertKeepsInv, ChunkKeepsInv, CommitKeepsInv,
     RollbackKeepsInv, MigrationKeepsInv DEF PostgresNext

LEMMA EventsAreCountedOnce == PostgresSpec => []CountedOnce
<1>1. PgInv => CountedOnce
  BY DEF PgInv, TablesFirst, CountedOnce, PgCounts, Answers
<1> QED
  BY <1>1, PostgresStarts, PostgresStep, PTL DEF PostgresSpec

(***************************************************************************)
(* The connections of an adapter stay within its pool: who opens one found *)
(* one free.                                                               *)
(***************************************************************************)
PoolHolds ==
    /\ tables \in BOOLEAN /\ migrator \in Adapters \cup {NoAdapter}
    /\ \A a \in Adapters : Connections(a) <= poolMax

LEMMA FewerConnections ==
    ASSUME PgInv, NEW a, OpenOn(a)' \subseteq OpenOn(a),
           initOf'[a] = "locking" => initOf[a] = "locking", Connections(a) <= poolMax
    PROVE  Connections(a)' <= poolMax
<1>1. IsFiniteSet(OpenOn(a))
  BY PostgresAssumption, FS_Subset DEF OpenOn
<1>2. /\ Cardinality(OpenOn(a)') <= Cardinality(OpenOn(a))
      /\ Cardinality(OpenOn(a)) \in Nat /\ Cardinality(OpenOn(a)') \in Nat
  BY <1>1, FS_Subset, FS_CardinalityType
<1> QED
  BY <1>2, PostgresAssumption DEF Connections

LEMMA OneMoreConnection ==
    ASSUME PgInv, NEW a, Connections(a) < poolMax,
           \/ (\E c : OpenOn(a)' = OpenOn(a) \cup {c}) /\ initOf'[a] = initOf[a]
           \/ OpenOn(a)' = OpenOn(a)
    PROVE  Connections(a)' <= poolMax
<1>1. IsFiniteSet(OpenOn(a)) /\ Cardinality(OpenOn(a)) \in Nat
  BY PostgresAssumption, FS_Subset, FS_CardinalityType DEF OpenOn
<1>2. CASE OpenOn(a)' = OpenOn(a)
  BY <1>1, <1>2, PostgresAssumption DEF Connections
<1>3. ASSUME NEW c, OpenOn(a)' = OpenOn(a) \cup {c}, initOf'[a] = initOf[a]
      PROVE  Connections(a)' <= poolMax
  <2>1. /\ Cardinality(OpenOn(a)') <= Cardinality(OpenOn(a)) + 1
        /\ Cardinality(OpenOn(a)') \in Nat
    <3>1. Cardinality(OpenOn(a)') = IF c \in OpenOn(a) THEN Cardinality(OpenOn(a))
                                    ELSE Cardinality(OpenOn(a)) + 1
      BY <1>1, <1>3, FS_AddElement
    <3> QED
      BY <1>1, <3>1
  <2> QED
    BY <1>1, <1>3, <2>1, PostgresAssumption DEF Connections
<1> QED
  BY <1>2, <1>3

LEMMA PoolStep == PgInv /\ PoolHolds /\ [PostgresNext]_pgVars => PoolHolds'
<1> SUFFICES ASSUME PgInv, PoolHolds, [PostgresNext]_pgVars PROVE PoolHolds'
  OBVIOUS
<1> USE DEF PoolHolds
<1>0. /\ pg \in [PgCalls -> PgCallRecords]
      /\ initOf \in [Adapters -> {"none", "connecting", "locking", "initialized"}]
  BY DEF PgInv
\* A call that ends or is made opens no connection.
<1>1. ASSUME NEW c \in PgCalls, NEW new \in PgCallRecords, pg' = [pg EXCEPT ![c] = new],
             new.at = "inserting" => pg[c].at = "inserting" /\ new.on = pg[c].on,
             UNCHANGED <<tables, migrator>>,
             \A a \in Adapters : initOf'[a] = "locking" => initOf[a] = "locking"
      PROVE  PoolHolds'
  <2>1. \A a \in Adapters : OpenOn(a)' \subseteq OpenOn(a)
    BY <1>0, <1>1 DEF OpenOn
  <2> QED
    BY <1>1, <2>1, FewerConnections
<1>2. ASSUME NEW c \in PgCalls, NEW state \in {"threw", "returned", "lost"}, Moves(c, state),
             UNCHANGED <<tables, migrator>>,
             \A a \in Adapters : initOf'[a] = "locking" => initOf[a] = "locking"
      PROVE  PoolHolds'
  <2> DEFINE new == [pg[c] EXCEPT !.at = state]
  <2>1. new \in PgCallRecords /\ new.at = state
    BY <1>0 DEF PgCallRecords, PgCallStates
  <2>2. pg' = [pg EXCEPT ![c] = new]
    BY <1>2 DEF Moves
  <2> HIDE DEF new
  <2> QED
    BY <1>1, <1>2, <2>1, <2>2
<1>3. ASSUME NEW c \in PgCalls, NEW a \in Adapters, CallPostgres(c, a) PROVE PoolHolds'
  <2>1. PICK events \in UNION {SetToSeqs(S) : S \in SUBSET PgEvents},
             state \in {"many", "one", "get"} :
          IF state = "many" /\ events = <<>>
          THEN Moves(c, "returned") /\ UNCHANGED initOf
          ELSE /\ pg' = [pg EXCEPT ![c] =
                           [Uncalled EXCEPT !.at = state, !.on = a, !.left = events]]
               /\ initOf' = [initOf EXCEPT ![a] = IF @ = "none" THEN "connecting" ELSE @]
    BY <1>3 DEF CallPostgres
  <2>2. UNCHANGED <<tables, migrator>>
    BY <1>3 DEF CallPostgres
  <2>3. CASE Moves(c, "returned") /\ UNCHANGED initOf
    BY <1>2, <2>2, <2>3
  <2>4. CASE /\ pg' = [pg EXCEPT ![c] =
                         [Uncalled EXCEPT !.at = state, !.on = a, !.left = events]]
             /\ initOf' = [initOf EXCEPT ![a] = IF @ = "none" THEN "connecting" ELSE @]
    <3> DEFINE new == [Uncalled EXCEPT !.at = state, !.on = a, !.left = events]
    <3>1. new.at = state
      BY DEF Uncalled
    <3>2. \A o \in PgCalls : o # c => pg'[o] = pg[o]
      BY <1>0, <2>4
    <3>3. pg'[c].at = state
      BY <1>0, <2>4, <3>1
    <3>4. \A b \in Adapters : OpenOn(b)' \subseteq OpenOn(b)
      BY <3>2, <3>3 DEF OpenOn
    <3>5. \A b \in Adapters : initOf'[b] = "locking" => initOf[b] = "locking"
      BY <1>0, <2>4
    <3> QED
      BY <2>2, <3>4, <3>5, FewerConnections
  <2> QED
    BY <2>1, <2>3, <2>4, SMTT(30)
<1>4. ASSUME NEW c \in PgCalls, InsertEvent(c) PROVE PoolHolds'
  <2> DEFINE count == IF Head(pg[c].left) \in pgRows THEN 0 ELSE 1
  <2>0. PICK answer \in Answers : pg' = [pg EXCEPT ![c].at = answer, ![c].counted = count]
    BY <1>4 DEF InsertEvent
  <2> DEFINE new == [pg[c] EXCEPT !.at = answer, !.counted = count]
  <2>1. pg' = [pg EXCEPT ![c] = new] /\ UNCHANGED <<tables, migrator, initOf>>
    BY <1>0, <1>4, <2>0 DEF InsertEvent
  <2>2. count \in Nat
    OBVIOUS
  <2> HIDE DEF count
  <2>3. new \in PgCallRecords /\ new.at \in Answers
    BY <1>0, <2>2 DEF PgCallRecords, PgCallStates, Answers
  <2> HIDE DEF new
  <2> QED
    BY <1>1, <2>1, <2>3 DEF Answers
<1>5. ASSUME NEW c \in PgCalls, BeginMany(c) PROVE PoolHolds'
  <2>1. /\ pg[c].at = "many" /\ Connections(pg[c].on) < poolMax
        /\ pg' = [pg EXCEPT ![c].at = "inserting"]
        /\ UNCHANGED <<tables, migrator, initOf>>
    BY <1>5 DEF BeginMany, Moves
  <2>2. OpenOn(pg[c].on)' = OpenOn(pg[c].on) \cup {c}
    BY <1>0, <2>1 DEF OpenOn, PgCallRecords
  <2>3. \A a \in Adapters : a # pg[c].on => OpenOn(a)' = OpenOn(a)
    BY <1>0, <2>1 DEF OpenOn, PgCallRecords
  <2>4. \A a \in Adapters : a = pg[c].on => Connections(a)' <= poolMax
    BY <2>1, <2>2, OneMoreConnection
  <2>5. \A a \in Adapters : a # pg[c].on => Connections(a)' <= poolMax
    BY <2>1, <2>3, FewerConnections
  <2> QED
    BY <2>1, <2>4, <2>5
<1>6. ASSUME NEW c \in PgCalls, InsertChunk(c) PROVE PoolHolds'
  <2>1. /\ \A o \in PgCalls : pg'[o].at = pg[o].at /\ pg'[o].on = pg[o].on
        /\ UNCHANGED <<tables, migrator, initOf>>
    BY <1>0, <1>6 DEF InsertChunk, PgCallRecords
  <2>2. \A a \in Adapters : OpenOn(a)' = OpenOn(a)
    BY <2>1 DEF OpenOn
  <2> QED
    BY <2>1, <2>2, FewerConnections
<1>7. ASSUME NEW c \in PgCalls, CommitMany(c) PROVE PoolHolds'
  BY <1>2, <1>7 DEF CommitMany, Answers
<1>8. ASSUME NEW c \in PgCalls, RollbackMany(c) PROVE PoolHolds'
  <2> DEFINE new == [Uncalled EXCEPT !.at = "threw"]
  <2>1. pg' = [pg EXCEPT ![c] = new] /\ UNCHANGED <<tables, migrator, initOf>>
    BY <1>8 DEF RollbackMany
  <2>2. <<>> \in Seq(PgEvents)
    OBVIOUS
  <2>3. new \in PgCallRecords /\ new.at = "threw"
    BY <2>2 DEF Uncalled, PgCallRecords, PgCallStates
  <2> HIDE DEF new
  <2> QED
    BY <1>1, <2>1, <2>3
<1>9. ASSUME NEW c \in PgCalls, GetPgEvents(c) \/ QueryThrows(c) PROVE PoolHolds'
  BY <1>2, <1>9 DEF GetPgEvents, QueryThrows
<1>10. ASSUME NEW a \in Adapters, MigrateConnects(a) PROVE PoolHolds'
  <2>1. \A b \in Adapters : OpenOn(b)' = OpenOn(b)
    BY <1>10 DEF MigrateConnects, OpenOn
  <2>2. \A b \in Adapters : b # a => initOf'[b] = initOf[b]
    BY <1>0, <1>10 DEF MigrateConnects
  <2>3. Connections(a)' <= poolMax
    BY <1>10, <2>1, OneMoreConnection DEF MigrateConnects
  <2>4. \A b \in Adapters : b # a => Connections(b)' <= poolMax
    BY <2>1, <2>2, FewerConnections
  <2> QED
    BY <1>10, <2>3, <2>4 DEF MigrateConnects
<1>11. ASSUME NEW a \in Adapters, MigrateLocks(a) \/ MigrateCommits(a) \/ MigrateFails(a)
       PROVE  PoolHolds'
  <2>1. /\ \A b \in Adapters : initOf'[b] = "locking" => initOf[b] = "locking"
        /\ tables' \in BOOLEAN /\ migrator' \in Adapters \cup {NoAdapter}
    BY <1>0, <1>11 DEF MigrateLocks, MigrateCommits, MigrateFails
  <2>2. \A c \in PgCalls : pg'[c].at = "inserting" => pg[c].at = "inserting" /\ pg'[c] = pg[c]
    BY <1>0, <1>11 DEF MigrateLocks, MigrateCommits, MigrateFails, PgCallRecords
  <2>3. \A b \in Adapters : OpenOn(b)' \subseteq OpenOn(b)
    BY <2>2 DEF OpenOn
  <2> QED
    BY <2>1, <2>3, FewerConnections
<1>12. CASE UNCHANGED pgVars
  BY <1>12 DEF pgVars, Connections, OpenOn
<1> QED
  BY <1>3, <1>4, <1>5, <1>6, <1>7, <1>8, <1>9, <1>10, <1>11, <1>12 DEF PostgresNext

(***************************************************************************)
(* No call counts more events than there are.                              *)
(***************************************************************************)
CountsInBounds == \A c \in PgCalls : pg[c].counted <= Cardinality(PgEvents)

LEMMA CountsStep ==
    PgInv /\ PgInv' /\ CountsInBounds /\ [PostgresNext]_pgVars => CountsInBounds'
<1> SUFFICES ASSUME PgInv, PgInv', CountsInBounds, [PostgresNext]_pgVars
             PROVE  CountsInBounds'
  OBVIOUS
<1> USE DEF CountsInBounds
<1>0. /\ pg \in [PgCalls -> PgCallRecords] /\ pg' \in [PgCalls -> PgCallRecords]
      /\ Cardinality(PgEvents) \in Nat
  BY PostgresAssumption, FS_CardinalityType DEF PgInv
<1>1. ASSUME NEW c \in PgCalls, pg'[c].at = "inserting"
      PROVE  pg'[c].counted <= Cardinality(PgEvents)
  <2>1. pg'[c].counted = Cardinality(pg'[c].mine) /\ pg'[c].mine \subseteq PgEvents
    BY <1>0, <1>1 DEF PgInv, CallInOrder, PgCallRecords, Answers
  <2> QED
    BY <2>1, PostgresAssumption, FS_Subset
<1>2. ASSUME NEW c \in PgCalls, pg'[c].at \notin Answers \cup {"inserting"}
      PROVE  pg'[c].counted <= Cardinality(PgEvents)
  BY <1>0, <1>2 DEF PgInv, CallInOrder, Answers
<1>3. ASSUME NEW c \in PgCalls, InsertEvent(c) PROVE CountsInBounds'
  <2>1. Head(pg[c].left) \in PgEvents
    BY <1>0, <1>3 DEF InsertEvent, PgInv, CallInOrder, PgCallRecords, Answers
  <2>2. Cardinality(PgEvents) >= 1
    BY <1>0, <2>1, PostgresAssumption, FS_EmptySet
  <2>3. pg'[c].counted \in {0, 1} /\ \A o \in PgCalls \ {c} : pg'[o] = pg[o]
    BY <1>0, <1>3 DEF InsertEvent
  <2> QED
    BY <1>0, <2>2, <2>3
<1>4. ASSUME \A c \in PgCalls : pg'[c].at \in Answers => pg'[c].counted = pg[c].counted
      PROVE  CountsInBounds'
  BY <1>1, <1>2, <1>4
<1>5. ASSUME NEW c \in PgCalls, NEW state, Moves(c, state) PROVE CountsInBounds'
  <2>1. \A o \in PgCalls : pg'[o].counted = pg[o].counted
    BY <1>0, <1>5 DEF Moves, PgCallRecords
  <2> QED
    BY <2>1
<1>6. ASSUME NEW c \in PgCalls, NEW a \in Adapters, CallPostgres(c, a) PROVE CountsInBounds'
  <2>1. PICK events \in UNION {SetToSeqs(S) : S \in SUBSET PgEvents},
             state \in {"many", "one", "get"} :
          \/ Moves(c, "returned")
          \/ pg' = [pg EXCEPT ![c] = [Uncalled EXCEPT !.at = state, !.on = a, !.left = events]]
    BY <1>6 DEF CallPostgres
  <2>2. CASE pg' = [pg EXCEPT ![c] = [Uncalled EXCEPT !.at = state, !.on = a, !.left = events]]
    <3>1. pg'[c].counted = 0 /\ \A o \in PgCalls \ {c} : pg'[o] = pg[o]
      BY <1>0, <2>2 DEF Uncalled
    <3> QED
      BY <1>0, <3>1
  <2> QED
    BY <1>5, <2>1, <2>2, SMTT(30)
<1>7. ASSUME NEW c \in PgCalls,
             BeginMany(c) \/ CommitMany(c) \/ GetPgEvents(c) \/ QueryThrows(c)
      PROVE  CountsInBounds'
  BY <1>5, <1>7 DEF BeginMany, CommitMany, GetPgEvents, QueryThrows
<1>8. ASSUME NEW c \in PgCalls, InsertChunk(c) PROVE CountsInBounds'
  <2>1. pg'[c].at = "inserting" /\ \A o \in PgCalls \ {c} : pg'[o] = pg[o]
    BY <1>0, <1>8 DEF InsertChunk, PgCallRecords
  <2> QED
    BY <1>4, <2>1 DEF Answers
<1>9. ASSUME NEW c \in PgCalls, RollbackMany(c) PROVE CountsInBounds'
  <2>1. pg'[c].at = "threw" /\ \A o \in PgCalls \ {c} : pg'[o] = pg[o]
    BY <1>0, <1>9 DEF RollbackMany, Uncalled
  <2> QED
    BY <1>4, <2>1 DEF Answers
<1>10. ASSUME NEW a \in Adapters,
              MigrateConnects(a) \/ MigrateLocks(a) \/ MigrateCommits(a) \/ MigrateFails(a)
       PROVE  CountsInBounds'
  <2>1. \A c \in PgCalls : pg'[c].counted = pg[c].counted
    BY <1>0, <1>10 DEF MigrateConnects, MigrateLocks, MigrateCommits, MigrateFails, PgCallRecords
  <2> QED
    BY <2>1
<1>11. CASE UNCHANGED pgVars
  BY <1>11 DEF pgVars
<1> QED
  BY <1>3, <1>6, <1>7, <1>8, <1>9, <1>10, <1>11 DEF PostgresNext

LEMMA PostgresStaysTyped == PostgresSpec => []PostgresTypeOK
<1>1. PostgresInit => PoolHolds /\ CountsInBounds
  <2> SUFFICES ASSUME PostgresInit PROVE PoolHolds /\ CountsInBounds
    OBVIOUS
  <2>1. \A a \in Adapters : OpenOn(a) = {}
    BY DEF PostgresInit, OpenOn, Uncalled
  <2>2. \A a \in Adapters : Connections(a) = 0
    BY <2>1, FS_EmptySet DEF PostgresInit, Connections
  <2>3. Cardinality(PgEvents) \in Nat
    BY PostgresAssumption, FS_CardinalityType
  <2>4. \A c \in PgCalls : pg[c].counted = 0
    BY DEF PostgresInit, Uncalled
  <2>5. CountsInBounds
    BY <2>3, <2>4 DEF CountsInBounds
  <2>6. \A a \in Adapters : Connections(a) <= poolMax
    BY <2>2, PostgresAssumption
  <2>7. PoolHolds
    BY <2>6 DEF PostgresInit, PoolHolds
  <2> QED
    BY <2>5, <2>7
<1>2. PgInv /\ PoolHolds /\ CountsInBounds => PostgresTypeOK
  BY DEF PgInv, PoolHolds, CountsInBounds, PostgresTypeOK, PgCallRecords
<1> QED
  BY <1>1, <1>2, PostgresStarts, PostgresStep, PoolStep, CountsStep, PTL DEF PostgresSpec

----------------------------------------------------------------------------
(* The webhooks of the indexer (webhooks.ts). *)

WebhookSpec == WebhookInit /\ [][WebhookNext]_webhookVars

(***************************************************************************)
(* While an attempt is under way or waited for, there is one left to make. *)
(***************************************************************************)
WebhookInv ==
    /\ WebhookTypeOK
    /\ hookAt \in {"idle", "fetching", "sleeping"} => attempt < MAX_ATTEMPTS
    /\ dispatch = "ok" => received > 0 /\ hookAt = "returned"

LEMMA WebhookStep == WebhookInv /\ [WebhookNext]_webhookVars => WebhookInv'
<1> SUFFICES ASSUME WebhookInv, [WebhookNext]_webhookVars PROVE WebhookInv'
  OBVIOUS
<1> USE WebhookAssumption DEF WebhookInv, WebhookTypeOK
<1>1. CASE Notify
  BY <1>1 DEF Notify, Returns
<1>2. CASE WebhookAnswered
  <2>1. PICK status \in {2, 3, 4, 5} :
           /\ lastStatus' = status
           /\ received' = IF status = 2 THEN received + 1 ELSE received
           /\ \/ status = 2 /\ Returns("ok")
              \/ status # 2 /\ Returns("failed")
              \/ status # 2 /\ AfterFailure
    BY <1>2 DEF WebhookAnswered, ShouldRetry
  <2>2. attempt' = attempt + 1 /\ attempt < MAX_ATTEMPTS /\ config' = config
    BY <1>2 DEF WebhookAnswered
  <2>3. /\ received' \in 0..attempt' /\ (status = 2 => received' > 0)
        /\ attempt' \in 0..MAX_ATTEMPTS
    BY <2>1, <2>2
  <2>4. hookAt' \in {"fetching", "sleeping"} => attempt' < MAX_ATTEMPTS
    BY <2>1, <2>2 DEF AfterFailure, Returns
  <2>5. /\ hookAt' \in {"fetching", "sleeping", "returned"}
        /\ \/ dispatch' \in {dispatch, "failed"} \/ (status = 2 /\ dispatch' = "ok")
        /\ dispatch' = "ok" => hookAt' = "returned" /\ status = 2
    BY <1>2, <2>1, <2>2 DEF WebhookAnswered, AfterFailure, Returns
  <2> QED
    BY <2>1, <2>2, <2>3, <2>4, <2>5
<1>3. CASE WebhookUnanswered
  BY <1>3 DEF WebhookUnanswered, AfterFailure, Returns
<1>4. CASE WakesUp \/ UNCHANGED webhookVars
  BY <1>4 DEF WakesUp, webhookVars
<1> QED
  BY <1>1, <1>2, <1>3, <1>4 DEF WebhookNext

LEMMA WebhookStaysTyped == WebhookSpec => []WebhookTypeOK
<1>1. ASSUME NEW metadata \in {"none", "noSecret", "complete"}, WebhookStart(metadata)
      PROVE  WebhookInv
  BY <1>1, WebhookAssumption DEF WebhookStart, WebhookInv, WebhookTypeOK
<1>2. WebhookInv => WebhookTypeOK
  BY DEF WebhookInv
<1>3. WebhookInit => WebhookInv
  BY <1>1 DEF WebhookInit
<1> QED
  BY <1>3, <1>2, WebhookStep, PTL DEF WebhookSpec

----------------------------------------------------------------------------
(* The reputation of the agents (reputation.ts). *)

ReputationSpec == ReputationInit /\ [][ReputationNext]_reputationVars

JobEvents == [agentId : RatedAgents, type : JobEventTypes]
Ranks == {rank \in Nat \X Nat : rank[1] <= rank[2]}
Scores == 0 .. 100000
Computations == [at : {"rank", "save", "saveAll"}, left : SUBSET RatedAgents,
                 log : Seq(JobEvents), score : Scores, rank : Ranks]

ReputationInv ==
    /\ jobLog \in Seq(JobEvents) /\ Len(jobLog) <= MaxJobEvents
    /\ computing \subseteq Computations
    /\ saved \in [RatedAgents -> [score : {-1} \cup Scores, rank : Ranks]]

LEMMA ProductIsNat == ASSUME NEW a \in Nat, NEW b \in Nat PROVE a * b \in Nat
BY SMT

LEMMA AverageIsNumber ==
    ASSUME NEW sum \in Nat, NEW n \in Nat
    PROVE  (PRIOR_WEIGHT * PRIOR_MEAN + sum) \div (PRIOR_WEIGHT + n) \in Int
<1>1. PRIOR_WEIGHT * PRIOR_MEAN + sum \in Nat
  BY SMT DEF PRIOR_WEIGHT, PRIOR_MEAN
<1>2. PRIOR_WEIGHT + n \in Nat /\ PRIOR_WEIGHT + n > 0
  BY SMT DEF PRIOR_WEIGHT
<1> QED
  BY <1>1, <1>2, SMT

LEMMA Clamped ==
    ASSUME NEW v \in Int, NEW low \in Int, NEW high \in Int, low <= high
    PROVE  Clamp(v, low, high) \in low .. high
BY SMT DEF Clamp

LEMMA ClampedIsScore == ASSUME NEW v \in Int PROVE Clamp(v, 0, 100000) \in Scores
<1> DEFINE top == 100000
<1>1. top \in Int /\ 0 \in Int /\ 0 <= top
  BY SMT
<1>2. Scores = 0 .. top
  BY DEF Scores
<1> HIDE DEF top
<1>3. Clamp(v, 0, top) \in Scores
  BY <1>1, <1>2, Clamped
<1> QED
  BY <1>3 DEF top

LEMMA ZeroIsScore == 0 \in Scores
BY SMT DEF Scores

LEMMA ScoresAreNumbers == Scores \subseteq Int
BY SMT DEF Scores

(***************************************************************************)
(* Whatever the events, a score is between 0 and 100.                      *)
(***************************************************************************)
LEMMA ScoresAreBounded ==
    ASSUME NEW agent, NEW log \in Seq(JobEvents)
    PROVE  ScoreFromMetrics(agent, log) \in Scores
<1> DEFINE metrics == AggregateMetrics(agent, log)
<1>1. DOMAIN log = 1 .. Len(log) /\ Len(log) \in Nat /\ IsFiniteSet(1 .. Len(log))
  BY LenProperties, FS_Interval
<1>2. \A type \in JobEventTypes : metrics[type] \in Nat
  <2> SUFFICES ASSUME NEW type \in JobEventTypes PROVE metrics[type] \in Nat
    OBVIOUS
  <2> DEFINE These == {i \in DOMAIN log : log[i].agentId = agent /\ log[i].type = type}
  <2>1. IsFiniteSet(These)
    BY <1>1, FS_Subset
  <2>2. metrics[type] = Cardinality(These)
    BY DEF AggregateMetrics
  <2> QED
    BY <2>1, <2>2, FS_CardinalityType
<1> HIDE DEF metrics
<1>3. /\ metrics["fast"] \in Nat /\ metrics["slow"] \in Nat /\ metrics["onTime"] \in Nat
      /\ metrics["unknown"] \in Nat /\ metrics["JobDisputed"] \in Nat
      /\ metrics["JobCancelled"] \in Nat
  BY <1>2 DEF JobEventTypes, Completions
<1>4. BayesianAverage(metrics) \in Scores
  <2> DEFINE usual == metrics["onTime"] + metrics["unknown"]
             n == metrics["fast"] + metrics["slow"] + usual
             x == metrics["fast"] * RatingForCompletion("fast")
             y == metrics["slow"] * RatingForCompletion("slow")
             z == usual * PRIOR_MEAN
             sum == x + y + z
             average == (PRIOR_WEIGHT * PRIOR_MEAN + sum) \div (PRIOR_WEIGHT + n)
  <2>1. RatingForCompletion("fast") \in Nat /\ RatingForCompletion("slow") \in Nat
        /\ PRIOR_MEAN \in Nat
    BY SMT DEF RatingForCompletion, PRIOR_MEAN
  <2>2. usual \in Nat /\ n \in Nat
    <3>1. metrics["fast"] + metrics["slow"] \in Nat /\ usual \in Nat
      BY <1>3, SMTT(30)
    <3> HIDE DEF usual
    <3> QED
      BY <3>1, SMT
  <2>3. x \in Nat /\ y \in Nat
    BY <1>3, <2>1, ProductIsNat
  <2>4. BayesianAverage(metrics) = Clamp(average, 0, 100000)
    BY SMT DEF BayesianAverage
  <2> HIDE DEF average, n, x, y, usual
  <2>5. z \in Nat
    BY <2>1, <2>2, ProductIsNat
  <2> HIDE DEF z
  <2>6. sum \in Nat
    BY <2>3, <2>5, SMT
  <2> HIDE DEF sum
  <2>7. average \in Int
    BY <2>2, <2>6, AverageIsNumber DEF average
  <2> QED
    BY <2>4, <2>7, ClampedIsScore, SMT
<1>5. ComputePenalty(metrics) \in Scores
  <2> DEFINE d == metrics["JobDisputed"]
             c == metrics["JobCancelled"]
             penalty == d * DISPUTE_PENALTY + c * CANCELLATION_PENALTY
  <2>1. ComputePenalty(metrics) = Clamp(penalty, 0, 100000)
    BY SMT DEF ComputePenalty, MAX_PENALTY
  <2>2. d \in Nat /\ c \in Nat
    BY <1>3
  <2> HIDE DEF d, c
  <2>3. penalty \in Int
    BY <2>2, SMT DEF DISPUTE_PENALTY, CANCELLATION_PENALTY
  <2> HIDE DEF penalty
  <2> QED
    BY <2>1, <2>3, ClampedIsScore, SMT
<1> DEFINE score == BayesianAverage(metrics) - ComputePenalty(metrics)
<1>6. ScoreFromMetrics(agent, log) = Clamp(score, 0, 100000)
  BY SMT DEF ScoreFromMetrics, metrics
<1>7. score \in Int
  <2>1. BayesianAverage(metrics) \in Int /\ ComputePenalty(metrics) \in Int
    BY <1>4, <1>5, ScoresAreNumbers
  <2> QED
    BY <2>1, SMT
<1> HIDE DEF score
<1> QED
  BY <1>6, <1>7, ClampedIsScore, SMT

(***************************************************************************)
(* As many agents as are counted below one are there.                      *)
(***************************************************************************)
LEMMA RanksAreBounded ==
    ASSUME NEW score, NEW ranked, IsFiniteSet(ranked), NEW log
    PROVE  PercentileRank(score, ranked, log) \in Ranks
<1> DEFINE below == {a \in ranked : ScoreFromMetrics(a, log) < score}
<1>1. IsFiniteSet(below) /\ Cardinality(below) <= Cardinality(ranked)
  BY FS_Subset
<1>2. Cardinality(below) \in Nat /\ Cardinality(ranked) \in Nat
  BY <1>1, FS_CardinalityType
<1>3. PercentileRank(score, ranked, log) = <<Cardinality(below), Cardinality(ranked)>>
  BY DEF PercentileRank
<1> HIDE DEF below
<1> QED
  BY <1>1, <1>2, <1>3 DEF Ranks

LEMMA AgentsOfLog ==
    ASSUME NEW log \in Seq(JobEvents)
    PROVE  AgentsOf(log) \subseteq RatedAgents /\ IsFiniteSet(AgentsOf(log))
<1>1. /\ DOMAIN log = 1 .. Len(log) /\ Len(log) \in Nat /\ IsFiniteSet(1 .. Len(log))
      /\ \A i \in 1 .. Len(log) : log[i] \in JobEvents
  BY LenProperties, ElementOfSeq, FS_Interval
<1>2. AgentsOf(log) = {log[i].agentId : i \in 1 .. Len(log)}
  BY <1>1 DEF AgentsOf, ToSet
<1>3. IsFiniteSet({log[i].agentId : i \in 1 .. Len(log)})
  <2> DEFINE ranked == {log[i].agentId : i \in 1 .. Len(log)}
             f == [i \in 1 .. Len(log) |-> log[i].agentId]
  <2>1. f \in Surjection(1 .. Len(log), ranked)
    BY DEF Surjection
  <2> QED
    BY <1>1, <2>1, FS_Surjection
<1> QED
  BY <1>1, <1>2, <1>3 DEF JobEvents

LEMMA ReputationStep == ReputationInv /\ [ReputationNext]_reputationVars => ReputationInv'
<1> SUFFICES ASSUME ReputationInv, [ReputationNext]_reputationVars PROVE ReputationInv'
  OBVIOUS
<1>z. <<0, 0>> \in Ranks
  BY DEF Ranks
<1>1. CASE JobEventHappens
  <2>1. PICK a \in RatedAgents, type \in JobEventTypes :
           jobLog' = Append(jobLog, [agentId |-> a, type |-> type])
    BY <1>1 DEF JobEventHappens
  <2>2. [agentId |-> a, type |-> type] \in JobEvents
    BY DEF JobEvents
  <2>3. jobLog' \in Seq(JobEvents) /\ Len(jobLog') = Len(jobLog) + 1
    BY <2>1, <2>2, AppendProperties DEF ReputationInv
  <2>4. Len(jobLog) \in Nat /\ Len(jobLog) < MaxJobEvents /\ MaxJobEvents \in Nat
    BY <1>1, ReputationAssumption, LenProperties DEF JobEventHappens, ReputationInv
  <2> QED
    BY <1>1, <2>3, <2>4 DEF JobEventHappens, ReputationInv
<1>2. CASE ReadAgent
  <2>1. PICK a \in RatedAgents : computing' = computing \cup
             {[at |-> "rank", left |-> {a}, log |-> jobLog,
               score |-> ScoreFromMetrics(a, jobLog), rank |-> <<0, 0>>]}
    BY <1>2 DEF ReadAgent
  <2>2. ScoreFromMetrics(a, jobLog) \in Scores
    BY ScoresAreBounded DEF ReputationInv
  <2>3. [at |-> "rank", left |-> {a}, log |-> jobLog,
         score |-> ScoreFromMetrics(a, jobLog), rank |-> <<0, 0>>] \in Computations
    BY <1>z, <2>2 DEF Computations, ReputationInv
  <2> QED
    BY <1>2, <2>1, <2>3 DEF ReadAgent, ReputationInv
<1>3. ASSUME NEW comp \in computing, ReadAll(comp) PROVE ReputationInv'
  <2>1. PICK a \in comp.left :
          LET peers == (AgentsOf(jobLog) \cup {a}) \ {a}
              below == PercentileRank(comp.score, peers, jobLog)
          IN  computing' = (computing \ {comp}) \cup
                {[comp EXCEPT !.at = "save", !.rank = <<below[1], below[2] + 1>>]}
    BY <1>3 DEF ReadAll
  <2> DEFINE below == PercentileRank(comp.score, (AgentsOf(jobLog) \cup {a}) \ {a}, jobLog)
             rank == <<below[1], below[2] + 1>>
  <2>2. IsFiniteSet((AgentsOf(jobLog) \cup {a}) \ {a})
    BY AgentsOfLog, FS_AddElement, FS_RemoveElement DEF ReputationInv
  <2>3. below \in Ranks
    BY <2>2, RanksAreBounded
  <2>4. computing' = (computing \ {comp}) \cup {[comp EXCEPT !.at = "save", !.rank = rank]}
    BY <2>1
  <2> HIDE DEF below
  <2>5. rank \in Ranks
    BY <2>3 DEF Ranks
  <2> HIDE DEF rank
  <2>6. [comp EXCEPT !.at = "save", !.rank = rank] \in Computations
    BY <2>5 DEF ReputationInv, Computations
  <2> QED
    BY <1>3, <2>4, <2>6 DEF ReadAll, ReputationInv
<1>4. CASE ReadForAll
  <2>1. AgentsOf(jobLog) \subseteq RatedAgents
    BY AgentsOfLog DEF ReputationInv
  <2>2. [at |-> "saveAll", left |-> AgentsOf(jobLog), log |-> jobLog, score |-> 0,
         rank |-> <<0, 0>>] \in Computations
    BY <1>z, <2>1, ZeroIsScore DEF Computations, ReputationInv
  <2> QED
    BY <1>4, <2>2 DEF ReadForAll, ReputationInv
<1>5. ASSUME NEW comp \in computing, Save(comp) PROVE ReputationInv'
  <2>1. PICK a \in comp.left :
           /\ saved' = [saved EXCEPT ![a] =
                 [score |-> ScoreFromMetrics(a, comp.log),
                  rank |-> IF comp.at = "save" THEN comp.rank
                           ELSE PercentileRank(ScoreFromMetrics(a, comp.log),
                                               AgentsOf(comp.log), comp.log)]]
           /\ computing' = IF comp.left = {a} THEN computing \ {comp}
                           ELSE (computing \ {comp}) \cup
                                    {[comp EXCEPT !.left = comp.left \ {a}]}
    BY <1>5 DEF Save
  <2>2. comp \in Computations /\ comp.log \in Seq(JobEvents)
    BY DEF ReputationInv, Computations
  <2>3. ScoreFromMetrics(a, comp.log) \in Scores
    BY <2>2, ScoresAreBounded
  <2>4. PercentileRank(ScoreFromMetrics(a, comp.log), AgentsOf(comp.log), comp.log) \in Ranks
    BY <2>2, AgentsOfLog, RanksAreBounded
  <2>5. saved' \in [RatedAgents -> [score : {-1} \cup Scores, rank : Ranks]]
    BY <2>1, <2>2, <2>3, <2>4 DEF ReputationInv, Computations
  <2>6. [comp EXCEPT !.left = comp.left \ {a}] \in Computations
    BY <2>2 DEF Computations
  <2>7. computing' \subseteq Computations
    BY <2>1, <2>6 DEF ReputationInv
  <2> QED
    BY <1>5, <2>5, <2>7 DEF Save, ReputationInv
<1>6. CASE UNCHANGED reputationVars
  BY <1>6 DEF reputationVars, ReputationInv
<1> QED
  BY <1>1, <1>2, <1>3, <1>4, <1>5, <1>6 DEF ReputationNext

(***************************************************************************)
(* A saved score is one from 0 to 100 and its rank is within the agents it *)
(* was ranked among, whatever events come in while it is computed.         *)
(***************************************************************************)
LEMMA ReputationStaysTyped == ReputationSpec => []ReputationTypeOK
<1>1. ReputationInit => ReputationInv
  <2> SUFFICES ASSUME ReputationInit PROVE ReputationInv
    OBVIOUS
  <2>1. <<>> \in Seq(JobEvents) /\ Len(<<>>) = 0 /\ <<0, 0>> \in Ranks /\ MaxJobEvents >= 0
    BY ReputationAssumption DEF Ranks
  <2>2. NoReputation \in [score : {-1} \cup Scores, rank : Ranks]
    BY <2>1 DEF NoReputation
  <2> QED
    BY <2>1, <2>2 DEF ReputationInit, ReputationInv
<1>2. ReputationInv => ReputationTypeOK
  <2> SUFFICES ASSUME ReputationInv PROVE ReputationTypeOK
    OBVIOUS
  <2>1. ToSet(jobLog) \subseteq JobEvents
    BY LenProperties, ElementOfSeq DEF ReputationInv, ToSet
  <2>2. ASSUME NEW comp \in computing
        PROVE  comp.left \subseteq RatedAgents /\ comp.score \in Scores
    BY DEF ReputationInv, Computations
  <2>3. ASSUME NEW a \in RatedAgents
        PROVE  saved[a].score \in {-1} \cup Scores /\ saved[a].rank[1] <= saved[a].rank[2]
    BY DEF ReputationInv, Ranks
  <2> DEFINE top == 100000
  <2>4. top \in Nat
    BY SMT
  <2>5. Scores = 0 .. top
    BY DEF Scores
  <2> HIDE DEF top
  <2>6. ASSUME NEW a \in RatedAgents PROVE saved[a].score \in -1 .. top
    BY <2>3, <2>4, <2>5, SMT
  <2>7. ASSUME NEW comp \in computing PROVE comp.score \in 0 .. top
    BY <2>2, <2>5
  <2>8. /\ Len(jobLog) <= MaxJobEvents
        /\ ToSet(jobLog) \subseteq [agentId : RatedAgents, type : JobEventTypes]
    BY <2>1 DEF ReputationInv, JobEvents
  <2>9. \A comp \in computing : comp.left \subseteq RatedAgents /\ comp.score \in 0 .. top
    BY <2>2, <2>7
  <2>10. \A a \in RatedAgents : /\ saved[a].score \in -1 .. top
                                /\ saved[a].rank[1] <= saved[a].rank[2]
    BY <2>3, <2>6
  <2>11. ReputationTypeOK <=>
            /\ Len(jobLog) <= MaxJobEvents
            /\ ToSet(jobLog) \subseteq [agentId : RatedAgents, type : JobEventTypes]
            /\ \A comp \in computing : comp.left \subseteq RatedAgents /\ comp.score \in 0 .. top
            /\ \A a \in RatedAgents : /\ saved[a].score \in -1 .. top
                                      /\ saved[a].rank[1] <= saved[a].rank[2]
    BY SMT DEF ReputationTypeOK, top
  <2> QED
    BY <2>8, <2>9, <2>10, <2>11, Zenon
<1> QED
  BY <1>1, <1>2, ReputationStep, PTL DEF ReputationSpec

----------------------------------------------------------------------------
(* The buyer agent (buyer-agent.ts). *)

(***************************************************************************)
(* A finite set of numbers that is not empty has a largest one.            *)
(***************************************************************************)
LEMMA LargestNumber ==
    ASSUME NEW S \in SUBSET Nat, IsFiniteSet(S), S # {}
    PROVE  Max(S) \in S /\ \A y \in S : Max(S) >= y
<1> DEFINE P == {T \in SUBSET S : T = {} \/ \E m \in T : \A y \in T : m >= y}
<1>1. {} \in P
  OBVIOUS
<1>2. ASSUME NEW T \in SUBSET S, NEW x \in S \ T, T \in P
      PROVE  T \cup {x} \in P
  <2>1. CASE T = {}
    <3>1. T \cup {x} = {x} /\ x >= x
      BY <2>1
    <3> QED
      BY <3>1
  <2>2. CASE T # {}
    <3>1. PICK m \in T : \A y \in T : m >= y
      BY <1>2, <2>2
    <3>2. CASE m >= x
      BY <3>1, <3>2
    <3>3. CASE x > m
      <4>1. \A y \in T \cup {x} : x >= y
        BY <3>1, <3>3
      <4> QED
        BY <4>1
    <3> QED
      BY <3>2, <3>3
  <2> QED
    BY <2>1, <2>2
<1> HIDE DEF P
<1>3. S \in P
  BY <1>1, <1>2, SubsetInduction
<1>4. \E m \in S : \A y \in S : m >= y
  BY <1>3 DEF P
<1> QED
  BY <1>4 DEF Max

BuyerSpec == BuyerInit /\ [][BuyerNext]_buyerVars

PaidFor == {s \in Sellers : paid[s] # "none"}

(***************************************************************************)
(* Who was paid was picked in this round or was the pick of the round      *)
(* before; before a round picks, only the pick before it can be paid.      *)
(***************************************************************************)
PaidWerePicked ==
    /\ PaidFor \subseteq {picked, tried}
    /\ buyer \in {"idle", "classifying", "selecting"} => PaidFor \subseteq {tried}
    /\ round = 1 => tried = NoSeller

BuyerInv ==
    /\ program \in {"terminal", "library"} /\ taskBox \in BOOLEAN /\ round \in {1, 2}
    /\ buyer \in {"idle", "classifying", "selecting", "creating", "polling", "returned"}
    /\ fits \subseteq Sellers /\ agents \subseteq Sellers
    /\ {picked, tried, buyerResult} \subseteq Sellers \cup {NoSeller}
    /\ attempts \in 0..maxCreateAttempts
    /\ paid \in [Sellers -> {"none", "funded", "completed", "ended"}]
    /\ buyer \in {"creating", "polling"} => picked \in Sellers
    /\ buyer = "creating" => attempts < maxCreateAttempts
    /\ PaidWerePicked
    /\ buyerResult # NoSeller => buyer = "returned" /\ paid[buyerResult] = "completed"

LEMMA BestOfPool ==
    ASSUME BuyerInv, NEW available \in SUBSET Sellers, pool(available) # {}
    PROVE  Max(pool(available)) \in Sellers
<1>1. pool(available) \subseteq Sellers
  BY DEF pool
<1>2. pool(available) \subseteq Nat /\ IsFiniteSet(pool(available))
  BY <1>1, FS_Subset, BuyerAssumption
<1> QED
  BY <1>1, <1>2, LargestNumber

LEMMA BuyerStep == BuyerInv /\ [BuyerNext]_buyerVars => BuyerInv'
<1> SUFFICES ASSUME BuyerInv, [BuyerNext]_buyerVars PROVE BuyerInv'
  OBVIOUS
<1> USE BuyerAssumption DEF BuyerInv, PaidWerePicked, PaidFor
<1>1. CASE LoadAgents \/ BeginTask
  BY <1>1 DEF LoadAgents, BeginTask
<1>2. CASE Classified
  BY <1>2 DEF Classified
<1>3. CASE ClassifyFails
  BY <1>3 DEF ClassifyFails, Return
<1>4. CASE Select
  <2>1. agents \ {tried} \in SUBSET Sellers
    OBVIOUS
  <2>2. CASE pool(agents \ {tried}) = {}
    BY <1>4, <2>2 DEF Select, Return
  <2>3. CASE pool(agents \ {tried}) # {}
    <3>1. picked' \in Sellers /\ attempts' = 0 /\ buyer' = "creating"
      BY <1>4, <2>1, <2>3, BestOfPool DEF Select
    <3>2. /\ buyer = "selecting"
          /\ UNCHANGED <<program, taskBox, round, fits, agents, tried, buyerResult, paid>>
      BY <1>4, <2>3 DEF Select
    <3> QED
      BY <3>1, <3>2
  <2> QED
    BY <2>2, <2>3
<1>5. CASE JobCreated
  <2>1. /\ buyer = "creating" /\ buyer' = "polling"
        /\ paid' = [paid EXCEPT ![picked] = "funded"]
        /\ UNCHANGED <<program, taskBox, round, fits, agents, picked, tried, attempts,
                       buyerResult>>
    BY <1>5 DEF JobCreated
  <2>2. /\ paid' \in [Sellers -> {"none", "funded", "completed", "ended"}]
        /\ \A s \in Sellers \ {picked} : paid'[s] = paid[s]
    BY <2>1
  <2>3. \A s \in Sellers : paid'[s] # "none" => s = picked \/ paid[s] # "none"
    BY <2>2
  <2> QED
    BY <2>1, <2>2, <2>3
<1>6. CASE CreateFails
  <2>1. /\ buyer = "creating" /\ attempts' = attempts + 1
        /\ paid' \in {paid, [paid EXCEPT ![picked] = "funded"]}
        /\ UNCHANGED <<program, taskBox, round, fits, agents, picked, tried>>
        /\ buyerResult' = NoSeller
        /\ buyer' = "returned" \/ (buyer' = "creating" /\ attempts' < maxCreateAttempts)
    BY <1>6 DEF CreateFails, Return
  <2>2. /\ paid' \in [Sellers -> {"none", "funded", "completed", "ended"}]
        /\ \A s \in Sellers \ {picked} : paid'[s] = paid[s]
    BY <2>1
  <2>3. \A s \in Sellers : paid'[s] # "none" => s = picked \/ paid[s] # "none"
    BY <2>2
  <2>4. PaidWerePicked'
    BY <2>1, <2>3
  <2>5. attempts' \in 0..maxCreateAttempts
    BY <2>1
  <2> QED
    BY <2>1, <2>2, <2>4, <2>5
<1>7. CASE JobMoves
  BY <1>7 DEF JobMoves
<1>8. CASE PollCompleted
  BY <1>8 DEF PollCompleted, Return
<1>9. CASE PollGivesNothing
  <2>1. CASE program = "terminal" /\ round = 1
    <3>1. PaidFor \subseteq {picked}
      BY <2>1 DEF NoSeller
    <3> QED
      BY <1>9, <2>1, <3>1 DEF PollGivesNothing
  <2>2. CASE ~(program = "terminal" /\ round = 1)
    BY <1>9, <2>2 DEF PollGivesNothing, Return
  <2> QED
    BY <2>1, <2>2
<1>10. CASE UNCHANGED buyerVars
  BY <1>10 DEF buyerVars
<1> QED
  BY <1>1, <1>2, <1>3, <1>4, <1>5, <1>6, <1>7, <1>8, <1>9, <1>10 DEF BuyerNext

LEMMA AtMostAPair ==
    ASSUME NEW S, NEW x, NEW y, S \subseteq {x, y}
    PROVE  IsFiniteSet(S) /\ Cardinality(S) <= 2
<1>1. IsFiniteSet({x}) /\ Cardinality({x}) = 1
  BY FS_Singleton
<1>2. IsFiniteSet({x} \cup {y}) /\ Cardinality({x} \cup {y}) <= 2
  BY <1>1, FS_AddElement DEF NoSeller
<1>3. {x, y} = {x} \cup {y}
  OBVIOUS
<1> QED
  BY <1>2, <1>3, FS_Subset, FS_CardinalityType

LEMMA BuyerInvTypes == BuyerInv => BuyerTypeOK
<1> SUFFICES ASSUME BuyerInv PROVE BuyerTypeOK
  OBVIOUS
<1>1. PaidFor \subseteq {picked, tried} \ {NoSeller}
  BY BuyerAssumption DEF BuyerInv, PaidWerePicked, PaidFor, NoSeller
<1>2. CASE round = 1
  <2>1. PaidFor \subseteq {picked}
    BY <1>1, <1>2 DEF BuyerInv, PaidWerePicked
  <2>2. IsFiniteSet({picked}) /\ Cardinality({picked}) = 1
    BY FS_Singleton
  <2>3. Cardinality(PaidFor) <= round
    BY <1>2, <2>1, <2>2, FS_Subset
  <2> QED
    BY <2>3 DEF BuyerInv, BuyerTypeOK, PaidFor
<1>3. CASE round = 2
  <2>1. Cardinality(PaidFor) <= round
    BY <1>1, <1>3, AtMostAPair
  <2> QED
    BY <2>1 DEF BuyerInv, BuyerTypeOK, PaidFor
<1> QED
  BY <1>2, <1>3 DEF BuyerInv

(***************************************************************************)
(* A buyer pays at most two providers for one task, however often creating *)
(* a job fails before or after the budget has left, and the result it      *)
(* shows comes from a provider whose job was completed.                    *)
(***************************************************************************)
LEMMA BuyerStaysTyped == BuyerSpec => []BuyerTypeOK
<1>1. BuyerInit => BuyerInv
  BY BuyerAssumption DEF BuyerInit, BuyerStart, BuyerInv, PaidWerePicked, PaidFor, NoSeller
<1> QED
  BY <1>1, BuyerStep, BuyerInvTypes, PTL DEF BuyerSpec

----------------------------------------------------------------------------
(* Who the dashboard lets in, and what it writes down of them. *)

AuthSpec == AuthInit /\ [][AuthNext]_authVars

Challenges ==
    [account : Accounts, expires : 0 .. MaxClock + ttlMs,
     state : {"lookup", "429", "issued", "400", "consumed", "forgotten"}]
Tokens == [account : Accounts, exp : 1 .. MaxClock + JWT_EXPIRY]
Audits == [wallet : Accounts \cup {"none"}, code : {200, 401, 403}]
AuditFiles == 1 .. AUDIT_LOG_MAX_FILES

AuthInv ==
    /\ clock \in 1 .. MaxClock
    /\ bucket \in Seq(Nat) /\ Len(bucket) <= limit
    /\ asked \in Seq(Challenges)
    /\ sessions \subseteq Tokens
    /\ trail \in Seq(Audits) /\ Len(trail) <= MAX_AUDIT_ENTRIES
    /\ files \in [AuditFiles -> Seq(Audits)]
    /\ \A i \in AuditFiles : Len(files[i]) <= AuditFileSize

(***************************************************************************)
(* What is spliced off a bucket of timestamps only makes it shorter.       *)
(***************************************************************************)
LEMMA WindowIsShorter ==
    ASSUME NEW stamps \in Seq(Nat), AuthInv
    PROVE  InWindow(stamps) \in Seq(Nat) /\ Len(InWindow(stamps)) <= Len(stamps)
<1> DEFINE Recent == {n \in 0 .. Len(stamps) :
                       n < Len(stamps) => stamps[n + 1] + windowMs > clock}
<1>1. Len(stamps) \in Nat /\ \A i \in 1 .. Len(stamps) : stamps[i] \in Nat
  BY LenProperties, ElementOfSeq
<1>2. Len(stamps) \in Recent /\ Recent \in SUBSET Nat
  BY <1>1
<1>3. \E m \in Recent : \A k \in Recent : m <= k
  BY <1>2, SmallestNumber
<1>4. Min(Recent) \in Recent
  BY <1>3 DEF Min
<1>5. PICK m \in 0 .. Len(stamps) : InWindow(stamps) = SubSeq(stamps, m + 1, Len(stamps))
  BY <1>4 DEF InWindow
<1>6. \A i \in m + 1 .. Len(stamps) : stamps[i] \in Nat
  BY <1>1, <1>5
<1>7. /\ SubSeq(stamps, m + 1, Len(stamps)) \in Seq(Nat)
      /\ Len(SubSeq(stamps, m + 1, Len(stamps))) =
           IF m + 1 <= Len(stamps) THEN Len(stamps) - (m + 1) + 1 ELSE 0
  BY <1>1, <1>5, <1>6, SubSeqProperties
<1> QED
  BY <1>1, <1>5, <1>7

LEMMA AskedStays ==
    ASSUME AuthInv, NEW c \in DOMAIN asked, NEW new \in Challenges
    PROVE  [asked EXCEPT ![c] = new] \in Seq(Challenges)
BY LenProperties, ExceptSeq DEF AuthInv

(***************************************************************************)
(* An audit file is rotated when it is full and never grows past its size. *)
(***************************************************************************)
LEMMA FilesStaySmall ==
    ASSUME AuthInv, NEW entry \in Audits
    PROVE  /\ appendAuditEntry(entry) \in [AuditFiles -> Seq(Audits)]
           /\ \A i \in AuditFiles : Len(appendAuditEntry(entry)[i]) <= AuditFileSize
<1>1. /\ files \in [AuditFiles -> Seq(Audits)] /\ 1 \in AuditFiles
      /\ files[1] \in Seq(Audits) /\ Len(files[1]) \in Nat /\ DOMAIN files = AuditFiles
      /\ AuditFileSize \in Nat /\ AuditFileSize >= 1
  BY AuthAssumption, LenProperties DEF AuthInv, AuditFiles, AUDIT_LOG_MAX_FILES
<1>2. CASE Len(files[1]) >= AuditFileSize
  <2>1. appendAuditEntry(entry) =
          [i \in AuditFiles |-> IF i = 1 THEN <<entry>> ELSE files[i - 1]]
    BY <1>1, <1>2 DEF appendAuditEntry
  <2>2. <<entry>> \in Seq(Audits) /\ Len(<<entry>>) = 1
    OBVIOUS
  <2>3. \A i \in AuditFiles : i # 1 => i - 1 \in AuditFiles
    BY DEF AuditFiles, AUDIT_LOG_MAX_FILES
  <2> QED
    BY <1>1, <2>1, <2>2, <2>3 DEF AuthInv
<1>3. CASE Len(files[1]) < AuditFileSize
  <2>1. appendAuditEntry(entry) = [files EXCEPT ![1] = Append(files[1], entry)]
    BY <1>1, <1>3 DEF appendAuditEntry
  <2>2. /\ Append(files[1], entry) \in Seq(Audits)
        /\ Len(Append(files[1], entry)) <= AuditFileSize
    BY <1>1, <1>3, AppendProperties
  <2>3. \A i \in AuditFiles : /\ files[i] \in Seq(Audits) /\ Len(files[i]) <= AuditFileSize
                              /\ i # 1 => appendAuditEntry(entry)[i] = files[i]
    BY <1>1, <2>1 DEF AuthInv
  <2>4. /\ appendAuditEntry(entry) \in [AuditFiles -> Seq(Audits)]
        /\ appendAuditEntry(entry)[1] = Append(files[1], entry)
    BY <1>1, <2>1, <2>2
  <2> QED
    BY <2>2, <2>3, <2>4
<1> QED
  BY <1>1, <1>2, <1>3

LEMMA TrailStaysShort ==
    ASSUME AuthInv, NEW entry \in Audits,
           NEW shorter, shorter = LET longer == Append(trail, entry)
                     IN  IF Len(longer) > MAX_AUDIT_ENTRIES THEN Tail(longer) ELSE longer
    PROVE  /\ shorter \in Seq(Audits) /\ Len(shorter) <= MAX_AUDIT_ENTRIES
           /\ Last(shorter) = entry
<1> DEFINE longer == Append(trail, entry)
<1>1. /\ trail \in Seq(Audits) /\ Len(trail) \in Nat /\ Len(trail) <= MAX_AUDIT_ENTRIES
      /\ MAX_AUDIT_ENTRIES \in Nat /\ MAX_AUDIT_ENTRIES >= 1
  BY AuthAssumption, LenProperties DEF AuthInv
<1>2. /\ longer \in Seq(Audits) /\ longer # <<>> /\ Len(longer) = Len(trail) + 1
      /\ longer[Len(trail) + 1] = entry
  BY <1>1, AppendProperties
<1>3. /\ Tail(longer) \in Seq(Audits) /\ Len(Tail(longer)) = Len(longer) - 1
      /\ \A i \in 1 .. Len(Tail(longer)) : Tail(longer)[i] = longer[i + 1]
  BY <1>2, HeadTailProperties
<1> HIDE DEF longer
<1>4. shorter = IF Len(longer) > MAX_AUDIT_ENTRIES THEN Tail(longer) ELSE longer
  BY DEF longer
<1>5. CASE Len(longer) > MAX_AUDIT_ENTRIES
  <2>1. shorter = Tail(longer) /\ Len(shorter) = MAX_AUDIT_ENTRIES
    BY <1>1, <1>2, <1>3, <1>4, <1>5
  <2>2. Len(longer) = Len(shorter) + 1 /\ Len(shorter) \in 1 .. Len(shorter)
    BY <1>1, <1>2, <1>3, <2>1
  <2>4. shorter[Len(shorter)] = longer[Len(shorter) + 1]
    BY <1>3, <2>1, <2>2, SMTT(30)
  <2>3. shorter \in Seq(Audits)
    BY <1>3, <2>1
  <2> QED
    BY <1>2, <2>1, <2>2, <2>3, <2>4 DEF Last
<1>6. CASE Len(longer) <= MAX_AUDIT_ENTRIES
  BY <1>1, <1>2, <1>4, <1>6 DEF Last
<1> QED
  BY <1>1, <1>2, <1>5, <1>6

LEMMA AuthStep == AuthInv /\ [AuthNext]_authVars => AuthInv'
<1> SUFFICES ASSUME AuthInv, [AuthNext]_authVars PROVE AuthInv'
  OBVIOUS
<1>t. /\ {limit, windowMs, ttlMs, JWT_EXPIRY, MAX_AUDIT_ENTRIES, AuditFileSize, MaxClock}
           \subseteq Nat \ {0}
      /\ clock \in Nat /\ clock <= MaxClock /\ clock >= 1
  BY AuthAssumption DEF AuthInv
<1>s. /\ DOMAIN asked = 1 .. Len(asked) /\ Len(asked) \in Nat
      /\ \A c \in DOMAIN asked : asked[c] \in Challenges
      /\ Len(bucket) \in Nat
  BY LenProperties, ElementOfSeq DEF AuthInv
<1>1. ASSUME NEW account \in Accounts, AskChallenge(account) PROVE AuthInv'
  <2>1. InWindow(bucket) \in Seq(Nat) /\ Len(InWindow(bucket)) <= Len(bucket)
    BY WindowIsShorter DEF AuthInv
  <2>2. Len(InWindow(bucket)) \in Nat /\ Len(InWindow(bucket)) <= limit
    BY <1>t, <1>s, <2>1, LenProperties DEF AuthInv
  <2>3. Append(InWindow(bucket), clock) \in Seq(Nat)
        /\ Len(Append(InWindow(bucket), clock)) = Len(InWindow(bucket)) + 1
    BY <1>t, <2>1, AppendProperties
  <2>4. bucket' \in Seq(Nat) /\ Len(bucket') <= limit
    BY <1>t, <1>1, <2>1, <2>2, <2>3 DEF AskChallenge
  <2>5. PICK state \in {"lookup", "429"} :
           asked' = Append(asked, [account |-> account, expires |-> 0, state |-> state])
    BY <1>1 DEF AskChallenge
  <2>6. [account |-> account, expires |-> 0, state |-> state] \in Challenges
    BY <1>t DEF Challenges
  <2>7. asked' \in Seq(Challenges)
    BY <2>5, <2>6, AppendProperties DEF AuthInv
  <2> QED
    BY <1>1, <2>4, <2>7 DEF AskChallenge, AuthInv
<1>2. ASSUME NEW c \in DOMAIN asked, AccountFound(c) \/ AccountUnknown(c) \/ TokenRefused(c)
      PROVE  AuthInv'
  <2>1. PICK state \in {"issued", "400", "forgotten"},
             expires \in {asked[c].expires, clock + ttlMs} :
          asked' = [asked EXCEPT ![c] =
                      [account |-> asked[c].account, state |-> state, expires |-> expires]]
    BY <1>2, <1>s DEF AccountFound, AccountUnknown, TokenRefused, Challenges
  <2>2. [account |-> asked[c].account, state |-> state, expires |-> expires] \in Challenges
    BY <1>t, <1>s, <2>1 DEF Challenges
  <2>3. asked' \in Seq(Challenges)
    BY <2>1, <2>2, AskedStays
  <2> QED
    BY <1>2, <2>3 DEF AccountFound, AccountUnknown, TokenRefused, AuthInv
<1>3. ASSUME NEW c \in DOMAIN asked, NEW signer \in Accounts, Token(c, signer) PROVE AuthInv'
  <2>1. asked' = [asked EXCEPT ![c] = [asked[c] EXCEPT !.state = "consumed"]]
    BY <1>3 DEF Token
  <2>2. [asked[c] EXCEPT !.state = "consumed"] \in Challenges
    BY <1>s DEF Challenges
  <2>3. asked' \in Seq(Challenges)
    BY <2>1, <2>2, AskedStays
  <2>4. [account |-> signer, exp |-> clock + JWT_EXPIRY] \in Tokens
    BY <1>t DEF Tokens
  <2> QED
    BY <1>3, <2>3, <2>4 DEF Token, AuthInv
<1>4. CASE Prune
  <2>1. InWindow(bucket) \in Seq(Nat) /\ Len(InWindow(bucket)) <= Len(bucket)
    BY WindowIsShorter DEF AuthInv
  <2>2. bucket' \in Seq(Nat) /\ Len(bucket') <= limit
    BY <1>t, <1>s, <1>4, <2>1, LenProperties DEF Prune, AuthInv
  <2>3. \A c \in DOMAIN asked : [asked[c] EXCEPT !.state = "forgotten"] \in Challenges
    BY <1>s DEF Challenges
  <2>4. asked' \in [1 .. Len(asked) -> Challenges]
    BY <1>4, <1>s, <2>3 DEF Prune
  <2>5. asked' \in Seq(Challenges)
    BY <1>s, <2>4, SeqDef
  <2> QED
    BY <1>4, <2>2, <2>5 DEF Prune, AuthInv
<1>5. CASE Tick
  BY <1>t, <1>5 DEF Tick, AuthInv
<1>6. CASE Logout \/ UNCHANGED authVars
  BY <1>6 DEF Logout, authVars, AuthInv
<1>7. CASE Restart
  <2>1. /\ {files[1], files[2], files[3]} \subseteq Seq(Audits)
    BY DEF AuthInv, AuditFiles, AUDIT_LOG_MAX_FILES
  <2> DEFINE kept == files[3] \o files[2] \o files[1]
             from == IF Len(kept) > MAX_AUDIT_ENTRIES THEN Len(kept) - MAX_AUDIT_ENTRIES + 1
                     ELSE 1
  <2>2. kept \in Seq(Audits)
    BY <2>1, ConcatProperties
  <2>3. trail' = SubSeq(kept, from, Len(kept))
    BY <1>7 DEF Restart
  <2> HIDE DEF kept
  <2>4. /\ Len(kept) \in Nat /\ from \in 1 .. Len(kept) + 1
        /\ Len(kept) - from + 1 <= MAX_AUDIT_ENTRIES
    BY <1>t, <2>2, LenProperties
  <2>5. \A i \in from .. Len(kept) : kept[i] \in Audits
    BY <2>2, <2>4, ElementOfSeq
  <2> HIDE DEF from
  <2>6. trail' \in Seq(Audits) /\ Len(trail') <= MAX_AUDIT_ENTRIES
    BY <1>t, <2>3, <2>4, <2>5, SubSeqProperties
  <2>7. \A c \in DOMAIN asked : [asked[c] EXCEPT !.state = "forgotten"] \in Challenges
    BY <1>s DEF Challenges
  <2>8. asked' \in [1 .. Len(asked) -> Challenges]
    BY <1>7, <1>s, <2>7 DEF Restart
  <2>9. asked' \in Seq(Challenges)
    BY <1>s, <2>8, SeqDef
  <2>10. bucket' \in Seq(Nat) /\ Len(bucket') <= limit
    BY <1>t, <1>7 DEF Restart
  <2> QED
    BY <1>7, <2>6, <2>9, <2>10 DEF Restart, AuthInv
<1>8. ASSUME NEW token \in sessions, Refresh(token) PROVE AuthInv'
  <2>1. clock + JWT_EXPIRY \in 1 .. MaxClock + JWT_EXPIRY
    BY <1>t
  <2>2. token \in Tokens
    BY DEF AuthInv
  <2>3. [token EXCEPT !.exp = clock + JWT_EXPIRY] \in Tokens
    BY <2>1, <2>2 DEF Tokens
  <2> QED
    BY <1>8, <2>3 DEF Refresh, AuthInv
<1>9. ASSUME NEW token \in sessions, NEW wallet \in Accounts \cup {"none"},
             AuditedRequest(token, wallet)
      PROVE  AuthInv'
  <2> DEFINE entry == [wallet |-> IF Verdict(token, wallet) = 401 THEN wallet ELSE token.account,
                       code |-> Verdict(token, wallet)]
  <2>1. Verdict(token, wallet) \in {200, 401, 403} /\ token.account \in Accounts
    BY DEF Verdict, AuthInv, Tokens
  <2>2. entry \in Audits
    BY <2>1 DEF Audits
  <2>3. /\ trail' = LET longer == Append(trail, entry)
                    IN  IF Len(longer) > MAX_AUDIT_ENTRIES THEN Tail(longer) ELSE longer
        /\ files' = appendAuditEntry(Last(trail'))
        /\ UNCHANGED <<clock, bucket, asked, sessions>>
    BY <1>9 DEF AuditedRequest
  <2> HIDE DEF entry
  <2>4. /\ trail' \in Seq(Audits) /\ Len(trail') <= MAX_AUDIT_ENTRIES
        /\ Last(trail') = entry
    BY <2>2, <2>3, TrailStaysShort
  <2>5. /\ files' \in [AuditFiles -> Seq(Audits)]
        /\ \A i \in AuditFiles : Len(files'[i]) <= AuditFileSize
    BY <2>2, <2>3, <2>4, FilesStaySmall
  <2> QED
    BY <2>3, <2>4, <2>5 DEF AuthInv
<1> QED
  BY <1>1, <1>2, <1>3, <1>4, <1>5, <1>6, <1>7, <1>8, <1>9 DEF AuthNext

(***************************************************************************)
(* The dashboard keeps its limits: no more challenges than the limiter     *)
(* lets through, whatever its timers prune, an audit trail and audit files *)
(* that never grow past their sizes, also when a restart reads them back.  *)
(***************************************************************************)
LEMMA AuthStaysTyped == AuthSpec => []AuthTypeOK
<1>1. AuthInit => AuthInv
  <2> SUFFICES ASSUME AuthInit PROVE AuthInv
    OBVIOUS
  <2>1. /\ bucket = <<>> /\ asked = <<>> /\ trail = <<>> /\ Len(<<>>) = 0
        /\ files \in [AuditFiles -> Seq(Audits)] /\ \A i \in AuditFiles : Len(files[i]) = 0
    BY DEF AuthInit, AuditFiles
  <2>2. 0 <= limit /\ 0 <= MAX_AUDIT_ENTRIES /\ 0 <= AuditFileSize /\ 1 \in 1 .. MaxClock
    BY AuthAssumption
  <2>3. <<>> \in Seq(Nat) /\ <<>> \in Seq(Challenges) /\ <<>> \in Seq(Audits)
    OBVIOUS
  <2> QED
    BY <2>1, <2>2, <2>3 DEF AuthInit, AuthInv
<1>2. AuthInv => AuthTypeOK
  <2> SUFFICES ASSUME AuthInv PROVE AuthTypeOK
    OBVIOUS
  <2>1. \A c \in DOMAIN asked : asked[c] \in Challenges
    BY LenProperties, ElementOfSeq DEF AuthInv
  <2> QED
    BY <2>1 DEF AuthInv, AuthTypeOK, Challenges, Tokens
<1> QED
  BY <1>1, <1>2, AuthStep, PTL DEF AuthSpec

----------------------------------------------------------------------------
(* How the dashboard finds the agents. *)

(***************************************************************************)
(* How many agents the dashboard takes there to be is never more than were *)
(* registered, whether the contract answers or the search ends wherever    *)
(* the gaps lead it.                                                       *)
(***************************************************************************)
DiscoverySpec == DiscoveryInit /\ [][DiscoveryNext]_discoveryVars

LEMMA CountIsOfAgents ==
    ASSUME DiscoveryTypeOK, NEW answers \in BOOLEAN
    PROVE  AgentCount(answers) \in 0 .. nextId
<1>1. nextId \in Nat /\ IsFiniteSet(1 .. nextId) /\ Cardinality(1 .. nextId) = nextId
  <2>1. nextId \in Nat
    BY DiscoveryAssumption DEF DiscoveryTypeOK
  <2> QED
    BY <2>1, FS_Interval
<1>2. Cardinality(live) \in 0 .. nextId
  <2>1. IsFiniteSet(live) /\ Cardinality(live) <= nextId
    BY <1>1, FS_Subset DEF DiscoveryTypeOK
  <2>2. Cardinality(live) \in Nat
    BY <2>1, FS_CardinalityType
  <2> QED
    BY <1>1, <2>1, <2>2
<1>3. findMaxId \in live \cup {0}
  <2> DEFINE search[lo, hi \in Nat] ==
               IF lo >= hi THEN lo
               ELSE LET mid == (lo + hi + 1) \div 2
                    IN  IF mid \in live THEN search[mid, hi] ELSE search[lo, mid - 1]
             found == search[FirstProbeMissing \div 2,
                             Lesser(FirstProbeMissing, MAX_DISCOVERY_PROBE_ID)]
  <2>1. findMaxId = IF found \in live THEN found ELSE 0
    BY DEF findMaxId
  <2> HIDE DEF search, found
  <2> QED
    BY <2>1
<1> QED
  BY <1>1, <1>2, <1>3 DEF AgentCount, DiscoveryTypeOK

LEMMA DiscoveryStep == DiscoveryTypeOK /\ [DiscoveryNext]_discoveryVars => DiscoveryTypeOK'
<1> SUFFICES ASSUME DiscoveryTypeOK, [DiscoveryNext]_discoveryVars PROVE DiscoveryTypeOK'
  OBVIOUS
<1>1. /\ nextId \in 0 .. MaxId /\ MaxId \in Nat /\ nextId \in Nat
      /\ live \subseteq 1 .. nextId /\ vectorIndex \subseteq 1 .. nextId
      /\ shown.items \subseteq 1 .. nextId /\ shown.total \in 0 .. nextId
      /\ shown.hasNext \in BOOLEAN
  BY DiscoveryAssumption DEF DiscoveryTypeOK
<1>2. ASSUME RegisterAgent PROVE DiscoveryTypeOK'
  BY <1>1, <1>2 DEF RegisterAgent, DiscoveryTypeOK
<1>3. ASSUME NEW a \in live, AgentLeaves(a) PROVE DiscoveryTypeOK'
  BY <1>1, <1>3 DEF AgentLeaves, DiscoveryTypeOK
<1>4. ASSUME NEW answers \in BOOLEAN,
             ListAgents(answers) \/ \E page \in 1 .. MaxId, pageSize \in PageSizes :
                                       PageOfAgents(page, pageSize, answers)
      PROVE  DiscoveryTypeOK'
  <2>1. AgentCount(answers) \in 0 .. nextId
    BY CountIsOfAgents
  <2>2. PICK ids : \E more \in BOOLEAN :
          /\ shown' = [items |-> live \cap ids, total |-> AgentCount(answers), hasNext |-> more]
          /\ UNCHANGED <<nextId, live, vectorIndex>>
    <3>1. ASSUME ListAgents(answers)
          PROVE  \E ids : \E more \in BOOLEAN :
                   /\ shown' = [items |-> live \cap ids, total |-> AgentCount(answers),
                                hasNext |-> more]
                   /\ UNCHANGED <<nextId, live, vectorIndex>>
      <4>1. /\ shown' = [items |-> live \cap (1 .. AgentCount(answers)),
                         total |-> AgentCount(answers), hasNext |-> FALSE]
            /\ UNCHANGED <<nextId, live, vectorIndex>>
        BY <3>1 DEF ListAgents
      <4> QED
        BY <4>1
    <3>2. ASSUME NEW page, NEW pageSize, PageOfAgents(page, pageSize, answers)
          PROVE  \E ids : \E more \in BOOLEAN :
                   /\ shown' = [items |-> live \cap ids, total |-> AgentCount(answers),
                                hasNext |-> more]
                   /\ UNCHANGED <<nextId, live, vectorIndex>>
      <4> DEFINE start == (page - 1) * pageSize + 1
                 end == Lesser(start + pageSize - 1, AgentCount(answers))
                 these == start .. end
                 more == end < AgentCount(answers)
      <4>1. /\ shown' = [items |-> live \cap these, total |-> AgentCount(answers),
                         hasNext |-> more]
            /\ UNCHANGED <<nextId, live, vectorIndex>>
        BY <3>2 DEF PageOfAgents
      <4>2. more \in BOOLEAN
        OBVIOUS
      <4> HIDE DEF end, start, these, more
      <4> QED
        BY <4>1, <4>2
    <3> QED
      BY <1>4, <3>1, <3>2
  <2>3. PICK more \in BOOLEAN :
          /\ shown' = [items |-> live \cap ids, total |-> AgentCount(answers), hasNext |-> more]
          /\ UNCHANGED <<nextId, live, vectorIndex>>
    BY <2>2
  <2>4. shown'.items = live \cap ids /\ shown'.total = AgentCount(answers) /\ shown'.hasNext = more
    BY <2>3
  <2> QED
    BY <1>1, <2>1, <2>3, <2>4 DEF DiscoveryTypeOK
<1>5. ASSUME NEW answers \in BOOLEAN, MatchAgents(answers) PROVE DiscoveryTypeOK'
  BY <1>1, <1>5 DEF MatchAgents, DiscoveryTypeOK
<1>6. ASSUME NEW page \in 1 .. MaxId, NEW pageSize \in PageSizes,
             nextId >= (page - 1) * pageSize, PageOfJobs(page, pageSize)
      PROVE  DiscoveryTypeOK'
  <2> DEFINE before == (page - 1) * pageSize
             endId == nextId - before
             startId == IF endId > pageSize THEN endId - pageSize + 1 ELSE 1
  <2>1. /\ shown' = [items |-> startId .. endId, total |-> nextId, hasNext |-> startId > 1]
        /\ UNCHANGED <<nextId, live, vectorIndex>> /\ nextId >= before
    BY <1>6 DEF PageOfJobs
  <2>2. before \in Nat
    <3>1. page - 1 \in Nat /\ pageSize \in Nat
      BY <1>1, DiscoveryAssumption
    <3>2. ASSUME NEW m \in Nat, NEW n \in Nat PROVE m * n \in Nat
      BY SMT
    <3> QED
      BY <3>1, <3>2
  <2> HIDE DEF before
  <2>3. startId .. endId \subseteq 1 .. nextId
    BY <1>1, <2>1, <2>2, DiscoveryAssumption
  <2> DEFINE more == startId > 1
             ids == startId .. endId
  <2>4. ids \subseteq 1 .. nextId /\ more \in BOOLEAN
    BY <2>3
  <2>5. shown' = [items |-> ids, total |-> nextId, hasNext |-> more]
    BY <2>1
  <2>6. UNCHANGED <<nextId, live, vectorIndex>>
    BY <2>1
  <2> HIDE DEF startId, endId, ids, more
  <2> QED
    BY <1>1, <2>4, <2>5, <2>6 DEF DiscoveryTypeOK
<1>7. CASE UNCHANGED discoveryVars
  BY <1>7 DEF discoveryVars, DiscoveryTypeOK
<1> QED
  BY <1>2, <1>3, <1>4, <1>5, <1>6, <1>7 DEF DiscoveryNext

LEMMA DiscoveryStaysTyped == DiscoverySpec => []DiscoveryTypeOK
<1>1. DiscoveryInit => DiscoveryTypeOK
  BY DiscoveryAssumption DEF DiscoveryInit, DiscoveryTypeOK, Nothing
<1> QED
  BY <1>1, DiscoveryStep, PTL DEF DiscoverySpec

----------------------------------------------------------------------------
(* What a deliverable is checked for. *)

CheckSpec == CheckInit /\ [][CheckNext]_checkVars

LEMMA CheckStep == CheckTypeOK /\ [CheckNext]_checkVars => CheckTypeOK'
<1> SUFFICES ASSUME CheckTypeOK, [CheckNext]_checkVars PROVE CheckTypeOK'
  OBVIOUS
<1> USE DEF CheckTypeOK, Ends, Awaits, WarningCode
<1>1. AfterBrowsing \in {"virusTotal", "done"}
  BY DEF AfterBrowsing
<1>2. CASE Parse \/ BadGateway \/ HostIsNotPublic
  BY <1>2 DEF Parse, BadGateway, HostIsNotPublic
<1>3. CASE HostIsPublic
  BY <1>1, <1>3 DEF HostIsPublic
<1>4. CASE VirusTotalTakes \/ HeadThrows \/ NoAnswer \/ RedirectedToHost \/ RemoteRefuses
  BY <1>4 DEF VirusTotalTakes, HeadThrows, NoAnswer, RedirectedToHost, RemoteRefuses
<1>5. ASSUME NEW codes, SafeBrowsingAnswers(codes) \/ VirusTotalFails(codes)
      PROVE  CheckTypeOK'
  BY <1>1, <1>5 DEF SafeBrowsingAnswers, VirusTotalFails
<1>6. ASSUME NEW codes, AnalysisAnswers(codes) \/ Redirected(codes) \/ RedirectChecked(codes)
      PROVE  CheckTypeOK'
  BY <1>6 DEF AnalysisAnswers, Redirected, RedirectChecked
<1>7. ASSUME NEW type, NEW size, RemoteAnswers(type, size) PROVE CheckTypeOK'
  BY <1>7 DEF RemoteAnswers
<1>8. CASE UNCHANGED checkVars
  BY <1>8 DEF checkVars
<1> QED
  BY <1>2, <1>3, <1>4, <1>5, <1>6, <1>7, <1>8 DEF CheckNext

LEMMA CheckStaysTyped == CheckSpec => []CheckTypeOK
<1>1. CheckInit => CheckTypeOK
  BY DEF CheckInit, CheckStart, CheckTypeOK
<1> QED
  BY <1>1, CheckStep, PTL DEF CheckSpec

----------------------------------------------------------------------------
(* All of them together. *)

(***************************************************************************)
(* The services share no variables: what all of them do is, seen from one, *)
(* its own steps and pauses between them.                                  *)
(***************************************************************************)
LEMMA EachRunsItsOwn ==
    Spec => /\ RegistrySpec /\ DashboardTxSpec /\ SellerSpec /\ OrchestratorSpec
            /\ IndexerSpec /\ DlqSpec /\ ShutdownSpec /\ WatcherSpec
            /\ RowsSpec /\ PostgresSpec /\ WebhookSpec /\ ReputationSpec
            /\ BuyerSpec /\ AuthSpec /\ DiscoverySpec /\ CheckSpec
<1>1. Init => /\ RegistryInit /\ DashboardTxInit /\ SellerInit /\ OrchestratorInit
              /\ IndexerInit /\ DlqInit /\ ShutdownInit /\ WatcherInit
              /\ EventStoreInit /\ PostgresInit /\ WebhookInit /\ ReputationInit
              /\ BuyerInit /\ AuthInit /\ DiscoveryInit /\ CheckInit
  <2>1. Init => /\ RegistryInit /\ DashboardTxInit /\ ShutdownInit /\ WatcherInit
                /\ EventStoreInit /\ PostgresInit /\ ReputationInit /\ AuthInit
                /\ DiscoveryInit
    BY DEF Init
  <2>2. Init => SellerInit /\ OrchestratorInit /\ IndexerInit /\ DlqInit
    BY DEF Init, SellerInit, OrchestratorInit, Plans, IndexerInit, DlqInit
  <2>3. Init => WebhookInit
    BY DEF Init, WebhookInit
  <2>4. Init => BuyerInit
    BY DEF Init, BuyerInit
  <2>5. CheckStart("empty") => CheckInit
    BY DEF CheckInit, Deliverables
  <2>6. Init => CheckInit
    BY <2>5 DEF Init
  <2> QED
    BY <2>1, <2>2, <2>3, <2>4, <2>6
<1>2. [Next]_serviceVars => [RegistryNext]_registryVars
  BY DEF Next, serviceVars, In, Only, Rest
<1>3. [Next]_serviceVars => [DashboardTxNext]_dashTxVars
  BY DEF Next, serviceVars, In, Only, Rest
<1>4. [Next]_serviceVars => [SellerNext]_sellerVars
  BY DEF Next, serviceVars, In, Only, Rest
<1>5. [Next]_serviceVars => [OrchestratorNext]_orchestratorVars
  BY DEF Next, serviceVars, In, Only, Rest
<1>6. [Next]_serviceVars => [IndexerNext]_indexerVars
  BY DEF Next, serviceVars, In, Only, Rest
<1>7. [Next]_serviceVars => [DlqNext]_dlqVars
  BY DEF Next, serviceVars, In, Only, Rest
<1>8. [Next]_serviceVars => [ShutdownNext]_shutdownVars
  BY DEF Next, serviceVars, In, Only, Rest
<1>9. [Next]_serviceVars => [WatcherNext]_watcherVars
  BY DEF Next, serviceVars, In, Only, Rest
<1>10. [Next]_serviceVars => [MigrationsNext \/ RowsNext]_storeVars
  BY DEF Next, serviceVars, In, Only, Rest
<1>11. [Next]_serviceVars => [PostgresNext]_pgVars
  BY DEF Next, serviceVars, In, Only, Rest
<1>12. [Next]_serviceVars => [WebhookNext]_webhookVars
  BY DEF Next, serviceVars, In, Only, Rest
<1>13. [Next]_serviceVars => [ReputationNext]_reputationVars
  BY DEF Next, serviceVars, In, Only, Rest
<1>14. [Next]_serviceVars => [BuyerNext]_buyerVars
  BY DEF Next, serviceVars, In, Only, Rest
<1>15. [Next]_serviceVars => [AuthNext]_authVars
  BY DEF Next, serviceVars, In, Only, Rest
<1>16. [Next]_serviceVars => [DiscoveryNext]_discoveryVars
  BY DEF Next, serviceVars, In, Only, Rest
<1>17. [Next]_serviceVars => [CheckNext]_checkVars
  BY DEF Next, serviceVars, In, Only, Rest
<1> QED
  BY <1>1, <1>2, <1>3, <1>4, <1>5, <1>6, <1>7, <1>8, <1>9, <1>10, <1>11, <1>12, <1>13,
     <1>14, <1>15, <1>16, <1>17, PTL
     DEF Spec, RegistrySpec, DashboardTxSpec, SellerSpec, OrchestratorSpec, IndexerSpec,
         DlqSpec, ShutdownSpec, WatcherSpec, RowsSpec, PostgresSpec, WebhookSpec,
         ReputationSpec, BuyerSpec, AuthSpec, DiscoverySpec, CheckSpec

(***************************************************************************)
(* So each keeps its invariant in the midst of all the others.             *)
(***************************************************************************)
THEOREM ServicesKeepTheirs ==
    Spec => []( /\ OfflineIsNotListed /\ SentOnce /\ DeliverableIsItsJobs
                /\ PlanRunsOut /\ IndexIsExact )
<1> QED
  BY EachRunsItsOwn, OfflineStaysUnlisted, BuildsAreSentOnce, FilesAreTheirJobs, PlansRunOut,
     IndexStaysExact, PTL

(***************************************************************************)
(* The work that the agents share code for (shared.ts and watcher.ts): an  *)
(* exit with 0 has waited for every task of a request answered before the  *)
(* signal (tasks that begin after it may be cut off), only work that was   *)
(* given up is listed or replayed, and a job that the watcher has locked   *)
(* is in the hands of one of its ticks.                                    *)
(***************************************************************************)
THEOREM AgentsKeepTheirWork == Spec => []WorkIsKept
<1>1. CleanExitIsDrained /\ QueueIsTrue /\ WatcherKeepsWatch => WorkIsKept
  BY DEF WorkIsKept
<1> QED
  BY <1>1, EachRunsItsOwn, CleanExitStaysDrained, QueueStaysTrue, WatchIsKept, PTL

(***************************************************************************)
(* The stores of events neither skip nor double (db.ts, db-postgres.ts):   *)
(* who pages to the end has seen all that was there when it began, unless  *)
(* ledgers were rolled back meanwhile, whatever is inserted between its    *)
(* pages and however long these are; and what the calls of any number of   *)
(* processes counted adds up to the rows, those included whose answer was  *)
(* lost after they had committed.                                          *)
(***************************************************************************)
THEOREM StoresKeepTheirEvents == Spec => []StoreKeeps
<1>1. PagesMissNothing /\ CountedOnce => StoreKeeps
  BY DEF StoreKeeps
<1> QED
  BY <1>1, EachRunsItsOwn, ReadersMissNothing, EventsAreCountedOnce, PTL

(***************************************************************************)
(* Every service keeps its types and the bounds stated with them, for any  *)
(* number of agents, sellers, jobs, events and calls: the adapter's pool   *)
(* is never overdrawn, the sellers' counter of active jobs is right, the   *)
(* buyer pays at most two providers for a task, scores and ranks lie in    *)
(* their ranges, retries and timers within their limits.                   *)
(***************************************************************************)
THEOREM ServicesStayTyped == Spec => []TypeOK
<1>1. Init => focus \in Focuses
  BY SMTT(30) DEF Init
<1>2. focus \in Focuses /\ [Next]_serviceVars => (focus \in Focuses)'
  BY DEF Next, serviceVars, Only
<1>3. /\ focus \in Focuses
      /\ IndexerTypeOK /\ EventStoreTypeOK /\ PostgresTypeOK /\ WebhookTypeOK
      /\ ReputationTypeOK /\ OrchestratorTypeOK /\ ShutdownTypeOK /\ RegistryTypeOK
      /\ SellerTypeOK /\ WatcherTypeOK /\ DlqTypeOK /\ BuyerTypeOK
      /\ AuthTypeOK /\ DashboardTxTypeOK /\ DiscoveryTypeOK /\ CheckTypeOK
      => TypeOK
  BY DEF TypeOK
<1> QED
  BY <1>1, <1>2, <1>3, EachRunsItsOwn, IndexerStaysTyped, StoreStaysTyped, PostgresStaysTyped,
     WebhookStaysTyped, ReputationStaysTyped, OrchestratorStaysTyped, ShutdownStaysTyped,
     RegistryStaysTyped, SellerStaysTyped, WatcherStaysTyped, DlqStaysTyped, BuyerStaysTyped,
     AuthStaysTyped, DashboardTxStaysTyped, DiscoveryStaysTyped, CheckStaysTyped, PTL
     DEF Spec

=============================================================================
