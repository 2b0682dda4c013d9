------------------------------ MODULE MCServices ------------------------------
(***************************************************************************)
(* Instances of the services for TLC: the indexer with its stores, the     *)
(* agents and what keeps them running, and the dashboard's server.  As in  *)
(* MCClients they share no state, and a behaviour runs the one in focus.   *)
(***************************************************************************)
EXTENDS Indexer, EventStores, Webhook, Reputation,
        Orchestrator, AgentRegistry, SellerAgent, JobWatcher,
        AgentRuntime, BuyerAgent, DashboardAuth, DashboardTx, DeliverableCheck

CONSTANT Focuses
VARIABLE focus

\* A component starts in any of its initial states in focus, else in a fixed one.
In(f) == focus = f

Init ==
    /\ focus \in Focuses
    /\ IF In("indexer") THEN IndexerInit ELSE IndexerStart("EventStore")
    /\ EventStoreInit /\ PostgresInit
    /\ IF In("webhook") THEN WebhookInit ELSE WebhookStart("none")
    /\ ReputationInit
    /\ IF In("orchestrator") THEN OrchestratorInit ELSE OrchestratorStart("generic")
    /\ ShutdownInit /\ RegistryInit
    /\ IF In("seller") THEN SellerInit ELSE SellerStart(FALSE)
    /\ WatcherInit
    /\ IF In("letters") THEN DlqInit ELSE DlqStart(FALSE)
    /\ IF In("buyer") THEN BuyerInit ELSE BuyerStart("library")
    /\ AuthInit /\ DashboardTxInit /\ DiscoveryInit
    /\ IF In("deliverable") THEN CheckInit ELSE CheckStart("empty")

Rest(f, v) == IF f THEN TRUE ELSE UNCHANGED v

\* Nothing but the variables of component f changes.
Only(f) ==
    /\ UNCHANGED focus
    /\ Rest(f = "indexer", indexerVars) /\ Rest(f = "store", storeVars)
    /\ Rest(f = "postgres", pgVars) /\ Rest(f = "webhook", webhookVars)
    /\ Rest(f = "reputation", reputationVars) /\ Rest(f = "orchestrator", orchestratorVars)
    /\ Rest(f = "shutdown", shutdownVars) /\ Rest(f = "registry", registryVars)
    /\ Rest(f = "seller", sellerVars) /\ Rest(f = "watcher", watcherVars)
    /\ Rest(f = "letters", dlqVars) /\ Rest(f = "buyer", buyerVars)
    /\ Rest(f = "auth", authVars) /\ Rest(f = "dashboardTx", dashTxVars)
    /\ Rest(f = "discovery", discoveryVars) /\ Rest(f = "deliverable", checkVars)

Next ==
    \/ In("indexer") /\ IndexerNext /\ Only("indexer")
    \/ In("migrations") /\ MigrationsNext /\ Only("store")
    \/ In("rows") /\ RowsNext /\ Only("store")
    \/ In("postgres") /\ PostgresNext /\ Only("postgres")
    \/ In("webhook") /\ WebhookNext /\ Only("webhook")
    \/ In("reputation") /\ ReputationNext /\ Only("reputation")
    \/ In("orchestrator") /\ OrchestratorNext /\ Only("orchestrator")
    \/ In("shutdown") /\ ShutdownNext /\ Only("shutdown")
    \/ In("registry") /\ RegistryNext /\ Only("registry")
    \/ In("seller") /\ SellerNext /\ Only("seller")
    \/ In("watcher") /\ WatcherNext /\ Only("watcher")
    \/ In("letters") /\ DlqNext /\ Only("letters")
    \/ In("buyer") /\ BuyerNext /\ Only("buyer")
    \/ In("auth") /\ AuthNext /\ Only("auth")
    \/ In("dashboardTx") /\ DashboardTxNext /\ Only("dashboardTx")
    \/ In("discovery") /\ DiscoveryNext /\ Only("discovery")
    \/ In("deliverable") /\ CheckNext /\ Only("deliverable")

serviceVars ==
    <<focus, indexerVars, storeVars, pgVars, webhookVars, reputationVars, orchestratorVars,
      shutdownVars, registryVars, sellerVars, watcherVars, dlqVars, buyerVars, authVars,
      dashTxVars, discoveryVars, checkVars>>

Spec == Init /\ [][Next]_serviceVars

\* IndexIsExact says nothing once an event may be missing or double (clean), which stays
\* so: what such a poller does next is not followed.
StillClean == clean

-----------------------------------------------------------------------------
\* Every component keeps its types.
TypeOK ==
    /\ focus \in Focuses
    /\ IndexerTypeOK /\ EventStoreTypeOK /\ PostgresTypeOK /\ WebhookTypeOK
    /\ ReputationTypeOK /\ OrchestratorTypeOK /\ ShutdownTypeOK /\ RegistryTypeOK
    /\ SellerTypeOK /\ WatcherTypeOK /\ DlqTypeOK /\ BuyerTypeOK
    /\ AuthTypeOK /\ DashboardTxTypeOK /\ DiscoveryTypeOK /\ CheckTypeOK

\* A store of events neither skips nor doubles: who pages to the end has seen all
\* that was there (db.ts), and an event inserted by several batches is stored once
\* and counted by one of them (db-postgres.ts insertMany).
StoreKeeps == PagesMissNothing /\ CountedOnce

\* Work an agent took on stays in one hand and in sight: an exit with 0 cuts off none
\* that was under way at the signal (shared.ts, shutdown), work that failed is in the
\* queue and nowhere else (withRetryAndDlq), and a watcher that was started goes on,
\* with each job locked by the one tick that processes it (watcher.ts).
WorkIsKept == CleanExitIsDrained /\ QueueIsTrue /\ WatcherKeepsWatch
=============================================================================
