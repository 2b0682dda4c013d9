------------------------------ MODULE JobWatcher ------------------------------
(***************************************************************************)
(* The watcher that refunds expired jobs (agents/watcher/watcher.ts:       *)
(* JobExpirationWatcher).  The indexer, whose answer may be old, the       *)
(* contract and the keeper are external.                                   *)
(***************************************************************************)
EXTENDS Naturals, FiniteSets

CONSTANTS
    WatchedJobs,
    MaxTicks        \* bounds the ticks of a behaviour

ASSUME WatcherAssumption == MaxTicks \in Nat

VARIABLES
    watching,       \* running
    timer,          \* this.timer is set and has not fired
    others,         \* timers that are set and that this.timer no longer names
    ticked,         \* ticks that began
    tick,           \* tick -> "unused", "asking" the indexer, "working" or "over"
    work,           \* tick -> job -> where its doProcess is: "none", "reading", "refunding"
    inFlight,       \* the Set, and with it the locks
    stopping,       \* stop() calls that wait: the jobs whose locks they took
    refunded,       \* what the watcher emitted
    jobOnChain      \* external: "Funded", "Submitted" or "Cancelled"

timers == <<watching, timer, others>>
watcherVars == <<timers, ticked, tick, work, inFlight, stopping, refunded, jobOnChain>>

Ticks == 1..MaxTicks
InFlightTick(t) == tick[t] \in {"asking", "working"}

WatcherInit ==
    /\ watching = FALSE /\ timer = FALSE /\ others = 0 /\ ticked = 0
    /\ tick = [t \in Ticks |-> "unused"]
    /\ work = [t \in Ticks |-> [j \in WatchedJobs |-> "none"]]
    /\ inFlight = {} /\ stopping = {} /\ refunded = {}
    /\ jobOnChain = [j \in WatchedJobs |-> "Funded"]

\* scheduleNext sets a timer and clears none.
ScheduleNext == timer' = TRUE /\ others' = IF timer THEN others + 1 ELSE others

\* start, when it is not watching.
StartWatcher ==
    /\ ~watching /\ watching' = TRUE /\ ScheduleNext
    /\ UNCHANGED <<ticked, tick, work, inFlight, stopping, refunded, jobOnChain>>

\* stop clears this.timer and waits for the jobs whose locks it finds.  It does not
\* wait for a tick that still asks the indexer, whose jobs are locked and refunded
\* after stop has returned; and a start before a tick ends makes two chains of timers.
StopWatcher ==
    /\ watching' = FALSE /\ timer' = FALSE
    /\ stopping' = stopping \cup {inFlight}
    /\ UNCHANGED <<others, ticked, tick, work, inFlight, refunded, jobOnChain>>

WatcherStopped ==
    /\ \E waited \in stopping : waited \cap inFlight = {} /\ stopping' = stopping \ {waited}
    /\ UNCHANGED <<timers, ticked, tick, work, inFlight, refunded, jobOnChain>>

\* A timer fires, whether the watcher runs or not, and its tick asks the indexer.
TickBegins ==
    /\ ticked < MaxTicks /\ ticked' = ticked + 1
    /\ \/ timer /\ timer' = FALSE /\ UNCHANGED others
       \/ others > 0 /\ others' = others - 1 /\ UNCHANGED timer
    /\ tick' = [tick EXCEPT ![ticked + 1] = "asking"]
    /\ UNCHANGED <<watching, work, inFlight, stopping, refunded, jobOnChain>>

\* findExpiredFundedJobs answers, with jobs that may have been refunded since, or fails,
\* which is as good as none.  Each job of the answer that is not in flight is locked and
\* processed; one that is, is skipped.
IndexerAnswers(t) ==
    /\ tick[t] = "asking" /\ tick' = [tick EXCEPT ![t] = "working"]
    /\ \E expired \in SUBSET WatchedJobs :
         /\ inFlight' = inFlight \cup expired
         /\ work' = [work EXCEPT ![t] = [j \in WatchedJobs |->
                        IF j \in expired \ inFlight THEN "reading" ELSE "none"]]
    /\ UNCHANGED <<timers, ticked, stopping, refunded, jobOnChain>>

Stage(t, j, stage) == work' = [work EXCEPT ![t][j] = stage]

\* processJob's finally.
Release(t, j) == inFlight' = inFlight \ {j} /\ Stage(t, j, "none")

\* getJob answers; only a job that is Funded goes on.
ReadJob(t, j) ==
    /\ work[t][j] = "reading"
    /\ IF jobOnChain[j] = "Funded" THEN Stage(t, j, "refunding") /\ UNCHANGED inFlight
       ELSE Release(t, j)
    /\ UNCHANGED <<timers, ticked, tick, stopping, refunded, jobOnChain>>

ReadFails(t, j) ==
    /\ work[t][j] = "reading" /\ Release(t, j)
    /\ UNCHANGED <<timers, ticked, tick, stopping, refunded, jobOnChain>>

\* refundJob.  The action is always "cancel": a Funded job is not Submitted.
Refunded(t, j) ==
    /\ work[t][j] = "refunding" /\ jobOnChain[j] = "Funded"
    /\ jobOnChain' = [jobOnChain EXCEPT ![j] = "Cancelled"]
    /\ refunded' = refunded \cup {j} /\ Release(t, j)
    /\ UNCHANGED <<timers, ticked, tick, stopping>>

\* It throws: refused by the contract, or its answer lost.
RefundFails(t, j) ==
    /\ work[t][j] = "refunding" /\ Release(t, j)
    /\ jobOnChain' \in {jobOnChain} \cup
         IF jobOnChain[j] = "Funded" THEN {[jobOnChain EXCEPT ![j] = "Cancelled"]} ELSE {}
    /\ UNCHANGED <<timers, ticked, tick, stopping, refunded>>

\* A tick whose jobs are all done schedules the next, if the watcher runs.
TickEnds(t) ==
    /\ tick[t] = "working" /\ \A j \in WatchedJobs : work[t][j] = "none"
    /\ tick' = [tick EXCEPT ![t] = "over"]
    /\ IF watching THEN ScheduleNext ELSE UNCHANGED <<timer, others>>
    /\ UNCHANGED <<watching, ticked, work, inFlight, stopping, refunded, jobOnChain>>

\* The provider submits its work.
ProviderSubmits(j) ==
    /\ jobOnChain[j] = "Funded" /\ jobOnChain' = [jobOnChain EXCEPT ![j] = "Submitted"]
    /\ UNCHANGED <<timers, ticked, tick, work, inFlight, stopping, refunded>>

WatcherNext ==
    \/ StartWatcher \/ StopWatcher \/ WatcherStopped \/ TickBegins
    \/ \E t \in Ticks :
         \/ IndexerAnswers(t) \/ TickEnds(t)
         \/ \E j \in WatchedJobs : \/ ReadJob(t, j) \/ ReadFails(t, j)
                                   \/ Refunded(t, j) \/ RefundFails(t, j)
    \/ \E j \in WatchedJobs : ProviderSubmits(j)

WatcherTypeOK ==
    /\ watching \in BOOLEAN /\ timer \in BOOLEAN /\ others \in 0..MaxTicks
    /\ inFlight \subseteq WatchedJobs
    /\ ticked \in 0..MaxTicks /\ tick \in [Ticks -> {"unused", "asking", "working", "over"}]

-----------------------------------------------------------------------------
\* Stops and starts may come while ticks ask the indexer or refund, and leave two
\* chains of timers; then still (watcher.ts, tick, processJob and scheduleNext): no two
\* ticks process one job, a lock is held as long as one tick processes its job and never
\* longer, or the watcher would skip the job for ever; a watcher that was started has a
\* timer, or a tick in flight that will set one; and a refund is announced only of a job
\* that the contract cancelled, although the indexer's answers are old.
WatcherKeepsWatch ==
    /\ \A t, u \in Ticks, j \in WatchedJobs :
         work[t][j] # "none" /\ work[u][j] # "none" => t = u
    /\ inFlight = {j \in WatchedJobs : \E t \in Ticks : work[t][j] # "none"}
    /\ watching => timer \/ others > 0 \/ \E t \in Ticks : InFlightTick(t)
    /\ \A j \in refunded : jobOnChain[j] = "Cancelled"
=============================================================================
