---------------------------- MODULE AgentRuntime -----------------------------
(***************************************************************************)
(* Work that is retried and, when that fails, kept (agents/shared.ts):     *)
(* withRetry, withRetryAndDlq, persistToDeadLetterQueue, replayDeadLetter- *)
(* Job and replayPendingDeadLetterJobs.  The work and the store are        *)
(* external; either may fail, and a store that fails may have stored.      *)
(***************************************************************************)
EXTENDS Naturals, FiniteSets

CONSTANTS
    DlqJobs,
    Replayers,      \* calls of replayPendingDeadLetterJobs, at the same time
    maxRetries

ASSUME DlqAssumption == maxRetries \in Nat

VARIABLES
    storeSet,       \* setDeadLetterQueueStore was called
    run,            \* job -> [at, attempt] of its withRetryAndDlq
    letter,         \* job -> status of its record, or "none"
    executed,       \* external: jobs whose work was done at least once
    replay          \* replayer -> [at, todo, job, attempt]

dlqVars == <<storeSet, run, letter, executed, replay>>

Resting == [at |-> "idle", todo |-> {}, job |-> "none", attempt |-> 0]

DlqStart(set) ==
    /\ storeSet = set
    /\ run = [j \in DlqJobs |-> [at |-> "idle", attempt |-> 0]]
    /\ letter = [j \in DlqJobs |-> "none"] /\ executed = {}
    /\ replay = [r \in Replayers |-> Resting]

DlqInit == \E set \in BOOLEAN : DlqStart(set)

-----------------------------------------------------------------------------
\* withRetryAndDlq calls the work.
Run(j) ==
    /\ run[j].at \in {"idle", "sleeping"}
    /\ run' = [run EXCEPT ![j].at = "working"]
    /\ UNCHANGED <<storeSet, letter, executed, replay>>

\* Work that was done before is done again, for all that withRetry knows.
WorkDone(j) ==
    /\ run[j].at = "working"
    /\ run' = [run EXCEPT ![j].at = "returned"] /\ executed' = executed \cup {j}
    /\ UNCHANGED <<storeSet, letter, replay>>

\* The error is retryable and retries are left, or it is kept as a letter.  The
\* work may have been done although its answer is an error.
WorkFails(j) ==
    /\ run[j].at = "working"
    /\ \E retryable \in BOOLEAN :
         run' = IF retryable /\ run[j].attempt < maxRetries
                THEN [run EXCEPT ![j] = [at |-> "sleeping", attempt |-> @.attempt + 1]]
                ELSE [run EXCEPT ![j].at = "saving"]
    /\ executed' \in {executed, executed \cup {j}}
    /\ UNCHANGED <<storeSet, letter, replay>>

\* save lands; from now on a replayer may find the letter.
LetterLands(j) ==
    /\ run[j].at = "saving" /\ storeSet /\ letter[j] = "none"
    /\ letter' = [letter EXCEPT ![j] = "pending"]
    /\ UNCHANGED <<storeSet, run, executed, replay>>

\* save answers, and the work's own error is thrown on.
LetterSaved(j) ==
    /\ run[j].at = "saving" /\ letter[j] # "none"
    /\ run' = [run EXCEPT ![j].at = "threw"]
    /\ UNCHANGED <<storeSet, letter, executed, replay>>

\* There is no store, or it fails, or its answer is lost: its error is thrown, the work's
\* own is lost.
SaveFails(j) ==
    /\ run[j].at = "saving"
    /\ run' = [run EXCEPT ![j].at = "threwStores"]
    /\ UNCHANGED <<storeSet, letter, executed, replay>>

-----------------------------------------------------------------------------
\* replayPendingDeadLetterJobs lists once and replays one letter after the other.
ListPending(r) ==
    /\ storeSet /\ replay[r].at = "idle"
    /\ LET pending == {j \in DlqJobs : letter[j] = "pending"} IN
         pending # {} /\ replay' = [replay EXCEPT ![r].at = "next", ![r].todo = pending]
    /\ UNCHANGED <<storeSet, run, letter, executed>>

\* replayDeadLetterJob reads the letter and does not look at its status: another
\* replayer may have resolved it.
GetLetter(r) ==
    /\ replay[r].at = "next" /\ replay[r].todo # {}
    /\ \E j \in replay[r].todo :
         replay' = [replay EXCEPT ![r] = [at |-> "working", todo |-> @.todo \ {j},
                                          job |-> j, attempt |-> 0]]
    /\ UNCHANGED <<storeSet, run, letter, executed>>

ReplayDone(r) ==
    /\ replay[r].at = "next" /\ replay[r].todo = {}
    /\ replay' = [replay EXCEPT ![r] = Resting]
    /\ UNCHANGED <<storeSet, run, letter, executed>>

ReplaySucceeds(r) ==
    /\ replay[r].at = "working"
    /\ executed' = executed \cup {replay[r].job}
    /\ replay' = [replay EXCEPT ![r].at = "resolving"]
    /\ UNCHANGED <<storeSet, run, letter>>

ReplayFails(r) ==
    /\ replay[r].at = "working"
    /\ \E retryable \in BOOLEAN :
         replay' = IF retryable /\ replay[r].attempt < maxRetries
                   THEN [replay EXCEPT ![r].attempt = @ + 1]
                   ELSE [replay EXCEPT ![r].at = "givingUp"]
    /\ executed' \in {executed, executed \cup {replay[r].job}}
    /\ UNCHANGED <<storeSet, run, letter>>

\* markReplayed: "resolved" after a success; a failure, and a success that could
\* not be marked, are "replayed", which no later replayPending lists.
Marks(r, status) == letter' = [letter EXCEPT ![replay[r].job] = status]

MarkResolved(r) ==
    /\ replay[r].at = "resolving"
    /\ \/ Marks(r, "resolved") /\ replay' = [replay EXCEPT ![r].at = "next"]
       \/ UNCHANGED letter /\ replay' = [replay EXCEPT ![r].at = "givingUp"]
    /\ UNCHANGED <<storeSet, run, executed>>

\* If that throws too, so does replayPending, and the rest of the list waits.
MarkReplayed(r) ==
    /\ replay[r].at = "givingUp"
    /\ \/ Marks(r, "replayed") /\ replay' = [replay EXCEPT ![r].at = "next"]
       \/ UNCHANGED letter /\ replay' = [replay EXCEPT ![r] = Resting]
    /\ UNCHANGED <<storeSet, run, executed>>

DlqNext ==
    \/ \E j \in DlqJobs : \/ Run(j) \/ WorkDone(j) \/ WorkFails(j)
                         \/ LetterLands(j) \/ LetterSaved(j) \/ SaveFails(j)
    \/ \E r \in Replayers : \/ ListPending(r) \/ GetLetter(r) \/ ReplayDone(r)
                            \/ ReplaySucceeds(r) \/ ReplayFails(r) \/ MarkResolved(r)
                            \/ MarkReplayed(r)

DlqTypeOK ==
    /\ storeSet \in BOOLEAN
    /\ \A j \in DlqJobs : run[j].attempt \in 0..maxRetries
    /\ letter \in [DlqJobs -> {"none", "pending", "replayed", "resolved"}]
    /\ \A r \in Replayers : replay[r].todo \subseteq DlqJobs

\* Work is in one hand before it is in the queue, and the queue tells the truth of it
\* (shared.ts, withRetryAndDlq and replayDeadLetterJob): a letter exists, and a replayer
\* works, only when withRetry has given the work up for good, so that the two never work
\* at once; a caller that got the work's own error finds the work in the queue; and what
\* the queue calls resolved was done.  This although several replayers work at one letter
\* and mark it in any order, marks fail, and answers of the store are lost.  (A letter
\* whose one replay failed is "replayed" and listed to nobody again: the code keeps it,
\* and does not retry it.)
GivenUp(j) == run[j].at \in {"saving", "threw", "threwStores"}
QueueIsTrue ==
    /\ \A j \in DlqJobs : letter[j] # "none" => GivenUp(j)
    /\ \A r \in Replayers : replay[r].at \notin {"idle", "next"} => GivenUp(replay[r].job)
    /\ \A j \in DlqJobs : run[j].at = "threw" => letter[j] # "none"
    /\ \A j \in DlqJobs : letter[j] = "resolved" => j \in executed

-----------------------------------------------------------------------------
(***************************************************************************)
(* The end of an agent's process (agents/shared.ts): createActiveTask-     *)
(* Tracker and registerGracefulShutdown.  The http server is external: it  *)
(* is asked to close, takes nothing new from then on, and calls back when  *)
(* its last connection has ended.  A request's handler may start a task,   *)
(* which outlives the request: sellers answer first and work later.        *)
(***************************************************************************)
CONSTANTS
    Requests,       \* each is one connection, and the task its handler starts
    Registrations   \* calls of registerGracefulShutdown, each with its handlers

VARIABLES
    connection,     \* "none", "open" (the handler runs) or "ended"
    task,           \* "none", "running", "settled"
    tasks,          \* the tracker's Set
    early,          \* history: requests whose handlers had answered before the signal
    listening,
    handlers,       \* registrations whose signal handlers are installed
    shutdownAt,     \* per registration: "idle", "draining", "closing", "done"
    awaited,        \* per registration: what awaitAll took from the tracker
    drained,        \* per registration: awaitAll's answer
    dbOpen,
    exitCode        \* of the process: 0, 1, or 9 while it runs

shutdownVars == <<connection, task, tasks, early, listening, handlers, shutdownAt, awaited,
                  drained, dbOpen, exitCode>>
process == <<listening, handlers, shutdownAt, awaited, drained, dbOpen, exitCode>>

Alive == exitCode = 9

ShutdownInit ==
    /\ connection = [r \in Requests |-> "none"] /\ task = [r \in Requests |-> "none"]
    /\ tasks = {} /\ early = {} /\ listening = TRUE
    /\ handlers = Registrations
    /\ shutdownAt = [h \in Registrations |-> "idle"]
    /\ awaited = [h \in Registrations |-> {}]
    /\ drained = [h \in Registrations |-> FALSE]
    /\ dbOpen = TRUE /\ exitCode = 9

-----------------------------------------------------------------------------
(* The server and its tasks *)

Accept(r) ==
    /\ Alive /\ listening /\ connection[r] = "none"
    /\ connection' = [connection EXCEPT ![r] = "open"]
    /\ UNCHANGED <<task, tasks, early, process>>

\* The handler answers, and tracks the work it goes on with; or it refuses.
Answer(r) ==
    /\ Alive /\ connection[r] = "open"
    /\ connection' = [connection EXCEPT ![r] = "ended"]
    /\ \/ task' = [task EXCEPT ![r] = "running"] /\ tasks' = tasks \cup {r}
       \/ UNCHANGED <<task, tasks>>
    /\ early' = IF listening THEN early \cup {r} ELSE early
    /\ UNCHANGED process

\* Mutant: A task that failed or succeeded stays in the tracker's set.
SettleLeaks(r) ==
    /\ Alive /\ task[r] = "running"
    /\ task' = [task EXCEPT ![r] = "settled"]
    /\ UNCHANGED <<tasks, early, connection, process>>

\* A task that is tracked leaves the set when it has succeeded or failed.
Settle(r) ==
    /\ Alive /\ task[r] = "running"
    /\ task' = [task EXCEPT ![r] = "settled"] /\ tasks' = tasks \ {r}
    /\ UNCHANGED <<early, connection, process>>

-----------------------------------------------------------------------------
(* shutdown *)

\* SIGTERM or SIGINT: every registration installed its own handlers, each with
\* its own shuttingDown.  The server is asked to close, and awaitAll takes the
\* tasks there are: with none it has its answer at once.
Signal ==
    /\ Alive /\ \E h \in handlers : shutdownAt[h] = "idle"
    /\ listening' = FALSE
    /\ LET told == {h \in handlers : shutdownAt[h] = "idle"} IN
         /\ awaited' = [h \in Registrations |-> IF h \in told THEN tasks ELSE awaited[h]]
         /\ drained' = [h \in Registrations |->
                          IF h \in told THEN tasks = {} ELSE drained[h]]
         /\ shutdownAt' = [h \in Registrations |->
                             IF h \notin told THEN shutdownAt[h]
                             ELSE IF tasks = {} THEN "closing" ELSE "draining"]
    /\ UNCHANGED <<connection, task, tasks, early, handlers, dbOpen, exitCode>>

AllSettled(h) == \A r \in awaited[h] : task[r] = "settled"

\* Mutant: The timer counts as drained.
DrainedByTimer(h) ==
    /\ Alive /\ shutdownAt[h] = "draining"
    /\ drained' = [drained EXCEPT ![h] = TRUE]
    /\ shutdownAt' = [shutdownAt EXCEPT ![h] = "closing"]
    /\ UNCHANGED <<connection, task, tasks, early, listening, handlers, awaited, dbOpen, exitCode>>

\* The race of awaitAll: everything it took has settled, or the timer fired.
Drained(h) ==
    /\ Alive /\ shutdownAt[h] = "draining"
    /\ drained' \in {[drained EXCEPT ![h] = d] : d \in {AllSettled(h), FALSE}}
    /\ shutdownAt' = [shutdownAt EXCEPT ![h] = "closing"]
    /\ UNCHANGED <<connection, task, tasks, early, listening, handlers, awaited, dbOpen, exitCode>>

\* The server has closed: nothing bounds this wait, since the timer is over.
ServerClosed == ~listening /\ \A r \in Requests : connection[r] # "open"

\* A drained process closes its database and exits 0, another one exits 1.
Exit(h) ==
    /\ Alive /\ shutdownAt[h] = "closing" /\ ServerClosed
    /\ IF drained[h] THEN dbOpen' = FALSE /\ exitCode' = 0
       ELSE exitCode' = 1 /\ UNCHANGED dbOpen
    /\ shutdownAt' = [shutdownAt EXCEPT ![h] = "done"]
    /\ UNCHANGED <<connection, task, tasks, early, listening, handlers, awaited, drained>>

\* What registerGracefulShutdown returned.
Unregister(h) ==
    /\ Alive /\ h \in handlers /\ handlers' = handlers \ {h}
    /\ UNCHANGED <<connection, task, tasks, early, listening, shutdownAt, awaited, drained,
                   dbOpen, exitCode>>

ShutdownNext ==
    \/ \E r \in Requests : Accept(r) \/ Answer(r) \/ Settle(r)
    \/ Signal
    \/ \E h \in Registrations : Drained(h) \/ Exit(h) \/ Unregister(h)

ShutdownTypeOK ==
    /\ connection \in [Requests -> {"none", "open", "ended"}]
    /\ task \in [Requests -> {"none", "running", "settled"}]
    /\ tasks = {r \in Requests : task[r] = "running"}
    /\ early \subseteq Requests
    /\ listening \in BOOLEAN /\ dbOpen \in BOOLEAN /\ exitCode \in {0, 1, 9}
    /\ handlers \subseteq Registrations
    /\ shutdownAt \in [Registrations -> {"idle", "draining", "closing", "done"}]
    /\ awaited \in [Registrations -> SUBSET Requests]
    /\ drained \in [Registrations -> BOOLEAN]

-----------------------------------------------------------------------------
\* What an exit with 0, and a closed database, stand for: every request that was answered
\* before the signal has its task settled, and no request is being handled.  The rest
\* that an exit with 0 can cut off is a task that began after the signal, of a request
\* accepted before it: awaitAll took its list of tasks at the signal, and the code does
\* not look again (shared.ts, shutdown).
CleanExitIsDrained ==
    exitCode = 0 \/ ~dbOpen =>
        /\ exitCode = 0 /\ ~dbOpen
        /\ \A r \in Requests : connection[r] # "open"
        /\ \A r \in early : task[r] # "running"
=============================================================================
