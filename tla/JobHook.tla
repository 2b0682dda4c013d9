------------------------------- MODULE JobHook -------------------------------
(***************************************************************************)
(* useJob and useAgent (packages/react/src/hooks): components that show a  *)
(* job or an agent, over one module-level cache and one map of reads in    *)
(* flight.  The two hooks are one piece of code but for useJob's polling.  *)
(* The ledger behind the client is external.                               *)
(*                                                                         *)
(* requestId tells the fetch a hook waits for from those it gave up; since *)
(* only that comparison is made, a fetch is "current" until the number is  *)
(* counted up.                                                             *)
(***************************************************************************)
EXTENDS Naturals, FiniteSets

CONSTANTS
    Mounts,         \* components that use the hook
    MaxVersion,     \* versions of the job; the last one is terminal
    MaxReads,       \* reads of the ledger in flight at once
    MaxFetches      \* fetchJob calls in flight at once

ASSUME JobHookAssumption == MaxVersion \in Nat \ {0} /\ {MaxReads, MaxFetches} \subseteq Nat

NoJob == 0
Versions == 1..MaxVersion
NoRead == 0

VARIABLES
    polls,          \* whether pollIntervalMs is set
    version,        \* external: the job's version on the ledger
    jobCache,       \* the cached version, NoJob when there is none
    isFresh,        \* the entry is younger than ttlMs
    inFlight,       \* the read unforced fetches share
    reads,          \* reads in flight: the version each can see at least
    fetches,        \* fetchJob calls that wait: for the client, or for a read
    hook            \* what each component shows

hookVars == <<polls, version, jobCache, isFresh, inFlight, reads, fetches, hook>>

Fetch == [ m : Mounts, at : {"client", "read"}, read : 0..MaxReads, force : BOOLEAN,
           background : BOOLEAN, current : BOOLEAN ]
Unmounted == [ mounted |-> FALSE, id |-> FALSE, job |-> NoJob, loading |-> FALSE,
               error |-> FALSE, isStale |-> FALSE ]

HookStart(polling) ==
    /\ polls = polling /\ version = 1
    /\ jobCache = NoJob /\ isFresh = FALSE /\ inFlight = NoRead
    /\ reads = [i \in 1..MaxReads |-> NoJob] /\ fetches = {}
    /\ hook = [m \in Mounts |-> Unmounted]

HookInit == \E polling \in BOOLEAN : HookStart(polling)

-----------------------------------------------------------------------------
\* The fetches of a component whose requestId is counted up.
GivenUp(m) == {IF f.m = m THEN [f EXCEPT !.current = FALSE] ELSE f : f \in fetches}

\* fetchJob up to its first await, for a component that shows h.
FetchJob(m, h, force, background) ==
    LET cached == jobCache # NoJob
        fromCache == cached /\ ~force /\ ~background
        h1 == CASE fromCache -> [h EXCEPT !.job = jobCache, !.loading = FALSE,
                                          !.isStale = ~isFresh,
                                          !.error = IF isFresh THEN FALSE ELSE @]
                [] ~cached /\ ~background -> [h EXCEPT !.loading = TRUE, !.isStale = FALSE]
                [] OTHER -> h
        h2 == IF ~cached \/ force THEN [h1 EXCEPT !.error = FALSE] ELSE h1
    IN  CASE ~h.id ->       \* no id: nothing to show
               /\ hook' = [hook EXCEPT ![m] = [h EXCEPT !.job = NoJob, !.loading = FALSE,
                                                 !.error = FALSE, !.isStale = FALSE]]
               /\ fetches' = GivenUp(m)
          [] h.id /\ fromCache /\ isFresh ->
               /\ hook' = [hook EXCEPT ![m] = h1]
               /\ fetches' = GivenUp(m)
          [] OTHER ->
               /\ Cardinality(fetches) < MaxFetches
               /\ hook' = [hook EXCEPT ![m] = h2]
               /\ fetches' = GivenUp(m) \cup
                    {[m |-> m, at |-> "client", read |-> NoRead, force |-> force,
                      background |-> background, current |-> TRUE]}

\* The component is mounted, or its id changes, or it goes: the effect's
\* cleanup counts requestId up, and the effect fetches for the new id.
Mount(m, id) ==
    /\ ~hook[m].mounted
    /\ FetchJob(m, [Unmounted EXCEPT !.mounted = TRUE, !.id = id, !.loading = id], FALSE, FALSE)
    /\ UNCHANGED <<polls, version, jobCache, isFresh, inFlight, reads>>

ChangeId(m) ==
    /\ hook[m].mounted
    /\ FetchJob(m, [hook[m] EXCEPT !.id = ~@], FALSE, FALSE)
    /\ UNCHANGED <<polls, version, jobCache, isFresh, inFlight, reads>>

Unmount(m) ==
    /\ hook[m].mounted
    /\ hook' = [hook EXCEPT ![m] = Unmounted] /\ fetches' = GivenUp(m)
    /\ UNCHANGED <<polls, version, jobCache, isFresh, inFlight, reads>>

Refetch(m) ==
    /\ hook[m].mounted
    /\ FetchJob(m, hook[m], TRUE, FALSE)
    /\ UNCHANGED <<polls, version, jobCache, isFresh, inFlight, reads>>

\* pollTick: not once a terminal job is shown.
PollTick(m) ==
    /\ polls /\ hook[m].mounted /\ hook[m].id /\ hook[m].job # MaxVersion
    /\ FetchJob(m, hook[m], TRUE, TRUE)
    /\ UNCHANGED <<polls, version, jobCache, isFresh, inFlight, reads>>

-----------------------------------------------------------------------------
\* The client is there: an unforced fetch joins the read in flight, any other
\* starts one, and an unforced one offers it to the others.
AskClient(f) ==
    /\ f.at = "client"
    /\ \/ /\ ~f.force /\ inFlight # NoRead
          /\ fetches' = (fetches \ {f}) \cup {[f EXCEPT !.at = "read", !.read = inFlight]}
          /\ UNCHANGED <<inFlight, reads>>
       \/ /\ f.force \/ inFlight = NoRead
          /\ \E i \in 1..MaxReads :
               /\ reads[i] = NoJob /\ \A j \in 1..(i - 1) : reads[j] # NoJob
               /\ reads' = [reads EXCEPT ![i] = version]
               /\ fetches' = (fetches \ {f}) \cup {[f EXCEPT !.at = "read", !.read = i]}
               /\ inFlight' = IF f.force THEN inFlight ELSE i
    /\ UNCHANGED <<polls, version, jobCache, isFresh, hook>>

Waiting(i) == {f \in fetches : f.at = "read" /\ f.read = i}
Ends(i) ==
    /\ reads' = [reads EXCEPT ![i] = NoJob]
    /\ inFlight' = IF inFlight = i THEN NoRead ELSE inFlight
    /\ fetches' = fetches \ Waiting(i)

\* What a fetch that is still current leaves behind: loading ends unless the
\* fetch is a background poll, which never began it.
Finished(h, fs) ==
    [h EXCEPT !.loading = IF \E f \in fs : ~f.background THEN FALSE ELSE @]
Current(i, m) == {f \in Waiting(i) : f.m = m /\ f.current}

\* A read answers.  Every fetch that waited writes the cache, also with an
\* answer older than the one there; the current ones show it.
ReadAnswers(i) ==
    /\ reads[i] # NoJob
    /\ \E v \in reads[i]..version :
         /\ jobCache' = v
         /\ hook' = [m \in Mounts |-> IF Current(i, m) = {} THEN hook[m]
               ELSE Finished([hook[m] EXCEPT !.job = v, !.error = FALSE, !.isStale = FALSE],
                             Current(i, m))]
    /\ isFresh' = TRUE /\ Ends(i)
    /\ UNCHANGED <<polls, version>>

\* A read fails: the error is shown only when nothing is cached.
ReadFails(i) ==
    /\ reads[i] # NoJob
    /\ hook' = [m \in Mounts |-> IF Current(i, m) = {} THEN hook[m]
          ELSE Finished(IF jobCache # NoJob THEN hook[m]
                        ELSE [hook[m] EXCEPT !.job = NoJob, !.error = TRUE], Current(i, m))]
    /\ Ends(i)
    /\ UNCHANGED <<polls, version, jobCache, isFresh>>

Expire ==
    /\ isFresh /\ isFresh' = FALSE
    /\ UNCHANGED <<polls, version, jobCache, inFlight, reads, fetches, hook>>

LedgerMoves ==
    /\ version < MaxVersion /\ version' = version + 1
    /\ UNCHANGED <<polls, jobCache, isFresh, inFlight, reads, fetches, hook>>

\* clearJobCache
ClearJobCache ==
    /\ jobCache' = NoJob /\ isFresh' = FALSE /\ inFlight' = NoRead
    /\ UNCHANGED <<polls, version, reads, fetches, hook>>

HookNext ==
    \/ \E m \in Mounts : \/ \E id \in BOOLEAN : Mount(m, id)
                         \/ ChangeId(m) \/ Unmount(m) \/ Refetch(m) \/ PollTick(m)
    \/ \E f \in fetches : AskClient(f)
    \/ \E i \in 1..MaxReads : ReadAnswers(i) \/ ReadFails(i)
    \/ Expire \/ LedgerMoves \/ ClearJobCache

HookTypeOK ==
    /\ polls \in BOOLEAN /\ version \in Versions
    /\ jobCache \in 0..MaxVersion /\ isFresh \in BOOLEAN
    /\ inFlight \in 0..MaxReads /\ reads \in [1..MaxReads -> 0..MaxVersion]
    /\ fetches \subseteq Fetch
    /\ hook \in [Mounts -> [mounted : BOOLEAN, id : BOOLEAN, job : 0..MaxVersion,
                            loading : BOOLEAN, error : BOOLEAN, isStale : BOOLEAN]]

-----------------------------------------------------------------------------
\* A component that shows its spinner waits for a fetch that will take it away:
\* through shared reads, fetches given up, changes of the id and a cleared
\* cache, none is left loading for ever.  It is said of hooks that do not poll, and
\* of useJob with pollIntervalMs the code breaks it: a poll gives up the first fetch
\* and, being in the background, leaves loading set, beside the job it then shows.
LoadingEnds ==
    ~polls => \A m \in Mounts : hook[m].loading =>
                  \E f \in fetches : f.m = m /\ f.current /\ ~f.background
=============================================================================
