---------------------------- MODULE DashboardStream ----------------------------
(***************************************************************************)
(* How the dashboard's page stays up to date (dashboard/public/app.js): a  *)
(* stream of events that reconnects, where the browser has EventSource, a  *)
(* timer that polls in the meantime, and the pages they render.  The       *)
(* browser (network, tab, user) and the server are external.  Intervals    *)
(* are in tens of seconds.                                                 *)
(***************************************************************************)
EXTENDS Naturals

CONSTANTS
    maxRetryDelay,      \* of the reconnection, in seconds: a power of 2 here
    Intervals,          \* what the refresh select offers; 0 is off
    Routes,
    MaxEvents           \* bounds what the browser, the user and the stream do

ASSUME PageAssumption ==
    /\ maxRetryDelay \in Nat \ {0} /\ MaxEvents \in Nat
    /\ Intervals \subseteq Nat /\ 0 \in Intervals /\ "/" \in Routes

LiveInterval == 6
unset == 99             \* sse.fallbackIntervalMs === null

VARIABLES
    streams,        \* the browser has EventSource
    source,         \* sse.source: "none", "connecting", "live"
    retryTimer,     \* sse.retryTimer is set
    armed,          \* a timeout that will call connectEventStream is running
    retryDelay,     \* sse.retryDelayMs
    interval,       \* pollIntervalMs
    fallback,       \* sse.fallbackIntervalMs
    pollTimer,      \* the interval timer is running
    polling,        \* a poll is in flight, for this route ("no" when none is)
    online, hidden, \* reliability.online, document.hidden
    checks,         \* health checks in flight since the network came back
    route,          \* where the location points
    page,           \* what is on the page
    rendering,      \* renders that await their data
    happened        \* bounds the run

pageVars == <<streams, source, retryTimer, armed, retryDelay, interval, fallback, pollTimer,
                polling, online, hidden, checks, route, page, rendering, happened>>
sse == <<streams, source, retryTimer, armed, retryDelay>>
network == <<online, checks>>
timers == <<interval, fallback, pollTimer>>
view == <<route, page, rendering>>

\* The script has run: the stream is being opened, if there can be one, the timer is
\* on, the page is being rendered.
StreamPageStart(has, seconds, opened) ==
    /\ streams = has /\ source = (IF has THEN "connecting" ELSE "none")
    /\ retryTimer = FALSE /\ armed = FALSE /\ retryDelay = 1
    /\ checks = 0 /\ interval = seconds /\ fallback = unset /\ pollTimer = (seconds # 0)
    /\ polling = "no" /\ online = TRUE /\ hidden = FALSE
    /\ route = opened /\ page = opened /\ rendering = {opened} /\ happened = 0

StreamPageInit ==
    \E has \in BOOLEAN, seconds \in Intervals, opened \in Routes :
        StreamPageStart(has, seconds, opened)

Happens == happened < MaxEvents /\ happened' = happened + 1

\* startPolling with the interval there is from now on.
StartPolling == pollTimer' = (interval' # 0)

-----------------------------------------------------------------------------
(* The stream *)

\* Mutant: The timer that fired is still held for scheduled.
RetryKeepsTimer ==
    /\ armed /\ armed' = FALSE /\ source' = "connecting"
    /\ UNCHANGED <<streams, retryTimer, retryDelay, timers, polling, network, hidden, view,
                   happened>>

\* connectEventStream, from the reconnection timer.
RetryFires ==
    /\ armed /\ armed' = FALSE /\ retryTimer' = FALSE /\ source' = "connecting"
    /\ UNCHANGED <<streams, retryDelay, timers, polling, network, hidden, view, happened>>

\* es.onopen with applyLivePolling: polling slows down, unless it is off.
StreamOpens ==
    /\ source = "connecting" /\ source' = "live" /\ retryDelay' = 1
    /\ fallback' = IF fallback = unset THEN interval ELSE fallback
    /\ interval' = IF interval = 0 THEN 0 ELSE LiveInterval
    /\ IF interval = 0 THEN UNCHANGED pollTimer ELSE StartPolling
    /\ UNCHANGED <<streams, retryTimer, armed, polling, network, hidden, view, happened>>

\* es.onerror, or an EventSource that cannot be made: restoreFallbackPolling and
\* scheduleReconnect, which does nothing while a reconnection is scheduled.
StreamFails ==
    /\ source # "none" /\ source' = "none" /\ Happens /\ UNCHANGED streams
    /\ IF fallback = unset THEN UNCHANGED timers
       ELSE interval' = fallback /\ fallback' = unset /\ StartPolling
    /\ IF retryTimer THEN UNCHANGED <<retryTimer, armed, retryDelay>>
       ELSE /\ retryTimer' = TRUE /\ armed' = TRUE
            /\ retryDelay' = IF 2 * retryDelay > maxRetryDelay THEN maxRetryDelay
                             ELSE 2 * retryDelay
    /\ UNCHANGED <<polling, network, hidden, view>>

-----------------------------------------------------------------------------
(* Polling *)

\* poll(): nothing while one is in flight, or offline.
MayPoll == polling = "no" /\ online
Poll == polling' = IF MayPoll THEN route ELSE polling

PagePollTick ==
    /\ pollTimer /\ MayPoll /\ Poll
    /\ UNCHANGED <<sse, timers, network, hidden, view, happened>>

\* The data has come, or did not: what changed is rendered for the route of the poll.
\* The overview loads its data once more to be rendered.
PollEnds(changed) ==
    /\ polling # "no" /\ polling' = "no"
    /\ IF ~changed THEN UNCHANGED <<page, rendering>>
       ELSE IF polling = "/" THEN rendering' = rendering \cup {"/"} /\ page' = "/"
       ELSE page' = polling /\ UNCHANGED rendering
    /\ UNCHANGED <<sse, timers, network, hidden, route, happened>>

\* __setRefreshInterval; the fallback of a live stream is not told.
SetRefreshInterval(ms) ==
    /\ Happens /\ interval' = ms /\ StartPolling
    /\ UNCHANGED <<sse, fallback, polling, network, hidden, view>>

\* visibilitychange
Hide ==
    /\ ~hidden /\ Happens /\ hidden' = TRUE /\ pollTimer' = FALSE
    /\ UNCHANGED <<sse, interval, fallback, polling, network, view>>
Show ==
    /\ hidden /\ hidden' = FALSE /\ UNCHANGED <<interval, fallback>> /\ StartPolling /\ Poll
    /\ UNCHANGED <<sse, network, view, happened>>

\* handleOffline, and handleReconnect up to its health check.
GoOffline ==
    /\ online /\ Happens /\ online' = FALSE /\ pollTimer' = FALSE
    /\ UNCHANGED <<sse, interval, fallback, polling, hidden, checks, view>>
GoOnline ==
    /\ ~online /\ online' = TRUE /\ checks' = checks + 1
    /\ UNCHANGED <<sse, timers, polling, hidden, view, happened>>

\* The health check is over, whatever came of it and of the network meanwhile.
HealthChecked ==
    /\ checks > 0 /\ checks' = checks - 1
    /\ UNCHANGED <<interval, fallback>> /\ StartPolling /\ Poll
    /\ UNCHANGED <<sse, online, hidden, view, happened>>

-----------------------------------------------------------------------------
(* Pages *)

\* navigate: the new page shows its skeleton and loads its data.
Navigate(target) ==
    /\ target # route /\ Happens /\ route' = target /\ page' = target
    /\ rendering' = rendering \cup {target}
    /\ UNCHANGED <<sse, timers, polling, network, hidden>>

\* A render has its data and sets the page, without a look at the route.
RenderEnds(target) ==
    /\ target \in rendering /\ rendering' = rendering \ {target} /\ page' = target
    /\ UNCHANGED <<sse, timers, polling, network, hidden, route, happened>>

\* handleStreamEvent: an invalidation polls, which a poll in flight swallows; anything
\* else refreshes the current view.
StreamEvent(invalidate) ==
    /\ source = "live" /\ Happens
    /\ IF invalidate THEN Poll /\ UNCHANGED rendering
       ELSE rendering' = rendering \cup {route} /\ UNCHANGED polling
    /\ UNCHANGED <<sse, timers, network, hidden, route, page>>

StreamPageNext ==
    \/ RetryFires \/ StreamOpens \/ StreamFails
    \/ PagePollTick \/ Hide \/ Show \/ GoOffline \/ GoOnline \/ HealthChecked
    \/ \E yes \in BOOLEAN : PollEnds(yes) \/ StreamEvent(yes)
    \/ \E ms \in Intervals : SetRefreshInterval(ms)
    \/ \E target \in Routes : Navigate(target) \/ RenderEnds(target)

StreamPageTypeOK ==
    /\ source \in {"none", "connecting", "live"}
    /\ {streams, retryTimer, armed, pollTimer} \subseteq BOOLEAN
    /\ retryDelay \in 1 .. maxRetryDelay
    /\ interval \in Intervals \cup {LiveInterval}
    /\ fallback \in Intervals \cup {LiveInterval, unset}
    /\ polling \in Routes \cup {"no"} /\ {online, hidden} \subseteq BOOLEAN /\ checks \in Nat
    /\ route \in Routes /\ page \in Routes /\ rendering \subseteq Routes

Deaf == streams /\ source = "none" /\ ~armed
Polled == pollTimer \/ checks > 0

\* Whatever order failures, retries, visits and losses of the network come in, the page
\* keeps itself up to date (app.js).  Where the browser has EventSource it is connected,
\* being connected, or will try again (scheduleReconnect), and the polling interval that
\* a live stream put aside is back in force when it is gone.  With or without a stream,
\* unless the user turned it off, a page that is seen and online polls, or a health
\* check under way will have it poll.
NeverDeaf ==
    /\ ~Deaf /\ (source = "none" => fallback = unset)
    /\ online /\ ~hidden /\ interval # 0 => Polled
=============================================================================
