----------------------------- MODULE AgentRegistry -----------------------------
(***************************************************************************)
(* The registry of agents and its health monitor (agents/registry:         *)
(* server.ts, src/monitor.ts), with the deregistration of a seller         *)
(* (agents/deregister.ts).  The sellers and their /health are external;    *)
(* so are their manifests on disk, valid unless said otherwise.            *)
(*                                                                         *)
(* The monitor is given the registry's agents and setAgentStatus, as its   *)
(* constructor demands (the README names what server.ts passes instead).   *)
(* Time is the number of heartbeat intervals gone by.                      *)
(***************************************************************************)
EXTENDS Naturals

CONSTANTS
    Agents,
    MISSED_BEATS_LIMIT, failureThreshold,
    MaxTime,        \* bounds the intervals that pass
    MaxForgets      \* bounds the times the monitor forgets an agent

ASSUME RegistryAssumption ==
    /\ MISSED_BEATS_LIMIT \in Nat \ {0} /\ failureThreshold \in Nat \ {0}
    /\ MaxTime \in Nat \ {0} /\ MaxForgets \in Nat

Unknown == [status |-> "unknown", failures |-> 0]

VARIABLES
    now,
    active,         \* activeAgents: agent -> [beat, status], "none" when absent
    states,         \* the monitor's states: agent -> [status, failures]
    monitoring,     \* the monitor's timer is set
    probes,         \* the probe cycle in flight: agents whose /health is awaited
    probing,
    detached,       \* the state a probe goes on writing to after its agent was forgotten
    alerts,         \* alerts that are to be sent
    forgets,
    onChain,        \* deregister.ts: "registered", "gone", or "failed"
    renewed         \* agents that were registered anew since the monitor judged them

registryVars == <<now, active, states, monitoring, probes, probing, detached, alerts, forgets,
                  onChain, renewed>>
monitor == <<states, monitoring, probes, probing, detached, alerts, forgets>>

Absent == [beat |-> 0, status |-> "none"]
Registered(a) == active[a].status # "none"

RegistryInit ==
    /\ now = 1 /\ active = [a \in Agents |-> Absent] /\ states = [a \in Agents |-> Unknown]
    /\ monitoring = TRUE /\ probes = {} /\ probing = FALSE /\ alerts = {} /\ forgets = 0
    /\ detached = [a \in Agents |-> Unknown]
    /\ onChain = [a \in Agents |-> "registered"] /\ renewed = {}

-----------------------------------------------------------------------------
(* server.ts *)

\* Mutant: A heartbeat puts the agent online, whatever the monitor found.
HeartbeatRevives(a) ==
    /\ active' = [active EXCEPT ![a] = [beat |-> now, status |-> "Online"]]
    /\ renewed' = IF Registered(a) THEN renewed ELSE renewed \cup {a}
    /\ UNCHANGED <<now, monitor, onChain>>

\* POST /heartbeat: the entry is written anew, the status of an agent that was
\* there is kept.  Without a key, or without a manifest that validates, nothing
\* is stored.
Heartbeat(a) ==
    /\ active' = [active EXCEPT ![a] =
                    [beat |-> now,
                     status |-> IF Registered(a) THEN active[a].status ELSE "Online"]]
    /\ renewed' = IF Registered(a) THEN renewed ELSE renewed \cup {a}
    /\ UNCHANGED <<now, monitor, onChain>>

isAlive(a) == Registered(a) /\ now - active[a].beat < MISSED_BEATS_LIMIT

\* GET /agents: what is listed.
getAliveAgents == {a \in Agents : isAlive(a) /\ active[a].status = "Online"}
\* GET /agents?include_inactive and GET /agents/:id.
getAgent == {a \in Agents : isAlive(a)}

\* DELETE /agents/:id.  The monitor is not told.
Delete(a) ==
    /\ Registered(a) /\ active' = [active EXCEPT ![a] = Absent]
    /\ UNCHANGED <<now, monitor, onChain, renewed>>

\* The timer of server.ts: agents that missed their beats go.
SweepStale ==
    /\ now < MaxTime /\ now' = now + 1
    /\ active' = [a \in Agents |->
                    IF Registered(a) /\ now' - active[a].beat >= MISSED_BEATS_LIMIT
                    THEN Absent ELSE active[a]]
    /\ UNCHANGED <<monitor, onChain, renewed>>

\* setAgentStatus.
SetStatus(a, status) == IF Registered(a) THEN [active EXCEPT ![a].status = status]
                        ELSE active

-----------------------------------------------------------------------------
(* src/monitor.ts *)

\* getState: what is known, or what the registry shows.
getState(a) == IF states[a] # Unknown THEN states[a]
               ELSE [status |-> active[a].status, failures |-> 0]

\* probeOnce asks every agent there is, unless a cycle is in flight.
ProbeOnce ==
    /\ monitoring /\ ~probing
    /\ probing' = TRUE /\ probes' = {a \in Agents : Registered(a)}
    /\ states' = [a \in Agents |-> IF Registered(a) THEN getState(a) ELSE states[a]]
    /\ UNCHANGED <<now, active, monitoring, detached, alerts, forgets, onChain, renewed>>

EndOfProbe(a) == probes' = probes \ {a} /\ probing' = (probes' # {})

\* A cycle over no agents ends at once.
NothingToProbe ==
    /\ probing /\ probes = {} /\ probing' = FALSE
    /\ UNCHANGED <<now, active, states, monitoring, probes, detached, alerts, forgets, onChain,
                   renewed>>

\* A probe holds the state object it began with, in the map or out of it.
Held(a) == IF detached[a] # Unknown THEN detached[a] ELSE states[a]
Record(a, state) ==
    /\ states' = IF detached[a] # Unknown THEN states ELSE [states EXCEPT ![a] = state]
    /\ detached' = [detached EXCEPT ![a] = Unknown]

\* recordSuccess.
RecordSuccess(a) ==
    /\ a \in probes /\ EndOfProbe(a)
    /\ Record(a, [status |-> "Online", failures |-> 0])
    /\ IF Held(a).status = "Offline"
       THEN active' = SetStatus(a, "Online") /\ renewed' = renewed \ {a}
       ELSE UNCHANGED <<active, renewed>>
    /\ UNCHANGED <<now, monitoring, alerts, forgets, onChain>>

\* recordFailure: a bad answer, none within timeoutMs, or no manifest url.  At
\* the threshold the agent goes offline, once, and its owner is alerted.  The
\* count goes on in the code; past the threshold it tells nothing.
RecordFailure(a) ==
    LET failures == IF Held(a).failures < failureThreshold THEN Held(a).failures + 1
                    ELSE failureThreshold
        goesOff == Held(a).status # "Offline" /\ failures >= failureThreshold
    IN  /\ a \in probes /\ EndOfProbe(a)
        /\ Record(a, [status |-> IF goesOff THEN "Offline" ELSE Held(a).status,
                      failures |-> failures])
        /\ IF goesOff
           THEN /\ active' = SetStatus(a, "Offline") /\ alerts' = alerts \cup {a}
                /\ renewed' = renewed \ {a}
           ELSE UNCHANGED <<active, alerts, renewed>>
        /\ UNCHANGED <<now, monitoring, forgets, onChain>>

\* sendAlert: the owner's webhook takes it or not, it is tried once.
SendAlert ==
    /\ \E a \in alerts : alerts' = alerts \ {a}
    /\ UNCHANGED <<now, active, states, monitoring, probes, probing, detached, forgets, onChain,
                   renewed>>

\* forget, for a caller of the monitor: a probe in flight keeps the old state.
Forget(a) ==
    /\ forgets < MaxForgets /\ states[a] # Unknown
    /\ forgets' = forgets + 1 /\ states' = [states EXCEPT ![a] = Unknown]
    /\ detached' = IF a \in probes THEN [detached EXCEPT ![a] = states[a]] ELSE detached
    /\ UNCHANGED <<now, active, monitoring, probes, probing, alerts, onChain, renewed>>

\* start and stop: a cycle in flight goes on.
StartStop ==
    /\ monitoring' = ~monitoring
    /\ UNCHANGED <<now, active, states, probes, probing, detached, alerts, forgets, onChain,
                   renewed>>

-----------------------------------------------------------------------------
(* deregister.ts *)

\* The identity contract first: a failure there ends the command, a node that
\* cannot be asked does not.
DeregisterOnChain(a) ==
    /\ onChain[a] = "registered"
    /\ onChain' \in {[onChain EXCEPT ![a] = o] : o \in {"gone", "failed"}}
    /\ UNCHANGED <<now, active, monitor, renewed>>

\* Then the registry, which may be offline or answer 404.
NotifyRegistry(a) ==
    /\ onChain[a] = "gone" /\ Delete(a)

RegistryNext ==
    \/ \E a \in Agents : \/ Heartbeat(a) \/ Delete(a) \/ RecordSuccess(a) \/ RecordFailure(a)
                         \/ Forget(a) \/ DeregisterOnChain(a) \/ NotifyRegistry(a)
    \/ SweepStale \/ ProbeOnce \/ NothingToProbe \/ SendAlert \/ StartStop

RegistryTypeOK ==
    /\ now \in 1..MaxTime
    /\ \A a \in Agents : /\ active[a].beat \in 0..now
                         /\ active[a].status \in {"none", "Online", "Offline"}
                         /\ states[a].status \in {"unknown", "none", "Online", "Offline"}
                         /\ states[a].failures \in 0..failureThreshold
                         /\ detached[a] # Unknown => a \in probes
    /\ probes \subseteq Agents /\ probing \in BOOLEAN /\ monitoring \in BOOLEAN
    /\ getAliveAgents \subseteq getAgent

-----------------------------------------------------------------------------
\* An agent that failed its health checks is not listed as online, however often
\* it sends its heartbeat, until a probe succeeds.  The exception is an agent
\* that left the registry and came back, for which the monitor still holds the
\* old verdict: `renewed`.
OfflineIsNotListed ==
    \A a \in getAliveAgents \ renewed : states[a].status # "Offline"
=============================================================================
