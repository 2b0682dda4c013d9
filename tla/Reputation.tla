------------------------------ MODULE Reputation ------------------------------
(***************************************************************************)
(* The reputation of an agent (indexer/src/reputation.ts): the score from  *)
(* its events, computed by computeReputation for one agent and by          *)
(* recalculateAllReputations for all, each over several awaited reads and  *)
(* writes of the store.                                                    *)
(*                                                                         *)
(* Scores are in thousandths, rounded down; the source computes in floats. *)
(* A completion took half the reference time or less, the reference time,  *)
(* twice as long or more, or an unknown time.                              *)
(***************************************************************************)
EXTENDS Integers, Sequences, SequencesExt, FiniteSets

CONSTANTS
    RatedAgents,
    MaxJobEvents,   \* events of the log
    MaxComputations \* computations in flight at once

ASSUME ReputationAssumption == {MaxJobEvents, MaxComputations} \subseteq Nat

PRIOR_WEIGHT == 10
PRIOR_MEAN == 70000
DISPUTE_PENALTY == 15000
CANCELLATION_PENALTY == 5000
MAX_PENALTY == 100000
Completions == {"fast", "onTime", "slow", "unknown"}
JobEventTypes == Completions \cup {"JobDisputed", "JobCancelled"}

Clamp(value, min, max) == IF value < min THEN min ELSE IF value > max THEN max ELSE value

-----------------------------------------------------------------------------
(* Scores *)

\* aggregateMetrics: how many events of each type an agent has.
AggregateMetrics(agent, log) ==
    [type \in JobEventTypes |->
        Cardinality({i \in DOMAIN log : log[i].agentId = agent /\ log[i].type = type})]

\* ratingForCompletion: the reference time by the time taken, within a half and
\* one and a half; 105 is cut to 100.
RatingForCompletion(type) ==
    CASE type = "fast" -> 100000 [] type = "slow" -> 35000 [] OTHER -> PRIOR_MEAN

\* bayesianAverage of ratingsForAgent.
BayesianAverage(metrics) ==
    LET usual == metrics["onTime"] + metrics["unknown"]
        n == metrics["fast"] + metrics["slow"] + usual
        sum == metrics["fast"] * RatingForCompletion("fast")
                 + metrics["slow"] * RatingForCompletion("slow") + usual * PRIOR_MEAN
    IN  Clamp((PRIOR_WEIGHT * PRIOR_MEAN + sum) \div (PRIOR_WEIGHT + n), 0, 100000)

\* computePenalty
ComputePenalty(metrics) ==
    Clamp(metrics["JobDisputed"] * DISPUTE_PENALTY
            + metrics["JobCancelled"] * CANCELLATION_PENALTY, 0, MAX_PENALTY)

\* scoreFromMetrics.
ScoreFromMetrics(agent, log) ==
    LET metrics == AggregateMetrics(agent, log)
    IN  Clamp(BayesianAverage(metrics) - ComputePenalty(metrics), 0, 100000)

\* percentileRank: how many of the agents with events, and the agent itself,
\* have a lower score, and of how many.
PercentileRank(score, agents, log) ==
    <<Cardinality({a \in agents : ScoreFromMetrics(a, log) < score}), Cardinality(agents)>>

AgentsOf(log) == {e.agentId : e \in ToSet(log)}

-----------------------------------------------------------------------------
VARIABLES
    jobLog,         \* external: the events
    computing,      \* computations in flight
    saved           \* the reputation saved for each agent

reputationVars == <<jobLog, computing, saved>>

NoReputation == [score |-> -1, rank |-> <<0, 0>>]

ReputationInit ==
    /\ jobLog = <<>> /\ computing = {}
    /\ saved = [a \in RatedAgents |-> NoReputation]

JobEventHappens ==
    /\ Len(jobLog) < MaxJobEvents
    /\ \E a \in RatedAgents, type \in JobEventTypes :
         jobLog' = Append(jobLog, [agentId |-> a, type |-> type])
    /\ UNCHANGED <<computing, saved>>

\* computeReputation reads the agent's events and computes its score.
ReadAgent ==
    /\ Cardinality(computing) < MaxComputations
    /\ \E a \in RatedAgents :
         computing' = computing \cup
             {[at |-> "rank", left |-> {a}, log |-> jobLog,
               score |-> ScoreFromMetrics(a, jobLog), rank |-> <<0, 0>>]}
    /\ UNCHANGED <<jobLog, saved>>

\* Then all events are read, later ones among them, for the rank.
ReadAll(comp) ==
    /\ comp.at = "rank"
    /\ \E a \in comp.left :
         LET others == (AgentsOf(jobLog) \cup {a}) \ {a}
             below == PercentileRank(comp.score, others, jobLog)
         IN  computing' = (computing \ {comp}) \cup
                {[comp EXCEPT !.at = "save", !.rank = <<below[1], below[2] + 1>>]}
    /\ UNCHANGED <<jobLog, saved>>

\* recalculateAllReputations reads the events once for all agents.
ReadForAll ==
    /\ Cardinality(computing) < MaxComputations /\ jobLog # <<>>
    /\ computing' = computing \cup {[at |-> "saveAll", left |-> AgentsOf(jobLog),
                                     log |-> jobLog, score |-> 0, rank |-> <<0, 0>>]}
    /\ UNCHANGED <<jobLog, saved>>

\* saveReputation, awaited for one agent after the other.
Save(comp) ==
    /\ comp.at \in {"save", "saveAll"}
    /\ \E a \in comp.left :
         LET all == AgentsOf(comp.log)
             score == ScoreFromMetrics(a, comp.log)
         IN  /\ saved' = [saved EXCEPT ![a] =
                   [score |-> score,
                    rank |-> IF comp.at = "save" THEN comp.rank
                             ELSE PercentileRank(score, all, comp.log)]]
             /\ computing' = IF comp.left = {a} THEN computing \ {comp}
                             ELSE (computing \ {comp}) \cup {[comp EXCEPT !.left = @ \ {a}]}
    /\ UNCHANGED jobLog

ReputationNext ==
    \/ JobEventHappens \/ ReadAgent \/ ReadForAll
    \/ \E comp \in computing : ReadAll(comp) \/ Save(comp)

ReputationTypeOK ==
    /\ Len(jobLog) <= MaxJobEvents
    /\ ToSet(jobLog) \subseteq [agentId : RatedAgents, type : JobEventTypes]
    /\ \A comp \in computing : comp.left \subseteq RatedAgents /\ comp.score \in 0..100000
    /\ \A a \in RatedAgents : /\ saved[a].score \in -1..100000
                              /\ saved[a].rank[1] <= saved[a].rank[2]
=============================================================================
