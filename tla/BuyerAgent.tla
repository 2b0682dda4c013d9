------------------------------ MODULE BuyerAgent ------------------------------
(***************************************************************************)
(* The buyers (agents/buyer/index.ts: the terminal program; agents/        *)
(* shared.ts: runBuyerAgent): a task is classified, a provider chosen from *)
(* the registry, a job escrowed for it and polled.  The language model,    *)
(* the registry, the providers and the contract client are external.       *)
(*                                                                         *)
(* A provider is a number, and its score orders it: the better is the      *)
(* larger.  Which providers fit a task is chosen with the classification.  *)
(***************************************************************************)
EXTENDS Naturals, FiniteSets, FiniteSetsExt

CONSTANTS
    Sellers,            \* the registry's agents, numbered by score
    maxCreateAttempts   \* retryWithBackoff's attempts for createJob

ASSUME BuyerAssumption ==
    /\ Sellers \subseteq Nat \ {0} /\ IsFiniteSet(Sellers)
    /\ maxCreateAttempts \in Nat \ {0}

NoSeller == 0

VARIABLES
    program,        \* "terminal" or "library"
    taskBox,        \* the terminal's input box is shown
    buyer,          \* "idle", "classifying", "selecting", "creating", "polling", "returned"
    round,          \* 1: the best provider; 2: the next best
    fits,           \* external: the sellers that match the capabilities
    agents,         \* the sellers the registry listed, {} before it was asked
    picked,         \* the provider of this round
    tried,          \* the provider of the first round
    attempts,       \* of createJob
    buyerResult,    \* the provider whose result is shown, or NoSeller
    paid            \* external: job's provider -> "none", "funded", "completed", "ended"

buyerVars == <<program, taskBox, buyer, round, fits, agents, picked, tried, attempts,
               buyerResult, paid>>

BuyerStart(p) ==
    /\ program = p /\ taskBox = TRUE /\ buyer = "idle" /\ round = 1
    /\ fits = {} /\ agents = {} /\ picked = NoSeller /\ tried = NoSeller
    /\ attempts = 0 /\ buyerResult = NoSeller
    /\ paid = [s \in Sellers |-> "none"]

BuyerInit == \E p \in {"terminal", "library"} : BuyerStart(p)

-----------------------------------------------------------------------------
\* loadAgents, when the terminal starts, or /agents later.
LoadAgents ==
    /\ program = "terminal" /\ buyer = "idle"
    /\ agents' \in SUBSET Sellers
    /\ UNCHANGED <<program, taskBox, buyer, round, fits, picked, tried, attempts,
                   buyerResult, paid>>

\* Enter in the box, or --description, which leaves the box alone.
BeginTask ==
    /\ buyer = "idle" /\ buyer' = "classifying"
    /\ taskBox' \in IF program = "terminal" THEN {FALSE, taskBox} ELSE {taskBox}
    /\ UNCHANGED <<program, round, fits, agents, picked, tried, attempts, buyerResult, paid>>

Return(result) == buyer' = "returned" /\ buyerResult' = result

\* classifyTask: the terminal falls back on the words of the task, the library
\* throws.  The registry is asked by the library, and by a terminal that has no
\* agents yet.
Classified ==
    /\ buyer = "classifying" /\ buyer' = "selecting"
    /\ fits' \in SUBSET Sellers
    /\ agents' \in IF program = "terminal" /\ agents # {} THEN {agents} ELSE SUBSET Sellers
    /\ UNCHANGED <<program, taskBox, round, picked, tried, attempts, buyerResult, paid>>

ClassifyFails ==
    /\ buyer = "classifying" /\ Return(NoSeller)
    /\ UNCHANGED <<program, taskBox, round, fits, agents, picked, tried, attempts, paid>>

\* selectProvider: the best that fits; the terminal takes the best of all when
\* none does.
pool(available) ==
    IF program = "terminal" /\ available \cap fits = {} THEN available ELSE available \cap fits

Select ==
    /\ buyer = "selecting"
    /\ LET available == agents \ {tried} IN
         IF pool(available) = {}
         THEN Return(NoSeller) /\ UNCHANGED <<picked, attempts>>
         ELSE /\ picked' = Max(pool(available)) /\ attempts' = 0 /\ buyer' = "creating"
              /\ UNCHANGED buyerResult
    /\ UNCHANGED <<program, taskBox, round, fits, agents, tried, paid>>

\* createEscrowJob: the budget goes into escrow.
JobCreated ==
    /\ buyer = "creating" /\ buyer' = "polling"
    /\ paid' = [paid EXCEPT ![picked] = "funded"]
    /\ UNCHANGED <<program, taskBox, round, fits, agents, picked, tried, attempts,
                   buyerResult>>

\* createJob throws, before or after the budget left the buyer; the terminal
\* tries again, with a job of its own each time.
CreateFails ==
    /\ buyer = "creating" /\ attempts' = attempts + 1
    /\ paid' \in {paid, [paid EXCEPT ![picked] = "funded"]}
    /\ IF program = "terminal" /\ attempts' < maxCreateAttempts
       THEN UNCHANGED <<buyer, buyerResult>>
       ELSE Return(NoSeller)
    /\ UNCHANGED <<program, taskBox, round, fits, agents, picked, tried>>

\* The provider and its evaluator, or the end of the job.
JobMoves ==
    /\ \E s \in Sellers, end \in {"completed", "ended"} :
         paid[s] = "funded" /\ paid' = [paid EXCEPT ![s] = end]
    /\ UNCHANGED <<program, taskBox, buyer, round, fits, agents, picked, tried, attempts,
                   buyerResult>>

\* pollJobCompletion: a completed job with a result.
PollCompleted ==
    /\ buyer = "polling" /\ paid[picked] = "completed"
    /\ Return(picked)
    /\ UNCHANGED <<program, taskBox, round, fits, agents, picked, tried, attempts, paid>>

\* It failed, the last attempt is over, or its result is the empty string, which
\* the terminal takes for no result: the next best provider is paid as well.
PollGivesNothing ==
    /\ buyer = "polling"
    /\ program = "library" => paid[picked] # "completed"
    /\ IF program = "terminal" /\ round = 1
       THEN /\ round' = 2 /\ tried' = picked /\ buyer' = "selecting"
            /\ UNCHANGED buyerResult
       ELSE Return(NoSeller) /\ UNCHANGED <<round, tried>>
    /\ UNCHANGED <<program, taskBox, fits, agents, picked, attempts, paid>>

BuyerNext ==
    \/ LoadAgents \/ BeginTask \/ Classified \/ ClassifyFails \/ Select \/ JobCreated
    \/ CreateFails \/ JobMoves \/ PollCompleted \/ PollGivesNothing

BuyerTypeOK ==
    /\ program \in {"terminal", "library"} /\ taskBox \in BOOLEAN /\ round \in {1, 2}
    /\ buyer \in {"idle", "classifying", "selecting", "creating", "polling", "returned"}
    /\ fits \subseteq Sellers /\ agents \subseteq Sellers
    /\ {picked, tried, buyerResult} \subseteq Sellers \cup {NoSeller}
    /\ attempts \in 0..maxCreateAttempts
    /\ paid \in [Sellers -> {"none", "funded", "completed", "ended"}]
    \* At most two providers are paid for one task, and the result shown is one's
    \* whose job was completed.
    /\ Cardinality({s \in Sellers : paid[s] # "none"}) <= round
    /\ buyerResult # NoSeller => paid[buyerResult] = "completed"
=============================================================================
