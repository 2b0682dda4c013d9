------------------------------- MODULE Webhook -------------------------------
(***************************************************************************)
(* Telling a provider of a new job (indexer/src/webhooks.ts):              *)
(* notifyJobCreated and dispatchWebhook.  The provider's server and its    *)
(* metadata are external.  A delivery carries no id of its own, so what    *)
(* the provider takes twice it cannot tell from two jobs but by the job.   *)
(***************************************************************************)
EXTENDS Naturals

CONSTANT MAX_ATTEMPTS
ASSUME WebhookAssumption == MAX_ATTEMPTS \in Nat \ {0}

VARIABLES
    config,         \* what the agent's metadata has: "none", "noSecret" or "complete"
    attempt,        \* attempts made
    hookAt,         \* "idle", "fetching", "sleeping" or "returned"
    lastStatus,     \* of the last answer: 0 none, else its class
    dispatch,       \* DispatchResult: "none", "null", "ok" or "failed"
    received        \* external: deliveries the provider's server has taken

webhookVars == <<config, attempt, hookAt, lastStatus, dispatch, received>>

WebhookStart(metadata) ==
    /\ config = metadata
    /\ attempt = 0 /\ hookAt = "idle" /\ lastStatus = 0 /\ dispatch = "none" /\ received = 0

WebhookInit == \E metadata \in {"none", "noSecret", "complete"} : WebhookStart(metadata)

Returns(result) == hookAt' = "returned" /\ dispatch' = result

\* notifyJobCreated: without a url and a secret nobody is told.
Notify ==
    /\ hookAt = "idle"
    /\ IF config = "complete" THEN hookAt' = "fetching" /\ UNCHANGED dispatch
       ELSE Returns("null")
    /\ UNCHANGED <<config, attempt, lastStatus, received>>

\* shouldRetry: an answer of class 5, or no answer.
ShouldRetry(status) == status \in {0, 5}

\* After an attempt that failed: sleep, unless it was the last one.
AfterFailure == IF attempt + 1 < MAX_ATTEMPTS
                THEN hookAt' = "sleeping" /\ UNCHANGED dispatch
                ELSE Returns("failed")

\* The server answers within the five seconds.
WebhookAnswered ==
    /\ hookAt = "fetching"
    /\ \E status \in {2, 3, 4, 5} :
         /\ lastStatus' = status
         /\ received' = IF status = 2 THEN received + 1 ELSE received
         /\ \/ status = 2 /\ Returns("ok")
            \/ status # 2 /\ ~ShouldRetry(status) /\ Returns("failed")
            \/ ShouldRetry(status) /\ AfterFailure
    /\ attempt' = attempt + 1
    /\ UNCHANGED config

\* No answer: aborted after the timeout, or the connection lost.  The server may
\* have taken the delivery.
WebhookUnanswered ==
    /\ hookAt = "fetching"
    /\ lastStatus' = 0 /\ received' \in {received, received + 1}
    /\ AfterFailure
    /\ attempt' = attempt + 1
    /\ UNCHANGED config

\* backoffDelay is over.
WakesUp ==
    /\ hookAt = "sleeping" /\ hookAt' = "fetching"
    /\ UNCHANGED <<config, attempt, lastStatus, dispatch, received>>

WebhookNext == Notify \/ WebhookAnswered \/ WebhookUnanswered \/ WakesUp

WebhookTypeOK ==
    /\ config \in {"none", "noSecret", "complete"} /\ attempt \in 0..MAX_ATTEMPTS
    /\ hookAt \in {"idle", "fetching", "sleeping", "returned"} /\ lastStatus \in {0, 2, 3, 4, 5}
    /\ dispatch \in {"none", "null", "ok", "failed"} /\ received \in 0..attempt
=============================================================================
