------------------------------- MODULE Paywall -------------------------------
(***************************************************************************)
(* The seller's side of x402: the Express middleware of                    *)
(* sdk/src/marcPaywall.ts with its PaymentIdempotencyCache, and the        *)
(* Fastify and Node adapters, which wrap the same x402 middleware but keep *)
(* no cache.  The x402 middleware, the facilitator and the ledger are      *)
(* external: they verify a proof, and settle it once the handler answered. *)
(*                                                                         *)
(* One process serves one route with one adapter.  A request is a slot of  *)
(* Reqs; the slot also stands for its connection, so a request whose       *)
(* client has gone is still at work in the server.                         *)
(***************************************************************************)
EXTENDS Naturals, FiniteSets

CONSTANTS
    Calls,          \* calls of marcFetch made by buyers
    MaxPay,         \* proofs one call may sign
    Reqs,           \* HTTP requests
    MaxForget,      \* times an entry of the cache expires or the process restarts
    MaxTransient    \* times the facilitator fails or refuses a good proof

ASSUME PaywallAssumption ==
    /\ Calls # {}
    /\ MaxPay \in Nat \ {0}
    /\ MaxForget \in Nat
    /\ MaxTransient \in Nat

Proofs == Calls \X (1..MaxPay)
NoProof == <<>>
Adapters == {"express", "fastify", "nodehttp"}

VARIABLES
    adapter,    \* which adapter the server uses
    cache,      \* PaymentIdempotencyCache.entries: status of each proof
    req,        \* the requests
    settled,    \* external: proofs the ledger has settled
    runs,       \* proofs whose handler ran to a good answer, with the requests it ran for
    forgot,     \* proofs whose claim was dropped before their request was answered
    forgets,    \* expiries and restarts so far
    transients  \* failures of the facilitator so far

serverVars == <<adapter, cache, req, settled, runs, forgot, forgets, transients>>

(***************************************************************************)
(* A request: the proof in its X-PAYMENT header, how far the server is     *)
(* with it, whether its connection is open, whether it claimed its proof   *)
(* (claimedTxHash), whether its finish and close listeners are registered, *)
(* whether the facilitator verified it, and the status of its answer.      *)
(***************************************************************************)
Request == [ call : Calls, proof : Proofs \cup {NoProof},
             at : {"free", "sent", "verifying", "handling", "answered", "gone"},
             open : BOOLEAN, claimed : BOOLEAN, armed : BOOLEAN,
             verified : BOOLEAN, status : {"", "200", "402", "409", "500"} ]

FreeRequest == [ call |-> CHOOSE c \in Calls : TRUE, proof |-> NoProof, at |-> "free",
                 open |-> FALSE, claimed |-> FALSE, armed |-> FALSE,
                 verified |-> FALSE, status |-> "" ]

PaywallStart(kind) ==
    /\ adapter = kind
    /\ cache = [p \in Proofs |-> "absent"]
    /\ req = [r \in Reqs |-> FreeRequest]
    /\ settled = {} /\ runs = {} /\ forgot = {}
    /\ forgets = 0 /\ transients = 0

PaywallInit == \E kind \in Adapters : PaywallStart(kind)

-----------------------------------------------------------------------------
(* The cache *)

\* release: only an entry that is still PROCESSING is removed, whoever claimed it.
Release(cch, p) ==
    IF p \in Proofs /\ cch[p] = "PROCESSING" THEN [cch EXCEPT ![p] = "absent"] ELSE cch

\* markSettled: an entry that has expired meanwhile is not brought back.
MarkSettled(cch, p) ==
    IF cch[p] # "absent" THEN [cch EXCEPT ![p] = "SETTLED"] ELSE cch

\* finalizeClaim: what the finish and close listeners do with the captured answer.
FinalizeClaim(cch, r, status) ==
    CASE ~req[r].claimed \/ ~req[r].armed -> cch
      [] status = "200" -> MarkSettled(cch, req[r].proof)
      [] OTHER -> Release(cch, req[r].proof)

Answer(r, status) == [req EXCEPT ![r].at = "answered", ![r].status = status]

-----------------------------------------------------------------------------
(* Handling one request *)

Verifies(r, guarded) ==
    /\ req[r].at = "sent"
    /\ req' = [req EXCEPT ![r].at = "verifying", ![r].claimed = guarded]
    /\ cache' = IF guarded THEN [cache EXCEPT ![req[r].proof] = "PROCESSING"] ELSE cache
    /\ UNCHANGED <<adapter, settled, runs, forgot, forgets, transients>>

\* The Fastify hook and the Node handler call the middleware at once.
FastifyHook(r) == adapter = "fastify" /\ Verifies(r, FALSE)
NodeHttpCheck(r) == adapter = "nodehttp" /\ Verifies(r, FALSE)

\* Mutant: A proof is claimed although another request holds it.
ClaimAnyway(r) == adapter = "express" /\ Verifies(r, req[r].proof # NoProof)

\* The replay guard: a proof nobody holds is claimed; without a proof there is
\* nothing to claim.
ClaimOrPass(r) ==
    /\ adapter = "express"
    /\ req[r].proof # NoProof => cache[req[r].proof] = "absent"
    /\ Verifies(r, req[r].proof # NoProof)

\* The replay guard: a settled proof is answered from the cache, one in flight
\* with 409.  Neither reaches the middleware.
ReplayOrConflict(r) ==
    LET p == req[r].proof
    IN  /\ req[r].at = "sent"
        /\ adapter = "express" /\ p # NoProof /\ cache[p] # "absent"
        /\ req' = Answer(r, IF cache[p] = "SETTLED" THEN "200" ELSE "409")
        /\ UNCHANGED <<adapter, cache, settled, runs, forgot, forgets, transients>>

\* The middleware calls next: the proof is good, and the listeners that will
\* finalise the claim are registered.
Granted(r) ==
    /\ req[r].at = "verifying"
    /\ req[r].proof # NoProof /\ req[r].proof \notin settled
    /\ req' = [req EXCEPT ![r].at = "handling", ![r].verified = TRUE,
                          ![r].armed = req[r].claimed /\ req[r].open]
    /\ UNCHANGED <<adapter, cache, settled, runs, forgot, forgets, transients>>

\* The middleware writes 402 itself and never calls next: no proof, a proof the
\* ledger has seen, or one the facilitator refuses for the moment.  The
\* listeners are not registered yet, so a claim stays PROCESSING.
Challenged(r) ==
    /\ req[r].at = "verifying"
    /\ \/ /\ req[r].proof \in settled \cup {NoProof}
          /\ UNCHANGED transients
       \/ /\ req[r].proof # NoProof /\ req[r].proof \notin settled
          /\ transients < MaxTransient
          /\ transients' = transients + 1
    /\ req' = Answer(r, "402")
    /\ UNCHANGED <<adapter, cache, settled, runs, forgot, forgets>>

\* The middleware calls next with an error.  Express releases the claim and
\* answers 402; the Fastify hook rejects, which Fastify answers with 500; the
\* Node adapter's next ignores the error and lets the request through.
ExpressError(r) ==
    /\ adapter = "express"
    /\ req' = Answer(r, "402")
    /\ cache' = Release(cache, req[r].proof)
    /\ forgot' = forgot \cup {req[r].proof}

FastifyError(r) == adapter = "fastify" /\ req' = Answer(r, "500") /\ UNCHANGED <<cache, forgot>>

NodeHttpError(r) ==
    /\ adapter = "nodehttp"
    /\ req' = [req EXCEPT ![r].at = "handling"]
    /\ UNCHANGED <<cache, forgot>>

MiddlewareError(r) ==
    /\ req[r].at = "verifying" /\ req[r].proof # NoProof
    /\ transients < MaxTransient
    /\ transients' = transients + 1
    /\ ExpressError(r) \/ FastifyError(r) \/ NodeHttpError(r)
    /\ UNCHANGED <<adapter, settled, runs, forgets>>

\* The handler answers.  A good answer to a verified proof is settled first;
\* when the ledger refuses, it becomes a 402.  Then the answer is written, and
\* finish finalises the claim, unless the connection is already gone.
HandlerAnswers(r) ==
    /\ req[r].at = "handling"
    /\ \E ok \in BOOLEAN :
         LET p == req[r].proof
             settles == ok /\ req[r].verified /\ p \notin settled
             status == CASE ~ok -> "500"
                         [] ~req[r].verified \/ settles -> "200"
                         [] OTHER -> "402"
         IN  /\ settled' = IF settles THEN settled \cup {p} ELSE settled
             /\ runs' = IF ok THEN runs \cup {<<p, r>>} ELSE runs
             /\ cache' = IF req[r].open THEN FinalizeClaim(cache, r, status) ELSE cache
             /\ req' = Answer(r, status)
    /\ UNCHANGED <<adapter, forgot, forgets, transients>>

-----------------------------------------------------------------------------
(* What happens around it *)

\* The client's side of a connection closes while the server has the request.
\* Once the listeners are registered, close finalises the claim with no
\* captured answer, that is, releases it while the handler is still at work.
ConnectionCloses(r) ==
    /\ forgot' = IF req[r].at = "handling" /\ req[r].armed
                   THEN forgot \cup {req[r].proof} ELSE forgot
    /\ cache' = IF req[r].at = "handling" THEN FinalizeClaim(cache, r, "") ELSE cache

\* evictExpired: the hour of an entry is over, whatever its status.
Expires(p) ==
    /\ forgets < MaxForget
    /\ cache[p] # "absent"
    /\ cache' = [cache EXCEPT ![p] = "absent"]
    /\ forgot' = forgot \cup {p}
    /\ forgets' = forgets + 1
    /\ UNCHANGED <<adapter, req, settled, runs, transients>>

\* The process restarts: the cache is in memory, the requests are cut off.
Restarts ==
    /\ forgets < MaxForget
    /\ forgets' = forgets + 1
    /\ cache' = [p \in Proofs |-> "absent"]
    /\ forgot' = Proofs
    /\ req' = [r \in Reqs |-> IF req[r].at \in {"sent", "verifying", "handling"}
                                THEN [req[r] EXCEPT !.at = "gone"] ELSE req[r]]
    /\ UNCHANGED <<adapter, settled, runs, transients>>

PaywallNext ==
    \/ \E r \in Reqs : \/ FastifyHook(r) \/ NodeHttpCheck(r)
                       \/ ClaimOrPass(r) \/ ReplayOrConflict(r)
                       \/ Granted(r) \/ Challenged(r) \/ MiddlewareError(r) \/ HandlerAnswers(r)
    \/ \E p \in Proofs : Expires(p)
    \/ Restarts

PaywallTypeOK ==
    /\ adapter \in Adapters
    /\ cache \in [Proofs -> {"absent", "PROCESSING", "SETTLED"}]
    /\ req \in [Reqs -> Request]
    /\ settled \subseteq Proofs
    /\ runs \subseteq Proofs \X Reqs
    /\ forgot \subseteq Proofs
    /\ forgets \in 0..MaxForget /\ transients \in 0..MaxTransient
=============================================================================
