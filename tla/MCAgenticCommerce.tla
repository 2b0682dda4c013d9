------------------------- MODULE MCAgenticCommerce -------------------------
(***************************************************************************)
(* Instances of AgenticCommerce for TLC: the values the .cfg files give    *)
(* its constants.  Amounts are tens of units, time is counted in ticks.    *)
(***************************************************************************)
EXTENDS AgenticCommerce

CONSTANTS c, d, p, e, f, usdc, eurc, h, g, uri

NoRequests == {}
OneClient == {c}

JobPlain == [deadline |-> 0, penalty |-> 0]
JobLate  == [deadline |-> 1, penalty |-> 4000]
NoSlas   == {JobPlain}
Slas     == {JobPlain, JobLate}

Req(provider, evaluator, token, budget) ==
    [provider |-> provider, evaluator |-> evaluator,
     token |-> token, budget |-> budget]

\* A valid batch, and one whose second request is below the minimum budget.
SomeBatches == { << Req(p, e, usdc, 50), Req(p, c, usdc, 10) >>,
                 << Req(p, e, usdc, 50), Req(p, e, usdc, 5) >> }

\* e weighs 2 of 3 and f weighs 1: the threshold 2 needs e, 3 needs both.
\* The last one can never be reached and is refused.
Weights == (e :> 2) @@ (f :> 1)
SomeQuorums == { [primary |-> e, weights |-> Weights, threshold |-> 2],
                 [primary |-> f, weights |-> Weights, threshold |-> 3],
                 [primary |-> e, weights |-> Weights, threshold |-> 4] }

Mile(amount) == [amount |-> amount, deliverable |-> Blank, approved |-> FALSE]
FreshPlans   == { <<Mile(10), Mile(20)>>, <<Mile(10), Mile(10), Mile(10)>>,
                  <<Mile(30), Mile(10)>> }

\* A commitment above the deposit, and one with a nonce ahead of its amount.
Overdrawn == {[amount |-> 3, nonce |-> 1], [amount |-> 1, nonce |-> 2]}

=============================================================================
