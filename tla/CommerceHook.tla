----------------------------- MODULE CommerceHook -----------------------------
(***************************************************************************)
(* useCommerce and useCreateJob (packages/react/src/hooks): a component    *)
(* makes jobs, submits, completes and cancels through the SDK, and shows   *)
(* whether a call is pending, its transaction hash and its error.  The     *)
(* four operations are the same code around another method of the client.  *)
(*                                                                         *)
(* Two calls may be in flight at once, one component and one pair of refs. *)
(* The hash of a call is the call itself; a made-up hash is "0x".          *)
(***************************************************************************)
EXTENDS Naturals, FiniteSets

CONSTANT HookCalls      \* calls a component makes

NoHash == "null"
MadeUp == "0x"

VARIABLES
    ambient,        \* no client was passed in: the hook's own one reports hashes (onTx)
    signer,         \* whether resolveSigner finds one: a wallet is connected
    isPending, txHash, failed,      \* what the component shows
    latestTxHash,   \* the ref the own client writes
    hookCalls,      \* its calls: where each is, and the txHash of its closure
    answer,         \* the hash each call that succeeded was answered with
    alone,          \* calls that no other one has overlapped
    result          \* useCreateJob: the call whose result is kept

commerceVars == <<ambient, signer, isPending, txHash, failed, latestTxHash, hookCalls, answer,
                  alone, result>>

CommerceStart(own) ==
    /\ ambient = own /\ signer = TRUE
    /\ isPending = FALSE /\ txHash = NoHash /\ failed = FALSE /\ latestTxHash = NoHash
    /\ hookCalls = [c \in HookCalls |-> [at |-> "idle", closure |-> NoHash]]
    /\ answer = [c \in HookCalls |-> NoHash] /\ alone = HookCalls /\ result = NoHash

CommerceInit == \E own \in BOOLEAN : CommerceStart(own)

InFlight == {c \in HookCalls : hookCalls[c].at \in {"client", "sent", "reported"}}

\* createJob, submitJob, completeJob, cancelJob: up to the first await.
BeginCommerce(c) ==
    /\ hookCalls[c].at = "idle"
    /\ isPending' = TRUE /\ failed' = FALSE /\ latestTxHash' = NoHash
    /\ hookCalls' = [hookCalls EXCEPT ![c] = [at |-> "client", closure |-> txHash]]
    /\ alone' = IF InFlight = {} THEN alone ELSE alone \ (InFlight \cup {c})
    /\ UNCHANGED <<ambient, signer, txHash, answer, result>>

\* Whatever happens, finally ends isPending, also of another call.
CallEnds(c, at) == hookCalls' = [hookCalls EXCEPT ![c].at = at] /\ isPending' = FALSE

\* getClient, then resolveSigner: without a signer the call throws.
SendCommerce(c) ==
    /\ hookCalls[c].at = "client"
    /\ IF signer
       THEN hookCalls' = [hookCalls EXCEPT ![c].at = "sent"] /\ UNCHANGED <<isPending, failed>>
       ELSE CallEnds(c, "failed") /\ failed' = TRUE
    /\ UNCHANGED <<ambient, signer, txHash, latestTxHash, answer, alone, result>>

\* onTx of the own client, once the transaction is sent.
OnTx(c) ==
    /\ ambient /\ hookCalls[c].at = "sent"
    /\ hookCalls' = [hookCalls EXCEPT ![c].at = "reported"]
    /\ latestTxHash' = c /\ txHash' = c
    /\ UNCHANGED <<ambient, signer, isPending, failed, answer, alone, result>>

\* The client's method returns: the hash is the ref's, else that of the
\* component when the call was made, else a made-up one.  The own client has
\* reported the hash by then; a later call may have cleared it.
CommerceSucceeds(c) ==
    /\ hookCalls[c].at = IF ambient THEN "reported" ELSE "sent"
    /\ LET hash == CASE latestTxHash # NoHash -> latestTxHash
                     [] hookCalls[c].closure # NoHash -> hookCalls[c].closure
                     [] OTHER -> MadeUp
       IN  txHash' = hash /\ answer' = [answer EXCEPT ![c] = hash] /\ result' = c
    /\ CallEnds(c, "done")
    /\ UNCHANGED <<ambient, signer, failed, latestTxHash, alone>>

CommerceFails(c) ==
    /\ hookCalls[c].at \in {"sent", "reported"}
    /\ CallEnds(c, "failed") /\ failed' = TRUE
    /\ UNCHANGED <<ambient, signer, txHash, latestTxHash, answer, alone, result>>

\* reset, also useCreateJob's; calls in flight go on.
ResetCommerce ==
    /\ failed' = FALSE /\ txHash' = NoHash /\ result' = NoHash
    /\ UNCHANGED <<ambient, signer, isPending, latestTxHash, hookCalls, answer, alone>>

\* The wallet connects or disconnects.
SignerChanges ==
    /\ signer' = ~signer
    /\ UNCHANGED <<ambient, isPending, txHash, failed, latestTxHash, hookCalls, answer, alone,
                   result>>

CommerceNext ==
    \/ \E c \in HookCalls : \/ BeginCommerce(c) \/ SendCommerce(c) \/ OnTx(c)
                            \/ CommerceSucceeds(c) \/ CommerceFails(c)
    \/ ResetCommerce \/ SignerChanges

CommerceHookTypeOK ==
    LET CallHashes == HookCalls \cup {NoHash, MadeUp}
    IN  /\ {ambient, signer, isPending, failed} \subseteq BOOLEAN
        /\ {txHash, latestTxHash, result} \subseteq CallHashes
        /\ hookCalls \in [HookCalls -> [at : {"idle", "client", "sent", "reported", "done",
                                         "failed"},
                                   closure : CallHashes]]
        /\ answer \in [HookCalls -> CallHashes] /\ alone \subseteq HookCalls
=============================================================================
