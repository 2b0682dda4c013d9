------------------------------ MODULE MCClients ------------------------------
(***************************************************************************)
(* Instances of the client side for TLC: what runs in a buyer's process,   *)
(* in a seller's HTTP server and in the browser.  These components share   *)
(* no state: what one does to another goes through the ledger or the       *)
(* network, which each module has as external state of its own.  So a      *)
(* behaviour runs one of them, the focus, from each of its initial states, *)
(* and leaves the others as they start; the steps two of them would take   *)
(* in turn could only be reordered.                                        *)
(***************************************************************************)
EXTENDS PaymentFetch, TxSubmission, Storage, EventDecoding,
        ContractClients, ContractCalls, PaymentDedup, DashboardLists,
        WalletHook, JobHook, CommerceHook, ChannelHook, DashboardWallet, DashboardStream

CONSTANT Focuses
VARIABLE focus

TwoEndpoints == <<"e1", "e2">>
TwoProviders == <<"pinata", "arweave">>
Symmetry == Permutations(Invokes) \cup Permutations(Reqs)

\* A component starts in any of its initial states in focus, else in a fixed one.
In(f) == focus = f

Init ==
    /\ focus \in Focuses
    /\ IF In("x402") THEN PaywallInit ELSE PaywallStart("express")
    /\ FetchInit
    /\ IF In("tx") THEN TxInit ELSE TxStart(TRUE, CHOOSE ms \in PollTimeouts : TRUE)
    /\ IF In("stream") THEN StreamInit ELSE StreamStart(<<>>, FALSE)
    /\ IF In("storage") THEN StorageInit ELSE StorageStart(FALSE, {})
    /\ IF In("decoding") THEN DecodingInit ELSE DecodingStart(CHOOSE e \in Events : TRUE)
    /\ IF focus \in {"jobCalls", "session", "identity"} THEN ClientsInit
       ELSE ClientsStart(0, "none")
    /\ CallsInit /\ DedupInit /\ ListsInit
    /\ IF In("wallet") THEN WalletInit ELSE WalletStart(NoWallet)
    /\ IF In("job") THEN HookInit ELSE HookStart(FALSE)
    /\ IF In("commerce") THEN CommerceInit ELSE CommerceStart(FALSE)
    /\ ChannelHookInit
    /\ IF In("dashWallet") THEN DashWalletInit
       ELSE DashWalletStart(CHOOSE a \in Accounts : TRUE, FALSE)
    /\ IF In("page") THEN StreamPageInit ELSE StreamPageStart(TRUE, 0, CHOOSE rt \in Routes : TRUE)

Rest(f, v) == IF f THEN TRUE ELSE UNCHANGED v

\* Nothing but the variables of component f changes.
Only(f) ==
    /\ UNCHANGED focus
    /\ Rest(f = "x402", x402Vars) /\ Rest(f = "tx", txVars)
    /\ Rest(f = "stream", streamVars) /\ Rest(f = "storage", storageVars)
    /\ Rest(f = "decoding", decodingVars)
    /\ Rest(f = "jobCalls", jobVars) /\ Rest(f = "session", channelVars)
    /\ Rest(f = "identity", identityVars)
    /\ Rest(f = "calls", callsVars) /\ Rest(f = "dedup", dedupVars)
    /\ Rest(f = "lists", listVars) /\ Rest(f = "wallet", walletVars)
    /\ Rest(f = "job", hookVars) /\ Rest(f = "commerce", commerceVars)
    /\ Rest(f = "channel", channelHookVars) /\ Rest(f = "dashWallet", dashWalletVars)
    /\ Rest(f = "page", pageVars)

Next ==
    \/ In("x402") /\ FetchNext /\ Only("x402")
    \/ In("tx") /\ TxNext /\ Only("tx")
    \/ In("stream") /\ StreamNext /\ Only("stream")
    \/ In("storage") /\ StorageNext /\ Only("storage")
    \/ In("decoding") /\ DecodingNext /\ Only("decoding")
    \/ In("jobCalls") /\ JobCalls /\ Only("jobCalls")
    \/ In("session") /\ ChannelSession /\ Only("session")
    \/ In("identity") /\ IdentityCalls /\ Only("identity")
    \/ In("calls") /\ CallsNext /\ Only("calls")
    \/ In("dedup") /\ DedupNext /\ Only("dedup")
    \/ In("lists") /\ ListsNext /\ Only("lists")
    \/ In("wallet") /\ WalletNext /\ Only("wallet")
    \/ In("job") /\ HookNext /\ Only("job")
    \/ In("commerce") /\ CommerceNext /\ Only("commerce")
    \/ In("channel") /\ ChannelHookNext /\ Only("channel")
    \/ In("dashWallet") /\ DashWalletNext /\ Only("dashWallet")
    \/ In("page") /\ StreamPageNext /\ Only("page")

clientSideVars ==
    <<focus, x402Vars, txVars, streamVars, storageVars, decodingVars, clientVars,
      callsVars, dedupVars, listVars, walletVars, hookVars, commerceVars,
      channelHookVars, dashWalletVars, pageVars>>

Spec == Init /\ [][Next]_clientSideVars

-----------------------------------------------------------------------------
\* Every component keeps its types.
TypeOK ==
    /\ focus \in Focuses
    /\ PaywallTypeOK /\ FetchTypeOK /\ TxTypeOK /\ StorageTypeOK /\ ClientsTypeOK
    /\ CallsTypeOK /\ DedupTypeOK /\ ListsTypeOK
    /\ WalletTypeOK /\ HookTypeOK /\ CommerceHookTypeOK /\ ChannelHookTypeOK
    /\ DashWalletTypeOK /\ StreamPageTypeOK

\* No page waits for an answer nobody will give: a list that is shown as loading, or a
\* job where the hook does not poll, has a request on its way (useJob.ts, app.js loadJobs
\* and loadAgents), and a page that shows live data has a stream or a retry, and a poll,
\* or the poll alone where there is no EventSource (app.js).
NeverStuck == LoadingEnds /\ NeverDeaf /\ SkeletonsEnd

\* What a client was told keeps holding: a session's newer voucher supersedes the older
\* ones (channels.ts), the hook does not go back behind a nonce it handed out
\* (usePaymentChannel.ts, with the exceptions NonceIsKept names), a result is what the
\* ledger did, and an upload that was confirmed is at the provider it names.
AnswersHold == VouchersSupersede /\ NonceIsKept /\ ToldIsSo /\ UploadIsBacked
=============================================================================
