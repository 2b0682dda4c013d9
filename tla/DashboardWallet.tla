---------------------------- MODULE DashboardWallet ----------------------------
(***************************************************************************)
(* The wallet of the dashboard's page and what is signed with it           *)
(* (dashboard/public/app.js): connecting, noticing that the wallet's       *)
(* account changed, the session with the server, and the actions on jobs   *)
(* and agents, one step per answer they wait for.  The wallets kit and the *)
(* server are external; the server may answer as app.js expects, or fail.  *)
(***************************************************************************)
EXTENDS Naturals

CONSTANTS
    Accounts,
    MaxChanges      \* bounds what the user does in the wallet and on the page

ASSUME DashWalletAssumption == MaxChanges \in Nat /\ Accounts # {}

NoAccount == "noAccount"
Networks == {"testnet", "mainnet", "unknown"}

VARIABLES
    kit,            \* the account the wallet itself is on
    wallet,         \* [publicKey, network]; connected when there is a publicKey
    previousPublicKey,
    remembered,     \* a provider is in local storage
    sessionToken,   \* the account of __sessionToken
    asking,         \* getAddress calls in flight: "select", "reconnect", "check"
    authPromise,    \* the account a session is being made for
    action,         \* the transaction under way: [at, account, signer]
    changes

dashWalletVars == <<kit, wallet, previousPublicKey, remembered, sessionToken, asking,
                    authPromise, action, changes>>
walletState == <<wallet, previousPublicKey, remembered, asking>>

Connected == wallet.publicKey # NoAccount
Disconnected == [publicKey |-> NoAccount, network |-> "unknown"]
Idle == [at |-> "idle", account |-> NoAccount, signer |-> NoAccount]
Changes == changes < MaxChanges /\ changes' = changes + 1

DashWalletStart(a, known) ==
    /\ kit = a /\ wallet = Disconnected /\ previousPublicKey = NoAccount
    /\ remembered = known /\ asking = IF known THEN {"reconnect"} ELSE {}
    /\ sessionToken = NoAccount /\ authPromise = NoAccount /\ action = Idle /\ changes = 0

DashWalletInit == \E a \in Accounts, known \in BOOLEAN : DashWalletStart(a, known)

-----------------------------------------------------------------------------
(* Connecting *)

\* __selectWalletProvider
SelectWalletProvider ==
    /\ "select" \notin asking /\ Changes /\ asking' = asking \cup {"select"}
    /\ UNCHANGED <<kit, wallet, previousPublicKey, remembered, sessionToken, authPromise, action>>

\* The wallet gave its address, to __selectWalletProvider or to autoReconnect; the
\* network follows for the former (handleNetworkChanged).
AddressGiven(who, network) ==
    /\ who \in asking \ {"check"} /\ asking' = asking \ {who}
    /\ wallet' = [publicKey |-> kit,
                  network |-> IF who = "select" THEN network ELSE wallet.network]
    /\ previousPublicKey' = kit /\ remembered' = (who = "select" \/ remembered)
    /\ UNCHANGED <<kit, sessionToken, authPromise, action, changes>>

AddressRefused(who) ==
    /\ who \in asking /\ asking' = asking \ {who}
    /\ UNCHANGED <<kit, wallet, previousPublicKey, remembered, sessionToken, authPromise,
                   action, changes>>

\* External: the user picks another account in the wallet.
WalletSwitches(account) ==
    /\ account # kit /\ Changes /\ kit' = account
    /\ UNCHANGED <<walletState, sessionToken, authPromise, action>>

\* STATE_UPDATED of the kit: the account is shown, the session is kept.
StateUpdated ==
    /\ wallet' = [wallet EXCEPT !.publicKey = kit] /\ wallet' # wallet
    /\ UNCHANGED <<kit, previousPublicKey, remembered, asking, sessionToken, authPromise,
                   action, changes>>

\* handleAccountChanged: the session of the account before is dropped.
AccountChanged ==
    /\ sessionToken' = IF previousPublicKey \notin {NoAccount, kit} THEN NoAccount
                       ELSE sessionToken
    /\ wallet' = [wallet EXCEPT !.publicKey = kit] /\ previousPublicKey' = kit
    /\ UNCHANGED <<kit, remembered, asking, authPromise, action, changes>>

\* handleNetworkChanged
NetworkChanged(network) ==
    /\ Changes /\ wallet' = [wallet EXCEPT !.network = network]
    /\ UNCHANGED <<kit, previousPublicKey, remembered, asking, sessionToken, authPromise, action>>

\* checkAccountChange, every three seconds: the wallet is asked ...
CheckAccount ==
    /\ Connected /\ "check" \notin asking /\ asking' = asking \cup {"check"}
    /\ UNCHANGED <<kit, wallet, previousPublicKey, remembered, sessionToken, authPromise,
                   action, changes>>

\* ... and a page that was disconnected in between remembers the account again.
AccountChecked ==
    /\ "check" \in asking /\ asking' = asking \ {"check"}
    /\ LET changed == previousPublicKey \notin {NoAccount, kit}
       IN  /\ wallet' = IF changed THEN [wallet EXCEPT !.publicKey = kit] ELSE wallet
           /\ sessionToken' = IF changed THEN NoAccount ELSE sessionToken
    /\ previousPublicKey' = kit
    /\ UNCHANGED <<kit, remembered, authPromise, action, changes>>

\* disconnectWallet; what is in flight goes on.
DisconnectWallet ==
    /\ Connected /\ Changes /\ wallet' = Disconnected /\ previousPublicKey' = NoAccount
    /\ remembered' = FALSE /\ sessionToken' = NoAccount
    /\ UNCHANGED <<kit, asking, authPromise, action>>

-----------------------------------------------------------------------------
(* An action: simulateThenSubmit, or a call of the server's own wallets *)

At(step) == action' = [action EXCEPT !.at = step]
\* The finally of every action.
ActionEnds == action' = Idle

\* __doCreateJob, __submitJob, __completeJob, __approveJob, __cancelJob, __doRegister:
\* one at a time (state.txPending).  Without a wallet the server signs.
BeginAction ==
    /\ action = Idle /\ Changes
    /\ At(IF Connected THEN "session" ELSE "server")
    /\ UNCHANGED <<kit, walletState, sessionToken, authPromise>>

ServerAnswers ==
    /\ action.at \in {"server", "submit"} /\ At("reload")
    /\ UNCHANGED <<kit, walletState, sessionToken, authPromise, changes>>

\* ensureSession: nothing to do with a token, or without a wallet; not on the
\* public network; and one at a time.
NeedsSession == Connected /\ sessionToken = NoAccount

AskSession ==
    /\ action.at = "session" /\ NeedsSession /\ wallet.network # "mainnet"
    /\ authPromise' = wallet.publicKey /\ At("authenticating")
    /\ UNCHANGED <<kit, walletState, sessionToken, changes>>

\* The challenge was fetched, signed by the account the wallet is on by then, and
\* verified: the token is kept, whatever became of the wallet.
SessionGiven ==
    /\ action.at = "authenticating" /\ sessionToken' = authPromise
    /\ authPromise' = NoAccount /\ At("session")
    /\ UNCHANGED <<kit, walletState, changes>>

SessionRefused ==
    /\ action.at = "authenticating" /\ authPromise' = NoAccount /\ ActionEnds
    /\ UNCHANGED <<kit, walletState, sessionToken, changes>>

MainnetRefused ==
    /\ action.at = "session" /\ NeedsSession /\ wallet.network = "mainnet" /\ ActionEnds
    /\ UNCHANGED <<kit, walletState, sessionToken, authPromise, changes>>

\* The transaction is built for the account that is shown.
AskBuild ==
    /\ action.at = "session" /\ ~NeedsSession
    /\ action' = [action EXCEPT !.at = "build", !.account = wallet.publicKey]
    /\ UNCHANGED <<kit, walletState, sessionToken, authPromise, changes>>

\* It came; it is simulated, and the user is shown what it does.
Simulated(succeeds) ==
    /\ action.at = "build" /\ At(IF succeeds THEN "review" ELSE "failedReview")
    /\ UNCHANGED <<kit, walletState, sessionToken, authPromise, changes>>

\* A simulation that failed can only be closed.
Closed ==
    /\ action.at \in {"review", "failedReview"} /\ ActionEnds
    /\ UNCHANGED <<kit, walletState, sessionToken, authPromise, changes>>

Confirmed ==
    /\ action.at = "review" /\ At("sign")
    /\ UNCHANGED <<kit, walletState, sessionToken, authPromise, changes>>

\* signWalletTransaction: by the account the wallet is on now.
Signed ==
    /\ action.at = "sign" /\ action' = [action EXCEPT !.at = "submit", !.signer = kit]
    /\ UNCHANGED <<kit, walletState, sessionToken, authPromise, changes>>

\* A call failed, the wallet refused, or the lists were loaded anew.
ActionFailsOrEnds ==
    /\ action.at \in {"server", "build", "sign", "submit", "reload"} /\ ActionEnds
    /\ UNCHANGED <<kit, walletState, sessionToken, authPromise, changes>>

DashWalletNext ==
    \/ SelectWalletProvider \/ StateUpdated \/ AccountChanged \/ CheckAccount
    \/ AccountChecked \/ DisconnectWallet
    \/ \E who \in asking : AddressRefused(who) \/ \E net \in Networks : AddressGiven(who, net)
    \/ \E account \in Accounts : WalletSwitches(account)
    \/ \E net \in Networks : NetworkChanged(net)
    \/ BeginAction \/ ServerAnswers \/ AskSession \/ SessionGiven \/ SessionRefused
    \/ MainnetRefused \/ AskBuild \/ Closed \/ Confirmed \/ Signed \/ ActionFailsOrEnds
    \/ \E succeeds \in BOOLEAN : Simulated(succeeds)

\* Besides the types: nothing is signed that was not built in the same action.
DashWalletTypeOK ==
    /\ kit \in Accounts /\ wallet \in [publicKey : Accounts \cup {NoAccount}, network : Networks]
    /\ previousPublicKey \in Accounts \cup {NoAccount} /\ remembered \in BOOLEAN
    /\ {sessionToken, authPromise, action.account, action.signer}
         \subseteq Accounts \cup {NoAccount}
    /\ asking \subseteq {"select", "reconnect", "check"}
    /\ action.signer # NoAccount => action.at \in {"submit", "reload"}
=============================================================================
