------------------------------ MODULE WalletHook ------------------------------
(***************************************************************************)
(* The wallet of the React package: useWalletState                         *)
(* (packages/react/src/hooks/useWallet.ts) under the WalletConnectButton   *)
(* (components/WalletConnectButton.tsx).  The wallets (Freighter, xBull,   *)
(* Albedo), Horizon and the browser's storage are external.                *)
(*                                                                         *)
(* An address is the wallet it was got from with an account number, since  *)
(* what matters is which wallet an address, a balance and a signature      *)
(* belong to.  Every await is a step boundary: an operation in flight is a *)
(* record that keeps the values its closure holds.                         *)
(***************************************************************************)
EXTENDS Naturals

CONSTANTS
    WalletProvider, \* the wallets: "freighter", "xbull", "albedo"
    MaxRuns,        \* connects in a behaviour, the bound on connectRunId
    MaxDisconnects  \* disconnects in flight at once

ASSUME WalletAssumption ==
    /\ WalletProvider \subseteq {"freighter", "xbull", "albedo"}
    /\ {MaxRuns, MaxDisconnects} \subseteq Nat

Addresses == WalletProvider \X {1, 2}
NoWallet == "null"
NoAddress == <<>>

VARIABLES
    address, provider, status, balances,    \* the hook's state; balances: whose they are
    stored,         \* localStorage: the provider to connect to again
    connectRunId,
    connects,       \* connect calls in flight: [run, to, at, got]
    disconnects,    \* disconnect calls in flight: [nr, of, then], then: switchWallet's target
    refreshes,      \* refreshBalance calls in flight: the address their closure holds
    account,        \* external: the account chosen in Freighter
    ui              \* the button: "closed", "menu" or "modal"

walletVars == <<address, provider, status, balances, stored, connectRunId, connects,
                disconnects, refreshes, account, ui>>
displayed == <<address, provider, status, balances>>
calls == <<connectRunId, connects, disconnects, refreshes>>

WalletStart(remembered) ==
    /\ address = NoAddress /\ provider = NoWallet /\ status = "disconnected"
    /\ balances = NoAddress /\ stored = remembered
    /\ connectRunId = 0 /\ connects = {} /\ disconnects = {} /\ refreshes = {}
    /\ account = 1 /\ ui = "closed"

WalletInit == \E remembered \in WalletProvider \cup {NoWallet} : WalletStart(remembered)

-----------------------------------------------------------------------------
(* connect *)

\* connect: takes a run number and shows the new provider at once, while the
\* old address stays until the wallet answers.
Connect(to) ==
    /\ connectRunId < MaxRuns
    /\ connectRunId' = connectRunId + 1
    /\ status' = "connecting" /\ provider' = to
    /\ connects' = connects \cup {[run |-> connectRunId', to |-> to, at |-> "wallet",
                                   got |-> NoAddress]}

\* handleSelectProvider, from the list of wallets.
SelectProvider ==
    /\ ui = "modal" /\ ui' = "closed"
    /\ \E to \in WalletProvider : Connect(to)
    /\ UNCHANGED <<address, balances, stored, disconnects, refreshes, account>>

\* autoConnect, when the hook is mounted.
AutoConnect ==
    /\ connectRunId = 0 /\ stored # NoWallet
    /\ Connect(stored)
    /\ UNCHANGED <<address, balances, stored, disconnects, refreshes, account, ui>>

\* Mutant: An older connect is not told from the latest.
AnyRun(c) == TRUE

Latest(c) == c.run = connectRunId

\* connectProvider answers with an address.  Only the latest run is heard.
WalletAnswers(c) ==
    /\ c.at = "wallet"
    /\ \E a \in {IF c.to = "freighter" THEN <<c.to, account>> ELSE <<c.to, 1>>} :
         IF Latest(c)
         THEN /\ address' = a /\ status' = "connected" /\ stored' = c.to
              /\ connects' = (connects \ {c}) \cup {[c EXCEPT !.at = "balance", !.got = a]}
         ELSE /\ connects' = connects \ {c}
              /\ UNCHANGED <<address, status, stored>>
    /\ UNCHANGED <<provider, balances, connectRunId, disconnects, refreshes, account,
                   ui>>

\* connectProvider throws.  The address goes, the provider and the stored one stay.
WalletRefuses(c) ==
    /\ c.at = "wallet"
    /\ connects' = connects \ {c}
    /\ IF Latest(c)
       THEN address' = NoAddress /\ balances' = NoAddress /\ status' = "error"
       ELSE UNCHANGED <<address, balances, status>>
    /\ UNCHANGED <<provider, stored, connectRunId, disconnects, refreshes, account,
                   ui>>

\* Horizon answers connect with the balances, or with nothing to show.
ConnectBalance(c) ==
    /\ c.at = "balance"
    /\ connects' = connects \ {c}
    /\ balances' \in IF Latest(c) THEN {c.got, NoAddress} ELSE {balances}
    /\ UNCHANGED <<address, provider, status, stored, connectRunId, disconnects, refreshes,
                   account, ui>>

-----------------------------------------------------------------------------
(* disconnect, switchWallet *)

\* disconnect asks the provider its closure holds.  connectRunId is left alone,
\* so a connect in flight goes on.
Disconnect(then) ==
    /\ \E nr \in 1..MaxDisconnects :
         /\ \A d \in disconnects : d.nr # nr
         /\ disconnects' = disconnects \cup {[nr |-> nr, of |-> provider, then |-> then]}
    /\ UNCHANGED <<displayed, stored, connectRunId, connects, refreshes, account>>

\* The menu's Disconnect, and switchWallet for a caller of the hook.
AskDisconnect ==
    /\ ui = "menu" /\ ui' = "closed"
    /\ Disconnect(NoWallet)

SwitchWallet ==
    /\ \E to \in WalletProvider : Disconnect(to)
    /\ UNCHANGED ui

\* The provider has let go (Freighter has nothing to ask): everything is
\* cleared, whatever was connected meanwhile; switchWallet then connects.
DisconnectEnds(d) ==
    /\ disconnects' = disconnects \ {d}
    /\ address' = NoAddress /\ balances' = NoAddress /\ stored' = NoWallet
    /\ IF d.then = NoWallet
       THEN provider' = NoWallet /\ status' = "disconnected"
            /\ UNCHANGED <<connectRunId, connects>>
       ELSE Connect(d.then)
    /\ UNCHANGED <<refreshes, account, ui>>

\* The provider throws: disconnect shows the error and keeps the address, and
\* switchWallet connects all the same, since disconnect swallowed the error.
DisconnectFails(d) ==
    /\ d.of \in {"xbull", "albedo"}
    /\ disconnects' = disconnects \ {d}
    /\ IF d.then = NoWallet
       THEN status' = "error" /\ UNCHANGED <<provider, connectRunId, connects>>
       ELSE Connect(d.then)
    /\ UNCHANGED <<address, balances, stored, refreshes, account, ui>>

-----------------------------------------------------------------------------
(* Balances, the Freighter watch, the signer *)

RefreshBalance ==
    /\ refreshes = {}
    /\ IF address = NoAddress
       THEN balances' = NoAddress /\ UNCHANGED refreshes
       ELSE refreshes' = {address} /\ UNCHANGED balances
    /\ UNCHANGED <<address, provider, status, stored, connectRunId, connects, disconnects,
                   account, ui>>

\* Nothing checks that the address is still the one shown.
BalanceArrives ==
    /\ \E a \in refreshes : refreshes' = refreshes \ {a} /\ balances' \in {a, NoAddress}
    /\ UNCHANGED <<address, provider, status, stored, connectRunId, connects, disconnects,
                   account, ui>>

AccountSwitched ==
    /\ account' = 3 - account
    /\ UNCHANGED <<displayed, stored, calls, ui>>

\* The four-second timer finds another account in Freighter: the new address is
\* shown, and the balances of the old one are fetched, which the closure holds.
WatchFreighter ==
    /\ status = "connected" /\ provider = "freighter" /\ address # NoAddress
    /\ address # <<"freighter", account>>
    /\ address' = <<"freighter", account>>
    /\ refreshes = {} /\ refreshes' = {address}
    /\ UNCHANGED <<provider, status, balances, stored, connectRunId, connects, disconnects,
                   account, ui>>

\* signTransaction: the wallet that signs, if any is shown; it changes nothing.
Signer == provider

-----------------------------------------------------------------------------
(* The button *)

\* handleTriggerClick, openModal, closeMenu, closeModal: the menu of a wallet
\* that has gone is not drawn, but stays open.
UseButton ==
    /\ ui' \in CASE ui = "closed" -> {IF address # NoAddress THEN "menu" ELSE "modal"}
                 [] ui = "menu" -> {"closed", "modal"}
                 [] OTHER -> {"closed"}
    /\ UNCHANGED <<displayed, stored, calls, account>>

WalletNext ==
    \/ SelectProvider \/ AutoConnect \/ AskDisconnect \/ SwitchWallet
    \/ \E c \in connects : WalletAnswers(c) \/ WalletRefuses(c) \/ ConnectBalance(c)
    \/ \E d \in disconnects : DisconnectEnds(d) \/ DisconnectFails(d)
    \/ RefreshBalance \/ BalanceArrives \/ AccountSwitched \/ WatchFreighter
    \/ UseButton

WalletTypeOK ==
    /\ address \in Addresses \cup {NoAddress} /\ balances \in Addresses \cup {NoAddress}
    /\ {provider, stored} \subseteq WalletProvider \cup {NoWallet}
    /\ status \in {"disconnected", "connecting", "connected", "error"}
    /\ connectRunId \in 0..MaxRuns
    /\ \A c \in connects : c.run \in 1..MaxRuns /\ c.to \in WalletProvider
    /\ refreshes \subseteq Addresses /\ account \in {1, 2}
    /\ ui \in {"closed", "menu", "modal"}

-----------------------------------------------------------------------------
\* While the hook says it is connected, the address it shows, the one a job is
\* paid from, is an address of the wallet that would sign and of the one that is
\* remembered; at worst no wallet is shown at all (a connect that outlived a
\* disconnect).  The hazard is the awaits: a slow wallet answering after the
\* user chose another one, or after a disconnect.
AddressIsShownWallets ==
    status = "connected" =>
        /\ address # NoAddress
        /\ address[1] = stored
        /\ Signer \in {NoWallet, address[1]}
=============================================================================
