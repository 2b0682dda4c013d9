---------------------------- MODULE Clients_proofs ----------------------------
(***************************************************************************)
(* What is proved of the client side: of the payments, the transactions,   *)
(* the calls and uploads of the SDK, the React package's hooks and the     *)
(* dashboard's page, for every value of their constants, each in the midst *)
(* of all the others.                                                      *)
(***************************************************************************)
EXTENDS MCClients, SequenceTheorems, FiniteSetTheorems, TLAPS

----------------------------------------------------------------------------
(* The React package's wallet. *)

WalletSpec == WalletInit /\ [][WalletNext]_walletVars

(***************************************************************************)
(* Of the connects in flight the latest is for the wallet the hook shows,  *)
(* if it shows one.                                                        *)
(***************************************************************************)
LatestIsShown ==
    \A c \in connects : /\ c.run <= connectRunId
                        /\ c.run = connectRunId => provider \in {NoWallet, c.to}

WalletInv ==
    /\ connectRunId \in Nat /\ account \in {1, 2}
    /\ {provider, stored} \subseteq WalletProvider \cup {NoWallet}
    /\ connects \subseteq [run : Nat, to : WalletProvider, at : {"wallet", "balance"},
                            got : Addresses \cup {NoAddress}]
    /\ \A d \in disconnects : d.then \in WalletProvider \cup {NoWallet}
    /\ LatestIsShown /\ AddressIsShownWallets

LEMMA ConnectKeepsInv ==
    ASSUME WalletInv, NEW to \in WalletProvider, Connect(to), account' = account,
           stored' \in {stored, NoWallet}, disconnects' \subseteq disconnects
    PROVE  WalletInv'
<1>1. PICK new : new = [run |-> connectRunId + 1, to |-> to, at |-> "wallet",
                        got |-> NoAddress]
  OBVIOUS
<1>2. connectRunId' = connectRunId + 1 /\ connectRunId \in Nat
  BY DEF Connect, WalletInv
<1>3. connects' = connects \cup {new}
  BY <1>1, <1>2 DEF Connect
<1>4. /\ new.run = connectRunId + 1 /\ new.to = to
      /\ new \in [run : Nat, to : WalletProvider, at : {"wallet", "balance"},
                  got : Addresses \cup {NoAddress}]
  BY <1>1, <1>2
<1>5. LatestIsShown'
  BY <1>2, <1>3, <1>4 DEF Connect, WalletInv, LatestIsShown
<1> QED
  BY <1>2, <1>5, <1>3, <1>4 DEF Connect, WalletInv, AddressIsShownWallets

LEMMA AnswerKeepsInv ==
    ASSUME WalletInv, NEW c \in connects, WalletAnswers(c) PROVE WalletInv'
<1>1. PICK n \in {1, 2} :
               \/ /\ Latest(c) /\ address' = <<c.to, n>> /\ status' = "connected"
                  /\ stored' = c.to
                  /\ connects' = (connects \ {c}) \cup
                                   {[c EXCEPT !.at = "balance", !.got = <<c.to, n>>]}
               \/ /\ connects' = connects \ {c}
                  /\ UNCHANGED <<address, status, stored>>
  <2>1. PICK a \in {IF c.to = "freighter" THEN <<c.to, account>> ELSE <<c.to, 1>>} :
          IF Latest(c)
          THEN /\ address' = a /\ status' = "connected" /\ stored' = c.to
               /\ connects' = (connects \ {c}) \cup {[c EXCEPT !.at = "balance", !.got = a]}
          ELSE /\ connects' = connects \ {c}
               /\ UNCHANGED <<address, status, stored>>
    BY DEF WalletAnswers
  <2>2. CASE c.to = "freighter"
    BY <2>1, <2>2 DEF WalletInv
  <2>3. CASE c.to # "freighter"
    BY <2>1, <2>3
  <2> QED
    BY <2>2, <2>3
<1>2. provider' = provider /\ connectRunId' = connectRunId
  BY DEF WalletAnswers
<1>3. CASE connects' = connects \ {c} /\ UNCHANGED <<address, status, stored>>
  BY <1>2, <1>3 DEF WalletAnswers, WalletInv, LatestIsShown, AddressIsShownWallets, Signer
<1>4. CASE /\ Latest(c) /\ address' = <<c.to, n>> /\ status' = "connected" /\ stored' = c.to
           /\ connects' = (connects \ {c}) \cup
                            {[c EXCEPT !.at = "balance", !.got = <<c.to, n>>]}
  <2>1. provider \in {NoWallet, c.to}
    BY <1>4 DEF Latest, WalletInv, LatestIsShown
  <2>2. address' # NoAddress /\ address'[1] = c.to
    BY <1>4 DEF NoAddress
  <2>3. PICK new : /\ connects' = (connects \ {c}) \cup {new}
                   /\ new \in [run : Nat, to : WalletProvider, at : {"wallet", "balance"},
                               got : Addresses \cup {NoAddress}]
                   /\ new.run = c.run /\ new.to = c.to
    <3>1. c \in [run : Nat, to : WalletProvider, at : {"wallet", "balance"},
                 got : Addresses \cup {NoAddress}]
      BY DEF WalletInv
    <3>2. <<c.to, n>> \in Addresses
      BY <3>1 DEF Addresses
    <3>3. PICK a : a = <<c.to, n>>
      OBVIOUS
    <3>4. PICK new : new = [c EXCEPT !.at = "balance", !.got = a]
      OBVIOUS
    <3>5. /\ new \in [run : Nat, to : WalletProvider, at : {"wallet", "balance"},
                      got : Addresses \cup {NoAddress}]
          /\ new.run = c.run /\ new.to = c.to
      BY <3>1, <3>2, <3>3, <3>4
    <3> QED
      BY <1>4, <3>3, <3>4, <3>5
  <2>4. LatestIsShown'
    BY <1>2, <2>3 DEF WalletInv, LatestIsShown
  <2>5. stored' \in WalletProvider
    BY <1>4 DEF WalletInv
  <2> QED
    BY <1>2, <1>4, <2>1, <2>2, <2>3, <2>4, <2>5
       DEF WalletAnswers, WalletInv, AddressIsShownWallets, Signer
<1> QED
  BY <1>1, <1>3, <1>4

LEMMA WalletStep == WalletInv /\ [WalletNext]_walletVars => WalletInv'
<1> SUFFICES ASSUME WalletInv, [WalletNext]_walletVars PROVE WalletInv'
  OBVIOUS
<1>1. CASE SelectProvider \/ AutoConnect
  BY <1>1, ConnectKeepsInv DEF SelectProvider, AutoConnect, WalletInv
<1>2. CASE AskDisconnect \/ SwitchWallet
  BY <1>2 DEF AskDisconnect, SwitchWallet, Disconnect, displayed, WalletInv, LatestIsShown,
              AddressIsShownWallets, Signer
<1>3. ASSUME NEW c \in connects, WalletAnswers(c) PROVE WalletInv'
  BY <1>3, AnswerKeepsInv
<1>4. ASSUME NEW c \in connects, WalletRefuses(c) \/ ConnectBalance(c) PROVE WalletInv'
  BY <1>4 DEF WalletRefuses, ConnectBalance, WalletInv, LatestIsShown, AddressIsShownWallets,
              Signer
<1>5. ASSUME NEW d \in disconnects, DisconnectEnds(d) PROVE WalletInv'
  <2>1. CASE d.then = NoWallet
    BY <1>5, <2>1 DEF DisconnectEnds, WalletInv, LatestIsShown, AddressIsShownWallets
  <2>2. CASE d.then # NoWallet
    BY <1>5, <2>2, ConnectKeepsInv DEF DisconnectEnds, WalletInv
  <2> QED
    BY <2>1, <2>2
<1>6. ASSUME NEW d \in disconnects, DisconnectFails(d) PROVE WalletInv'
  <2>1. CASE d.then = NoWallet
    BY <1>6, <2>1 DEF DisconnectFails, WalletInv, LatestIsShown, AddressIsShownWallets
  <2>2. CASE d.then # NoWallet
    BY <1>6, <2>2, ConnectKeepsInv DEF DisconnectFails, WalletInv
  <2> QED
    BY <2>1, <2>2
<1>7. CASE RefreshBalance \/ BalanceArrives \/ AccountSwitched \/ UseButton
           \/ UNCHANGED walletVars
  BY <1>7 DEF RefreshBalance, BalanceArrives, AccountSwitched, UseButton, walletVars, displayed,
              calls, WalletInv, LatestIsShown, AddressIsShownWallets, Signer
<1>8. CASE WatchFreighter
  <2>1. address' # NoAddress /\ address'[1] = "freighter"
    BY <1>8 DEF WatchFreighter, NoAddress
  <2>2. stored = "freighter"
    BY <1>8 DEF WatchFreighter, WalletInv, AddressIsShownWallets, Signer, NoWallet
  <2> QED
    BY <1>8, <2>1, <2>2 DEF WatchFreighter, WalletInv, LatestIsShown, AddressIsShownWallets,
                            Signer
<1> QED
  BY <1>1, <1>2, <1>3, <1>4, <1>5, <1>6, <1>7, <1>8 DEF WalletNext

(***************************************************************************)
(* While the hook is connected the address it shows belongs to the wallet  *)
(* that would sign and to the one that is remembered, for any number of    *)
(* connects and disconnects in flight (hooks/useWallet.ts: connectRunId).  *)
(***************************************************************************)
THEOREM ShownAddressIsWallets == WalletSpec => []AddressIsShownWallets
<1>1. WalletInit => WalletInv
  BY DEF WalletInit, WalletStart, WalletInv, LatestIsShown, AddressIsShownWallets
<1>2. WalletInv => AddressIsShownWallets
  BY DEF WalletInv
<1> QED
  BY <1>1, <1>2, WalletStep, PTL DEF WalletSpec

WalletTyped == WalletInv /\ WalletTypeOK

(***************************************************************************)
(* A connect that begins takes the next run and leaves the rest alone.     *)
(***************************************************************************)
LEMMA ConnectKeepsTypes ==
    ASSUME WalletTyped, NEW to \in WalletProvider, Connect(to), account' = account
    PROVE  /\ provider' \in WalletProvider /\ status' = "connecting"
           /\ connectRunId' \in 0..MaxRuns
           /\ \A c \in connects' : c.run \in 1..MaxRuns /\ c.to \in WalletProvider
<1>1. connectRunId' \in 1..MaxRuns
  BY WalletAssumption DEF Connect, WalletTyped, WalletTypeOK
<1>2. connects' = connects \cup {[run |-> connectRunId', to |-> to, at |-> "wallet",
                                  got |-> NoAddress]}
  BY DEF Connect
<1> QED
  BY <1>1, <1>2, WalletAssumption DEF Connect, WalletTyped, WalletTypeOK

LEMMA WalletStaysTyped == WalletSpec => []WalletTypeOK
<1>1. WalletInit => WalletTypeOK
  BY WalletAssumption DEF WalletInit, WalletStart, WalletTypeOK
<1>2. ASSUME WalletInv, WalletTypeOK, [WalletNext]_walletVars, WalletInv' PROVE WalletTypeOK'
  <2> USE <1>2
  <2>1. /\ provider' \in WalletProvider \cup {NoWallet}
        /\ stored' \in WalletProvider \cup {NoWallet} /\ account' \in {1, 2}
    BY DEF WalletInv
  <2>2. CASE SelectProvider \/ AutoConnect
    <3>1. PICK to \in WalletProvider : Connect(to)
      BY <2>2 DEF SelectProvider, AutoConnect, WalletInv
    <3>2. UNCHANGED <<address, balances, refreshes, account>> /\ ui' \in {ui, "closed"}
      BY <2>2 DEF SelectProvider, AutoConnect
    <3> QED
      BY <2>1, <3>1, <3>2, ConnectKeepsTypes DEF WalletTyped, WalletTypeOK
  <2>3. CASE AskDisconnect \/ SwitchWallet
    BY <2>1, <2>3 DEF AskDisconnect, SwitchWallet, Disconnect, displayed, WalletTypeOK
  <2>4. ASSUME NEW c \in connects, WalletAnswers(c) PROVE WalletTypeOK'
    <3>1. /\ c.to \in WalletProvider /\ c.run \in 1..MaxRuns
          /\ c \in [run : Nat, to : WalletProvider, at : {"wallet", "balance"},
                    got : Addresses \cup {NoAddress}]
      BY DEF WalletInv, WalletTypeOK
    <3>2. PICK a \in {IF c.to = "freighter" THEN <<c.to, account>> ELSE <<c.to, 1>>} :
             IF Latest(c)
             THEN /\ address' = a /\ status' = "connected" /\ stored' = c.to
                  /\ connects' = (connects \ {c}) \cup {[c EXCEPT !.at = "balance", !.got = a]}
             ELSE /\ connects' = connects \ {c}
                  /\ UNCHANGED <<address, status, stored>>
      BY <2>4 DEF WalletAnswers
    <3>3. a \in Addresses
      BY <3>1 DEF WalletInv, Addresses
    <3>4. [c EXCEPT !.at = "balance", !.got = a].run = c.run
          /\ [c EXCEPT !.at = "balance", !.got = a].to = c.to
      BY <3>1
    <3>5. /\ \A d \in connects' : d.run \in 1..MaxRuns /\ d.to \in WalletProvider
          /\ address' \in Addresses \cup {NoAddress}
          /\ status' \in {"disconnected", "connecting", "connected", "error"}
      BY <3>1, <3>2, <3>3, <3>4 DEF WalletTypeOK
    <3> QED
      BY <2>1, <2>4, <3>5 DEF WalletAnswers, WalletTypeOK
  <2>5. ASSUME NEW c \in connects, WalletRefuses(c) \/ ConnectBalance(c) PROVE WalletTypeOK'
    <3>1. c.got \in Addresses \cup {NoAddress}
      BY DEF WalletInv
    <3> QED
      BY <2>1, <2>5, <3>1 DEF WalletRefuses, ConnectBalance, WalletTypeOK
  <2>6. ASSUME NEW d \in disconnects, DisconnectEnds(d) \/ DisconnectFails(d)
        PROVE  WalletTypeOK'
    <3>1. CASE d.then = NoWallet
      BY <2>1, <2>6, <3>1 DEF DisconnectEnds, DisconnectFails, WalletTypeOK
    <3>2. CASE d.then # NoWallet
      <4>1. d.then \in WalletProvider /\ Connect(d.then)
        BY <2>6, <3>2 DEF DisconnectEnds, DisconnectFails, WalletInv
      <4> QED
        BY <2>1, <2>6, <4>1, ConnectKeepsTypes
           DEF DisconnectEnds, DisconnectFails, WalletTyped, WalletTypeOK
    <3> QED
      BY <3>1, <3>2
  <2>7. CASE RefreshBalance \/ BalanceArrives
    BY <2>1, <2>7 DEF RefreshBalance, BalanceArrives, WalletTypeOK
  <2>8. CASE AccountSwitched \/ UseButton \/ UNCHANGED walletVars
    BY <2>1, <2>8 DEF AccountSwitched, UseButton, walletVars, displayed, calls, WalletTypeOK
  <2>9. CASE WatchFreighter
    <3>1. account \in {1, 2} /\ provider = "freighter" /\ provider \in WalletProvider
      BY <2>9 DEF WatchFreighter, WalletInv, NoWallet
    <3>2. <<"freighter", account>> \in Addresses
      BY <3>1 DEF Addresses
    <3> QED
      BY <2>1, <2>9, <3>2 DEF WatchFreighter, WalletTypeOK
  <2> QED
    BY <2>2, <2>3, <2>4, <2>5, <2>6, <2>7, <2>8, <2>9 DEF WalletNext
<1>3. WalletInit => WalletInv
  BY DEF WalletInit, WalletStart, WalletInv, LatestIsShown, AddressIsShownWallets
<1> QED
  BY <1>1, <1>2, <1>3, WalletStep, PTL DEF WalletSpec

----------------------------------------------------------------------------
(* The cache of payments that were answered. *)

DedupSpec == DedupInit /\ [][DedupNext]_dedupVars

Holding(b) == bearer[b].kind = "acquired" /\ ~Overdue(b)
Undisturbed(h) == \A d \in Bearers : bearer[d].hash = h => bearer[d].kind # "late"

(***************************************************************************)
(* The reservation of a request that still holds its payment is in the     *)
(* cache for as long as it runs, also when another request of the same     *)
(* payment has overwritten it.                                             *)
(***************************************************************************)
ReservationLives ==
    \A b \in Bearers : Holding(b) /\ Undisturbed(bearer[b].hash) =>
        dedup[bearer[b].hash].expiresAt >= heldUntil[b]

DedupInv ==
    /\ dedupClock \in Nat /\ heldUntil \in [Bearers -> Nat]
    /\ \A b \in Bearers : heldUntil[b] <= dedupClock + dedupTtl
    /\ dedup \in [Hashes -> [status : {"none", "PROCESSING", "SETTLED"}, expiresAt : Nat]]
    /\ bearer \in [Bearers -> [hash : Hashes \cup {"none"},
                               kind : {"none", "acquired", "in-flight", "settled", "served",
                                       "late", "refused"}]]
    /\ \A b \in Bearers : bearer[b].kind = "acquired" => bearer[b].hash \in Hashes
    /\ ReservationLives /\ HeldAlone

LEMMA DedupStarts == DedupInit => DedupInv
<1> SUFFICES ASSUME DedupInit PROVE DedupInv
  OBVIOUS
<1>1. \A b \in Bearers : bearer[b].kind = "none"
  BY DEF DedupInit, Unasked
<1>2. ReservationLives /\ HeldAlone
  BY <1>1 DEF ReservationLives, HeldAlone, Holding
<1>3. bearer \in [Bearers -> [hash : Hashes \cup {"none"},
                             kind : {"none", "acquired", "in-flight", "settled", "served",
                                     "late", "refused"}]]
  BY DEF DedupInit, Unasked
<1> QED
  BY <1>1, <1>2, <1>3, DedupAssumption DEF DedupInit, DedupInv, Missing

(***************************************************************************)
(* What leaves the requests as they are, and of the cache only drops what  *)
(* has expired, keeps the reservations.                                    *)
(***************************************************************************)
LEMMA DroppingKeepsInv ==
    ASSUME DedupInv, UNCHANGED <<dedupClock, bearer, heldUntil>>,
           dedup' \in [Hashes -> [status : {"none", "PROCESSING", "SETTLED"}, expiresAt : Nat]],
           \A h \in Hashes : dedup'[h] \in {dedup[h], LiveEntry(h)}
    PROVE  DedupInv'
<1>1. ReservationLives'
  BY DEF DedupInv, ReservationLives, Holding, Undisturbed, Overdue, LiveEntry
<1> QED
  BY <1>1 DEF DedupInv, HeldAlone, Overdue

LEMMA ReserveKeepsInv ==
    ASSUME DedupInv, NEW b \in Bearers, NEW h \in Hashes, Reserve(b, h) PROVE DedupInv'
<1> DEFINE entry == LiveEntry(h)
           free == entry = Missing
<1>1. /\ bearer[b].kind = "none" /\ dedupClock' = dedupClock
      /\ dedup' = [dedup EXCEPT ![h] =
                     IF free THEN [status |-> "PROCESSING", expiresAt |-> dedupClock + dedupTtl]
                     ELSE entry]
      /\ heldUntil' = [heldUntil EXCEPT ![b] = IF free THEN dedupClock + dedupTtl ELSE 0]
  BY DEF Reserve, Keep, Entry
<1>2. PICK kind \in {"acquired", "in-flight", "settled"} :
          /\ bearer' = [bearer EXCEPT ![b] = [hash |-> h, kind |-> kind]]
          /\ kind = "acquired" <=> free
  <2>1. CASE free
    <3>1. bearer' = [bearer EXCEPT ![b] = [hash |-> h, kind |-> "acquired"]]
      BY <2>1 DEF Reserve, Missing
    <3> HIDE DEF free
    <3> QED
      BY <2>1, <3>1
  <2>2. CASE ~free /\ entry.status = "SETTLED"
    BY <2>2 DEF Reserve
  <2>3. CASE ~free /\ entry.status # "SETTLED"
    BY <2>3 DEF Reserve
  <2> QED
    BY <2>1, <2>2, <2>3
<1>3. dedupClock \in Nat /\ dedupTtl \in Nat /\ dedupClock + dedupTtl \in Nat
  BY DedupAssumption DEF DedupInv
<1>4. /\ \A c \in Bearers \ {b} : bearer'[c] = bearer[c] /\ heldUntil'[c] = heldUntil[c]
      /\ bearer'[b].hash = h /\ bearer'[b].kind = kind /\ kind # "late"
      /\ heldUntil'[b] = IF free THEN dedupClock + dedupTtl ELSE 0
      /\ \A g \in Hashes \ {h} : dedup'[g] = dedup[g]
  BY <1>1, <1>2 DEF DedupInv
<1>5. \A c \in Bearers : bearer'[c].hash = bearer[c].hash \/ c = b
  BY <1>4
<1>6. \A g : Undisturbed(g)' => Undisturbed(g)
  BY <1>1, <1>4 DEF Undisturbed
<1>7. dedup'[h] = IF free THEN [status |-> "PROCESSING", expiresAt |-> dedupClock + dedupTtl]
                  ELSE entry
  BY <1>1 DEF DedupInv
<1>8. ~free => dedup'[h] = dedup[h]
  BY <1>7 DEF LiveEntry
<1>9. ASSUME NEW c \in Bearers \ {b}, Holding(c)', Undisturbed(bearer[c].hash)'
      PROVE  /\ Holding(c) /\ Undisturbed(bearer[c].hash)
             /\ dedup[bearer[c].hash].expiresAt >= heldUntil[c]
             /\ bearer[c].hash = h => ~free
  <2>1. Holding(c) /\ Undisturbed(bearer[c].hash)
    BY <1>1, <1>4, <1>6, <1>9 DEF Holding, Overdue
  <2>2. dedup[bearer[c].hash].expiresAt >= heldUntil[c] /\ heldUntil[c] > dedupClock
    BY <1>3, <2>1 DEF DedupInv, ReservationLives, Holding, Overdue
  <2>3. bearer[c].hash = h => dedup[h].expiresAt > dedupClock
    BY <1>3, <2>2 DEF DedupInv
  <2> QED
    BY <1>3, <2>1, <2>2, <2>3 DEF LiveEntry, Missing, DedupInv
<1>10. /\ heldUntil' \in [Bearers -> Nat]
       /\ \A c \in Bearers : heldUntil'[c] <= dedupClock' + dedupTtl
       /\ dedup' \in [Hashes -> [status : {"none", "PROCESSING", "SETTLED"}, expiresAt : Nat]]
       /\ bearer' \in [Bearers -> [hash : Hashes \cup {"none"},
                               kind : {"none", "acquired", "in-flight", "settled", "served",
                                       "late", "refused"}]]
       /\ \A c \in Bearers : bearer'[c].kind = "acquired" => bearer'[c].hash \in Hashes
  BY <1>1, <1>2, <1>3 DEF DedupInv, LiveEntry, Missing
<1>11. ReservationLives'
  <2> SUFFICES ASSUME NEW c \in Bearers, Holding(c)', Undisturbed(bearer[c].hash)'
               PROVE  dedup'[bearer'[c].hash].expiresAt >= heldUntil'[c]
    BY DEF ReservationLives
  <2>1. CASE c = b
    BY <1>2, <1>3, <1>4, <1>7, <2>1 DEF Holding
  <2>2. CASE c # b
    <3>1. bearer'[c] = bearer[c] /\ heldUntil'[c] = heldUntil[c] /\ bearer[c].hash \in Hashes
      BY <1>4, <2>2 DEF Holding, DedupInv
    <3>2. dedup[bearer[c].hash].expiresAt >= heldUntil[c] /\ (bearer[c].hash = h => ~free)
      BY <1>9, <2>2, <3>1
    <3> QED
      BY <1>4, <1>8, <3>1, <3>2
  <2> QED
    BY <2>1, <2>2
<1>12. HeldAlone'
  <2> SUFFICES ASSUME NEW c \in Bearers, NEW d \in Bearers, c # d,
                      bearer'[c].hash = bearer'[d].hash, Holding(c)', Holding(d)',
                      Undisturbed(bearer[c].hash)'
               PROVE  FALSE
    BY DEF HeldAlone, Holding, Undisturbed
  <2>1. CASE c # b /\ d # b
    <3>1. bearer'[c] = bearer[c] /\ bearer'[d] = bearer[d]
      BY <1>4, <2>1
    <3>2. Holding(c) /\ Holding(d) /\ Undisturbed(bearer[c].hash)
      BY <1>9, <2>1, <3>1
    <3> QED
      BY <3>1, <3>2 DEF DedupInv, HeldAlone, Holding, Undisturbed
  <2>2. ASSUME NEW e \in Bearers \ {b}, Holding(b)', Holding(e)', bearer'[e].hash = h,
               Undisturbed(h)'
        PROVE  FALSE
    BY <1>2, <1>4, <1>9, <2>2 DEF Holding
  <2> QED
    BY <1>4, <2>1, <2>2
<1> QED
  BY <1>1, <1>3, <1>10, <1>11, <1>12 DEF DedupInv

(***************************************************************************)
(* A request that ends, served or refused, keeps the reservations of the   *)
(* others, unless it ends late.                                            *)
(***************************************************************************)
LEMMA EndKeepsInv ==
    ASSUME DedupInv, NEW b \in Bearers, SettlePayment(b) \/ ReleasePayment(b) PROVE DedupInv'
<1>1. PICK h \in Hashes : h = bearer[b].hash
  BY DEF SettlePayment, ReleasePayment, DedupInv
<1>2. PICK kind \in {"served", "late", "refused"} :
          /\ bearer' = [bearer EXCEPT ![b].kind = kind]
          /\ ReleasePayment(b) /\ Overdue(b) => kind = "late"
  BY DEF SettlePayment, ReleasePayment
<1>3. PICK entry : dedup' = [dedup EXCEPT ![h] = entry]
  BY <1>1 DEF SettlePayment, ReleasePayment, Keep
<1>4. /\ dedupClock \in Nat /\ dedupTtl \in Nat /\ dedupClock + dedupTtl \in Nat
      /\ dedupClock' = dedupClock /\ heldUntil' = heldUntil /\ bearer[b].kind = "acquired"
  BY DedupAssumption DEF DedupInv, SettlePayment, ReleasePayment
<1>5. dedup[h] \in [status : {"none", "PROCESSING", "SETTLED"}, expiresAt : Nat]
  BY DEF DedupInv
<1>6. entry \in {Missing, LiveEntry(h), [status |-> "SETTLED", expiresAt |-> dedupClock + dedupTtl]}
  <2>1. dedup'[h] = entry
    BY <1>3 DEF DedupInv
  <2>2. dedup'[h] \in {Missing, LiveEntry(h),
                       [status |-> "SETTLED", expiresAt |-> dedupClock + dedupTtl]}
    BY <1>1 DEF SettlePayment, ReleasePayment, Keep, Entry, DedupInv
  <2> QED
    BY <2>1, <2>2
<1>7. entry \in [status : {"none", "PROCESSING", "SETTLED"}, expiresAt : Nat]
  BY <1>4, <1>5, <1>6 DEF Missing, LiveEntry
<1>8. /\ dedup' \in [Hashes -> [status : {"none", "PROCESSING", "SETTLED"}, expiresAt : Nat]]
      /\ bearer' \in [Bearers -> [hash : Hashes \cup {"none"},
                               kind : {"none", "acquired", "in-flight", "settled", "served",
                                       "late", "refused"}]]
      /\ \A c \in Bearers \ {b} : bearer'[c] = bearer[c]
      /\ bearer'[b].hash = h /\ bearer'[b].kind = kind
      /\ dedup'[h] = entry /\ \A g \in Hashes \ {h} : dedup'[g] = dedup[g]
  BY <1>1, <1>2, <1>3, <1>7 DEF DedupInv
<1>9. \A g : Undisturbed(g)' => Undisturbed(g) /\ (g = h => kind # "late")
  BY <1>4, <1>8 DEF Undisturbed
<1>10. ASSUME NEW c \in Bearers, Holding(c)', Undisturbed(bearer[c].hash)'
       PROVE  /\ c # b /\ Holding(c) /\ Undisturbed(bearer[c].hash)
              /\ bearer'[c] = bearer[c]
              /\ dedup[bearer[c].hash].expiresAt >= heldUntil[c]
              /\ bearer[c].hash = h => kind # "late"
  <2>1. c # b /\ bearer'[c] = bearer[c]
    BY <1>8, <1>10 DEF Holding
  <2>2. Holding(c) /\ Undisturbed(bearer[c].hash)
    BY <1>4, <1>9, <1>10, <2>1 DEF Holding, Overdue
  <2>3. bearer[c].hash = h => kind # "late"
    BY <1>9, <1>10, <2>1
  <2> QED
    BY <2>1, <2>2, <2>3 DEF DedupInv, ReservationLives
<1>11. ReservationLives'
  <2> SUFFICES ASSUME NEW c \in Bearers, Holding(c)', Undisturbed(bearer[c].hash)'
               PROVE  dedup'[bearer'[c].hash].expiresAt >= heldUntil'[c]
    BY DEF ReservationLives
  <2>1. /\ c # b /\ Holding(c) /\ Undisturbed(bearer[c].hash) /\ bearer'[c] = bearer[c]
        /\ dedup[bearer[c].hash].expiresAt >= heldUntil[c] /\ bearer[c].hash \in Hashes
        /\ heldUntil[c] > dedupClock /\ heldUntil[c] <= dedupClock + dedupTtl
        /\ heldUntil[c] \in Nat
    BY <1>4, <1>10 DEF Holding, Overdue, DedupInv
  <2>2. CASE bearer[c].hash # h
    BY <1>4, <1>8, <2>1, <2>2
  <2>3. CASE bearer[c].hash = h
    <3>1. LiveEntry(h) = dedup[h] /\ LiveEntry(h) # Missing
      BY <1>4, <1>5, <2>1, <2>3 DEF LiveEntry, Missing
    <3>2. SettlePayment(b)
      <4> SUFFICES ASSUME ReleasePayment(b) PROVE FALSE
        OBVIOUS
      <4>1. ~Overdue(b)
        BY <1>2, <1>10, <2>1, <2>3
      <4> QED
        BY <1>1, <1>4, <2>1, <2>3, <4>1 DEF DedupInv, HeldAlone, Holding, Undisturbed
    <3>3. dedup'[h] = [status |-> "SETTLED", expiresAt |-> dedupClock + dedupTtl]
      BY <1>1, <3>1, <3>2 DEF SettlePayment, Keep, Entry, DedupInv
    <3> QED
      BY <1>4, <2>1, <2>3, <3>3
  <2> QED
    BY <2>2, <2>3
<1>12. HeldAlone'
  <2> SUFFICES ASSUME NEW c \in Bearers, NEW d \in Bearers, c # d,
                      bearer'[c].hash = bearer'[d].hash, Holding(c)', Holding(d)',
                      Undisturbed(bearer[c].hash)'
               PROVE  FALSE
    BY DEF HeldAlone, Holding, Undisturbed
  <2>1. Holding(c) /\ Undisturbed(bearer[c].hash) /\ bearer'[c] = bearer[c]
    BY <1>10
  <2>2. Holding(d) /\ bearer'[d] = bearer[d]
    BY <1>10
  <2> QED
    BY <2>1, <2>2 DEF DedupInv, HeldAlone, Holding, Undisturbed
<1> QED
  BY <1>4, <1>8, <1>11, <1>12 DEF DedupInv

LEMMA DedupStep == DedupInv /\ [DedupNext]_dedupVars => DedupInv'
<1> SUFFICES ASSUME DedupInv, [DedupNext]_dedupVars PROVE DedupInv'
  OBVIOUS
<1>1. ASSUME NEW b \in Bearers, NEW h \in Hashes, Reserve(b, h) PROVE DedupInv'
  BY <1>1, ReserveKeepsInv
<1>2. ASSUME NEW b \in Bearers, SettlePayment(b) \/ ReleasePayment(b) PROVE DedupInv'
  BY <1>2, EndKeepsInv
<1>3. \A h \in Hashes :
        LiveEntry(h) \in [status : {"none", "PROCESSING", "SETTLED"}, expiresAt : Nat]
  BY DEF DedupInv, LiveEntry, Missing
<1>4. ASSUME NEW h \in Hashes, GetEntry(h) PROVE DedupInv'
  BY <1>3, <1>4, DroppingKeepsInv DEF GetEntry, Keep, DedupInv
<1>5. CASE Prune
  BY <1>3, <1>5, DroppingKeepsInv DEF Prune
<1>6. CASE ClearDedup
  <2>1. \A b \in Bearers : ~Holding(b)'
    BY <1>6 DEF ClearDedup, DedupInv, Holding, Overdue
  <2>2. ReservationLives' /\ HeldAlone'
    BY <2>1 DEF ReservationLives, HeldAlone, Holding
  <2> QED
    BY <1>6, <2>2, DedupAssumption DEF ClearDedup, DedupInv, Missing
<1>7. CASE DedupTick
  <2>1. /\ dedupClock \in Nat /\ dedupTtl \in Nat /\ dedupClock' = dedupClock + 1
        /\ UNCHANGED <<dedup, bearer, heldUntil>>
    BY <1>7, DedupAssumption DEF DedupTick, DedupInv
  <2>2. \A b \in Bearers : Holding(b)' => Holding(b)
    BY <2>1 DEF Holding, Overdue, DedupInv
  <2>3. ReservationLives'
    BY <2>1, <2>2 DEF DedupInv, ReservationLives, Undisturbed
  <2>4. HeldAlone'
    BY <2>1, <2>2 DEF DedupInv, HeldAlone, Holding
  <2>5. \A b \in Bearers : heldUntil'[b] <= dedupClock' + dedupTtl
    BY <2>1 DEF DedupInv
  <2> QED
    BY <2>1, <2>3, <2>4, <2>5 DEF DedupInv
<1>8. CASE UNCHANGED dedupVars
  BY <1>8 DEF dedupVars, DedupInv, ReservationLives, HeldAlone, Holding, Undisturbed, Overdue
<1> QED
  BY <1>1, <1>2, <1>4, <1>5, <1>6, <1>7, <1>8 DEF DedupNext

(***************************************************************************)
(* One request at a time holds a payment, for as long as its reservation   *)
(* runs and no request of the same payment has ended after its own         *)
(* (sdk/src/marcPaywallCore.ts: PaymentDedupCache), for any number of      *)
(* requests and payments and any ttl.                                      *)
(***************************************************************************)
THEOREM OneHoldsThePayment == DedupSpec => []HeldAlone
<1>1. DedupInv => HeldAlone
  BY DEF DedupInv
<1> QED
  BY <1>1, DedupStarts, DedupStep, PTL DEF DedupSpec

LEMMA DedupStaysTyped == DedupSpec => []DedupTypeOK
<1>1. DedupInv => DedupTypeOK
  BY DEF DedupInv, DedupTypeOK
<1> QED
  BY <1>1, DedupStarts, DedupStep, PTL DEF DedupSpec

----------------------------------------------------------------------------
(* A buyer's calls against the paywall. *)

X402Spec == PaywallInit /\ FetchInit /\ [][FetchNext]_x402Vars

\* The server is at work on request r.
Working(r) == req[r].at \in {"verifying", "handling"}

(***************************************************************************)
(* A proof is spent in vain when the middleware has challenged it: its     *)
(* claim stays in the cache, so that nobody works on it again and it is    *)
(* never settled.                                                          *)
(***************************************************************************)
InVain(p) ==
    p \notin forgot =>
        /\ cache[p] = "PROCESSING" /\ p \notin settled
        /\ \A r \in Reqs : req[r].proof = p => ~Working(r)

(***************************************************************************)
(* What the guard of the Express middleware achieves for a proof it has    *)
(* not forgotten: one request is at work on it, holds its claim, and is    *)
(* the one that settles it; and a settled proof stays in the cache.        *)
(***************************************************************************)
ClaimsAreHeld ==
    \A p \in Proofs \ forgot :
        /\ \A r, s \in Reqs : Working(r) /\ Working(s) /\ req[r].proof = p
                                /\ req[s].proof = p => r = s
        /\ \A r \in Reqs : Working(r) /\ req[r].proof = p =>
              cache[p] = "PROCESSING" /\ p \notin settled
        /\ p \in settled => cache[p] # "absent"
        /\ \A r, s \in Reqs : <<p, r>> \in runs /\ <<p, s>> \in runs => r = s
        /\ \A r \in Reqs : <<p, r>> \in runs => p \in settled

(***************************************************************************)
(* A call signs its proofs in order and sends the last one; and it awaits  *)
(* a request of its own.                                                   *)
(***************************************************************************)
SendsLast(c) ==
    call[c].proof = IF call[c].signed = 0 THEN NoProof ELSE <<c, call[c].signed>>

Awaits(c) ==
    call[c].pc \in {"await", "reawait"} =>
        /\ call[c].r \in Reqs /\ req[call[c].r].at # "free"
        /\ req[call[c].r].call = c /\ req[call[c].r].open
        /\ req[call[c].r].proof = call[c].proof

CallsInOrder ==
    /\ \A c \in Calls : SendsLast(c) /\ Awaits(c)
    /\ \A p \in Proofs : p[2] > call[p[1]].signed =>
          p \notin settled /\ \A r \in Reqs : req[r].proof # p

\* Request s was answered with 402.
Refused(s) == req[s].at = "answered" /\ req[s].status = "402"

\* The proof will not be sent again: there is a newer one, or will be.
Replaced(p) ==
    \/ p[2] < call[p[1]].signed
    \/ p[2] = call[p[1]].signed /\ call[p[1]].pc = "pay"

(***************************************************************************)
(* Only a 402 to its last proof lets a call sign another.                  *)
(***************************************************************************)
OldProofsInVain ==
    \A p \in Proofs :
        /\ Replaced(p) => InVain(p)
        /\ \A r \in Reqs : Refused(r) /\ req[r].proof = p => InVain(p)

Slots ==
    [ call : Calls \cup {FreeRequest.call}, proof : Proofs \cup {NoProof},
      at : {"free", "sent", "verifying", "handling", "answered", "gone"},
      open : BOOLEAN, claimed : BOOLEAN, armed : BOOLEAN, verified : BOOLEAN,
      status : {"", "200", "402", "409", "500"} ]

CallRecords ==
    [ pc : {"idle", "fetch", "await", "pay", "refetch", "reawait", "done"},
      attempts : Nat, retry : Nat, triggered : BOOLEAN, proof : Proofs \cup {NoProof},
      signed : Nat, r : Reqs \cup {0},
      reported : {"", "signing", "pending", "settled", "failed"},
      result : {"none", "error", "MarcPaymentTimeoutError", "", "200", "402", "409", "500"} ]

ServerTypes ==
    /\ cache \in [Proofs -> {"absent", "PROCESSING", "SETTLED"}]
    /\ req \in [Reqs -> Slots]
    /\ settled \subseteq Proofs /\ runs \subseteq Proofs \X Reqs /\ forgot \subseteq Proofs
    /\ \A r \in Reqs : req[r].at = "handling" => req[r].verified /\ req[r].proof # NoProof

X402Types == ServerTypes /\ call \in [Calls -> CallRecords]

X402Inv ==
    adapter = "express" =>
        X402Types /\ ClaimsAreHeld /\ CallsInOrder /\ OldProofsInVain

\* The class of steps that leave a proof with what holds it, unless they forget it.
KeepsClaims ==
    /\ forgot \subseteq forgot' /\ settled' = settled /\ runs' = runs
    /\ \A p \in Proofs \ forgot' : cache'[p] = cache[p]
    /\ \A r \in Reqs : Working(r)' /\ req'[r].proof \in Proofs =>
          Working(r) /\ req'[r].proof = req[r].proof

LEMMA KeptClaims ==
    ASSUME ServerTypes, ClaimsAreHeld, KeepsClaims
    PROVE  ClaimsAreHeld' /\ \A p \in Proofs : InVain(p) => InVain(p)'
<1>1. ASSUME NEW p \in Proofs \ forgot'
      PROVE  /\ p \in Proofs \ forgot /\ cache'[p] = cache[p]
             /\ p \in settled' <=> p \in settled
             /\ \A r \in Reqs : Working(r)' /\ req'[r].proof = p =>
                   Working(r) /\ req[r].proof = p
  BY <1>1 DEF KeepsClaims
<1>2. runs' = runs /\ Proofs \ forgot' \subseteq Proofs \ forgot
  BY DEF KeepsClaims
<1>3. ClaimsAreHeld'
  <2> SUFFICES ASSUME NEW p \in Proofs \ forgot'
               PROVE  /\ \A r, s \in Reqs : Working(r)' /\ Working(s)' /\ req'[r].proof = p
                                              /\ req'[s].proof = p => r = s
                      /\ \A r \in Reqs : Working(r)' /\ req'[r].proof = p =>
                            cache'[p] = "PROCESSING" /\ p \notin settled'
                      /\ p \in settled' => cache'[p] # "absent"
                      /\ \A r, s \in Reqs :
                            <<p, r>> \in runs /\ <<p, s>> \in runs => r = s
                      /\ \A r \in Reqs : <<p, r>> \in runs => p \in settled'
    BY <1>2 DEF ClaimsAreHeld
  <2>1. /\ \A r, s \in Reqs : Working(r) /\ Working(s) /\ req[r].proof = p
                                 /\ req[s].proof = p => r = s
        /\ \A r \in Reqs : Working(r) /\ req[r].proof = p =>
               cache[p] = "PROCESSING" /\ p \notin settled
        /\ p \in settled => cache[p] # "absent"
        /\ \A r, s \in Reqs : <<p, r>> \in runs /\ <<p, s>> \in runs => r = s
        /\ \A r \in Reqs : <<p, r>> \in runs => p \in settled
    BY <1>2 DEF ClaimsAreHeld
  <2> QED
    BY <1>1, <2>1
<1>4. ASSUME NEW p \in Proofs, InVain(p) PROVE InVain(p)'
  BY <1>1, <1>2, <1>4 DEF InVain
<1> QED
  BY <1>3, <1>4

(***************************************************************************)
(* What the server does to the requests: it takes none away, and a proof   *)
(* it refuses is spent in vain.  What it settles was in some request.      *)
(***************************************************************************)
ServerMoves ==
    /\ \A s \in Reqs : /\ req'[s].call = req[s].call /\ req'[s].open = req[s].open
                       /\ req'[s].proof = req[s].proof
                       /\ req[s].at # "free" => req'[s].at # "free"
                       /\ \A p \in Proofs : Refused(s)' /\ req'[s].proof = p =>
                             Refused(s) \/ InVain(p)'
    /\ \A p \in settled' : p \in settled \/ \E s \in Reqs : req[s].proof = p

LEMMA AnswerIs ==
    ASSUME ServerTypes, NEW r \in Reqs, NEW code \in {"200", "402", "409", "500"},
           req' = Answer(r, code)
    PROVE  /\ req' \in [Reqs -> Slots]
           /\ req'[r].at = "answered" /\ req'[r].status = code
           /\ req'[r].call = req[r].call /\ req'[r].open = req[r].open
           /\ req'[r].proof = req[r].proof
           /\ \A s \in Reqs \ {r} : req'[s] = req[s]
<1>1. PICK rec : rec = [req[r] EXCEPT !.at = "answered", !.status = code]
  OBVIOUS
<1>2. /\ rec \in Slots /\ rec.at = "answered" /\ rec.status = code
      /\ rec.call = req[r].call /\ rec.open = req[r].open /\ rec.proof = req[r].proof
  BY <1>1 DEF ServerTypes, Slots
<1>3. req' = [req EXCEPT ![r] = rec]
  BY <1>1 DEF Answer, ServerTypes
<1> QED
  BY <1>2, <1>3 DEF ServerTypes

LEMMA MovesOn ==
    ASSUME ServerTypes, NEW r \in Reqs, NEW rec,
           rec.call = req[r].call, rec.open = req[r].open, rec.proof = req[r].proof,
           rec.at # "free", rec.at # "answered", req' = [req EXCEPT ![r] = rec],
           settled' = settled
    PROVE  ServerMoves
<1>1. req'[r] = rec /\ \A s \in Reqs \ {r} : req'[s] = req[s]
  BY DEF ServerTypes
<1> QED
  BY <1>1 DEF ServerMoves, Refused

LEMMA ClaimStep ==
    ASSUME ServerTypes, ClaimsAreHeld, NEW r \in Reqs, ClaimOrPass(r)
    PROVE  /\ ServerTypes' /\ ServerMoves /\ ClaimsAreHeld'
           /\ \A p \in Proofs : InVain(p) => InVain(p)'
<1>1. PICK guarded \in BOOLEAN : guarded = (req[r].proof # NoProof)
  OBVIOUS
<1>2. PICK rec : rec = [req[r] EXCEPT !.at = "verifying", !.claimed = guarded]
  OBVIOUS
<1>3. /\ req[r].at = "sent" /\ req' = [req EXCEPT ![r] = rec]
      /\ UNCHANGED <<settled, runs, forgot>>
  BY <1>1, <1>2 DEF ClaimOrPass, Verifies, ServerTypes, Slots
<1>4. /\ rec \in Slots /\ rec.at = "verifying" /\ rec.call = req[r].call
      /\ rec.open = req[r].open /\ rec.proof = req[r].proof
  <2>1. req[r] \in Slots
    BY DEF ServerTypes
  <2> QED
    BY <1>2, <2>1 DEF Slots
<1>5. req'[r] = rec /\ \A s \in Reqs \ {r} : req'[s] = req[s]
  BY <1>3 DEF ServerTypes
<1>6. ServerMoves
  BY <1>3, <1>4, MovesOn
<1>7. req[r].proof \in Proofs \cup {NoProof}
  BY DEF ServerTypes, Slots
<1>8. CASE req[r].proof \in Proofs /\ req[r].proof # NoProof
  <2>1. PICK p \in Proofs : p = req[r].proof
    BY <1>8
  <2>2. cache[p] = "absent" /\ cache' = [cache EXCEPT ![p] = "PROCESSING"]
    BY <1>8, <2>1 DEF ClaimOrPass, Verifies
  <2>3. ServerTypes'
    BY <1>3, <1>4, <1>5, <2>2 DEF ServerTypes
  <2>4. cache'[p] = "PROCESSING" /\ \A q \in Proofs \ {p} : cache'[q] = cache[q]
    BY <2>2 DEF ServerTypes
  <2>5. p \notin forgot => p \notin settled /\ \A s \in Reqs : req[s].proof = p => ~Working(s)
    BY <2>2 DEF ClaimsAreHeld
  <2>6. \A s \in Reqs : req'[s].proof = req[s].proof /\ (s # r => Working(s)' <=> Working(s))
    BY <1>4, <1>5 DEF Working
  <2>7. ASSUME NEW q \in Proofs \ forgot
        PROVE  /\ \A s, t \in Reqs : Working(s)' /\ Working(t)' /\ req'[s].proof = q
                                       /\ req'[t].proof = q => s = t
               /\ \A s \in Reqs : Working(s)' /\ req'[s].proof = q =>
                     cache'[q] = "PROCESSING" /\ q \notin settled
               /\ q \in settled => cache'[q] # "absent"
    <3>1. /\ \A s, t \in Reqs : Working(s) /\ Working(t) /\ req[s].proof = q
                                  /\ req[t].proof = q => s = t
          /\ \A s \in Reqs : Working(s) /\ req[s].proof = q =>
                cache[q] = "PROCESSING" /\ q \notin settled
          /\ q \in settled => cache[q] # "absent"
      BY DEF ClaimsAreHeld
    <3>2. CASE q = p
      BY <2>1, <2>4, <2>5, <2>6, <3>2
    <3>3. CASE q # p
      BY <2>1, <2>4, <2>6, <3>1, <3>3
    <3> QED
      BY <3>2, <3>3
  <2>8. ClaimsAreHeld'
    BY <1>3, <2>7 DEF ClaimsAreHeld
  <2>9. ASSUME NEW q \in Proofs, InVain(q) PROVE InVain(q)'
    BY <1>3, <2>1, <2>2, <2>4, <2>6, <2>9 DEF InVain
  <2> QED
    BY <1>6, <2>3, <2>8, <2>9
<1>9. CASE req[r].proof = NoProof /\ NoProof \notin Proofs
  <2>1. cache' = cache
    BY <1>9 DEF ClaimOrPass, Verifies
  <2>2. ServerTypes'
    BY <1>3, <1>4, <1>5, <2>1 DEF ServerTypes
  <2>3. KeepsClaims
    BY <1>3, <1>4, <1>5, <1>9, <2>1 DEF KeepsClaims, Working
  <2> QED
    BY <1>6, <2>2, <2>3, KeptClaims
<1>10. NoProof \notin Proofs
  BY DEF NoProof, Proofs
<1> QED
  BY <1>7, <1>8, <1>9, <1>10

LEMMA QuietServerStep ==
    ASSUME ServerTypes, ClaimsAreHeld, adapter = "express", NEW r \in Reqs,
           Granted(r) \/ Challenged(r) \/ ReplayOrConflict(r) \/ MiddlewareError(r)
    PROVE  /\ ServerTypes' /\ ServerMoves /\ ClaimsAreHeld'
           /\ \A p \in Proofs : InVain(p) => InVain(p)'
<1>1. /\ req[r] \in Slots /\ settled' = settled /\ runs' = runs
      /\ req[r].proof \in Proofs \cup {NoProof}
  BY DEF ServerTypes, Slots, Granted, Challenged, ReplayOrConflict, MiddlewareError
<1>2. NoProof \notin Proofs
  BY DEF NoProof, Proofs
<1>3. CASE Granted(r)
  <2>1. PICK both \in BOOLEAN : both = (req[r].claimed /\ req[r].open)
    BY <1>1 DEF Slots
  <2>2. PICK rec : rec = [req[r] EXCEPT !.at = "handling", !.verified = TRUE, !.armed = both]
    OBVIOUS
  <2>3. /\ rec \in Slots /\ rec.at = "handling" /\ rec.call = req[r].call /\ rec.verified = TRUE
        /\ rec.open = req[r].open /\ rec.proof = req[r].proof
    BY <1>1, <2>1, <2>2 DEF Slots
  <2>4. /\ req[r].at = "verifying" /\ req[r].proof # NoProof
        /\ req' = [req EXCEPT ![r] = rec] /\ UNCHANGED <<cache, forgot>>
    BY <1>3, <2>1, <2>2 DEF Granted, ServerTypes
  <2>5. req'[r] = rec /\ \A s \in Reqs \ {r} : req'[s] = req[s]
    BY <2>4 DEF ServerTypes
  <2>6. ServerTypes'
    BY <1>1, <2>3, <2>4, <2>5 DEF ServerTypes
  <2>7. ServerMoves
    BY <1>1, <2>3, <2>4, MovesOn
  <2>8. KeepsClaims
    BY <1>1, <2>3, <2>4, <2>5 DEF KeepsClaims, Working
  <2> QED
    BY <2>6, <2>7, <2>8, KeptClaims
<1>4. ASSUME NEW code \in {"200", "402", "409", "500"}, req' = Answer(r, code),
             req[r].at # "free", forgot \subseteq forgot', forgot' \subseteq Proofs,
             cache' \in [Proofs -> {"absent", "PROCESSING", "SETTLED"}],
             \A p \in Proofs \ forgot' : cache'[p] = cache[p],
             \A p \in Proofs : code = "402" /\ req[r].proof = p => InVain(p)'
      PROVE  /\ ServerTypes' /\ ServerMoves /\ ClaimsAreHeld'
             /\ \A p \in Proofs : InVain(p) => InVain(p)'
  <2>1. /\ req' \in [Reqs -> Slots] /\ req'[r].at = "answered" /\ req'[r].status = code
        /\ req'[r].call = req[r].call /\ req'[r].open = req[r].open
        /\ req'[r].proof = req[r].proof
        /\ \A s \in Reqs \ {r} : req'[s] = req[s]
    BY <1>4, AnswerIs
  <2>2. ServerTypes'
    BY <1>1, <1>4, <2>1 DEF ServerTypes
  <2>3. ServerMoves
    BY <1>1, <1>4, <2>1 DEF ServerMoves, Refused
  <2>4. KeepsClaims
    BY <1>1, <1>4, <2>1 DEF KeepsClaims, Working
  <2> QED
    BY <2>2, <2>3, <2>4, KeptClaims
<1>5. CASE Challenged(r)
  <2>1. /\ req[r].at = "verifying" /\ req' = Answer(r, "402") /\ UNCHANGED <<cache, forgot>>
    BY <1>5 DEF Challenged
  <2>2. ASSUME NEW p \in Proofs, req[r].proof = p PROVE InVain(p)'
    <3> SUFFICES ASSUME p \notin forgot
                 PROVE  /\ cache[p] = "PROCESSING" /\ p \notin settled
                        /\ \A s \in Reqs : req'[s].proof = p => ~Working(s)'
      BY <1>1, <2>1 DEF InVain
    <3>1. /\ cache[p] = "PROCESSING" /\ p \notin settled
          /\ \A s \in Reqs : Working(s) /\ req[s].proof = p => s = r
      BY <2>1, <2>2 DEF ClaimsAreHeld, Working
    <3>2. req'[r].at = "answered" /\ \A s \in Reqs \ {r} : req'[s] = req[s]
      BY <2>1, AnswerIs
    <3> QED
      BY <3>1, <3>2 DEF Working
  <2> QED
    BY <1>4, <2>1, <2>2 DEF ServerTypes
<1>6. CASE ReplayOrConflict(r)
  <2>1. PICK code \in {"200", "409"} : req' = Answer(r, code)
    BY <1>6 DEF ReplayOrConflict
  <2>2. req[r].at # "free" /\ UNCHANGED <<cache, forgot>>
    BY <1>6 DEF ReplayOrConflict
  <2> QED
    BY <1>4, <2>1, <2>2 DEF ServerTypes
<1>7. CASE MiddlewareError(r)
  <2>1. /\ req[r].at = "verifying" /\ req[r].proof \in Proofs /\ ExpressError(r)
    BY <1>1, <1>7 DEF MiddlewareError, FastifyError, NodeHttpError
  <2>2. /\ req' = Answer(r, "402") /\ forgot' = forgot \cup {req[r].proof}
        /\ cache' = Release(cache, req[r].proof)
    BY <2>1 DEF ExpressError
  <2>3. /\ cache' \in [Proofs -> {"absent", "PROCESSING", "SETTLED"}]
        /\ \A p \in Proofs \ forgot' : cache'[p] = cache[p]
    BY <2>1, <2>2 DEF Release, ServerTypes
  <2>4. \A p \in Proofs : req[r].proof = p => InVain(p)'
    BY <2>2 DEF InVain
  <2> QED
    BY <1>4, <2>1, <2>2, <2>3, <2>4 DEF ServerTypes
<1> QED
  BY <1>3, <1>5, <1>6, <1>7

(***************************************************************************)
(* The handler's answer settles the proof at most once, and leaves it in   *)
(* the cache when it does.                                                 *)
(***************************************************************************)
LEMMA HandlerStep ==
    ASSUME ServerTypes, ClaimsAreHeld, NEW r \in Reqs, HandlerAnswers(r)
    PROVE  /\ ServerTypes' /\ ServerMoves /\ ClaimsAreHeld'
           /\ \A p \in Proofs : InVain(p) => InVain(p)'
<1>1. /\ req[r] \in Slots /\ req[r].at = "handling" /\ req[r].verified = TRUE
      /\ req[r].proof \in Proofs /\ forgot' = forgot
  BY DEF HandlerAnswers, ServerTypes, Slots
<1>2. PICK p \in Proofs : p = req[r].proof
  BY <1>1
<1>3. PICK ok \in BOOLEAN, settles \in BOOLEAN, code \in {"200", "402", "500"} :
          /\ settles = (ok /\ p \notin settled)
          /\ code = IF ~ok THEN "500" ELSE IF settles THEN "200" ELSE "402"
          /\ settled' = IF settles THEN settled \cup {p} ELSE settled
          /\ runs' = IF ok THEN runs \cup {<<p, r>>} ELSE runs
          /\ cache' = IF req[r].open THEN FinalizeClaim(cache, r, code) ELSE cache
          /\ req' = Answer(r, code)
  BY <1>1, <1>2 DEF HandlerAnswers
<1>4. /\ req' \in [Reqs -> Slots] /\ req'[r].at = "answered" /\ req'[r].status = code
      /\ req'[r].call = req[r].call /\ req'[r].open = req[r].open
      /\ req'[r].proof = p /\ \A s \in Reqs \ {r} : req'[s] = req[s]
  BY <1>2, <1>3, AnswerIs
<1>5. /\ cache' \in [Proofs -> {"absent", "PROCESSING", "SETTLED"}]
      /\ \A q \in Proofs \ {p} : cache'[q] = cache[q]
      /\ settles /\ cache[p] # "absent" => cache'[p] # "absent"
  BY <1>2, <1>3 DEF FinalizeClaim, MarkSettled, Release, ServerTypes
<1>6. ServerTypes'
  BY <1>1, <1>2, <1>3, <1>4, <1>5 DEF ServerTypes
<1>7. p \notin forgot =>
        /\ cache[p] = "PROCESSING" /\ p \notin settled
        /\ \A s \in Reqs : Working(s) /\ req[s].proof = p => s = r
        /\ \A s \in Reqs : <<p, s>> \notin runs
  BY <1>1, <1>2 DEF ClaimsAreHeld, Working
<1>8. /\ \A s \in Reqs : req'[s].proof = req[s].proof
      /\ \A s \in Reqs : Working(s)' <=> s # r /\ Working(s)
  BY <1>2, <1>4 DEF Working
<1>9. ASSUME NEW q \in Proofs, InVain(q) PROVE InVain(q)'
  <2> SUFFICES ASSUME q \notin forgot
               PROVE  /\ cache'[q] = "PROCESSING" /\ q \notin settled'
                      /\ \A s \in Reqs : req'[s].proof = q => ~Working(s)'
    BY <1>1 DEF InVain
  <2>1. /\ cache[q] = "PROCESSING" /\ q \notin settled
        /\ \A s \in Reqs : req[s].proof = q => ~Working(s)
    BY <1>9 DEF InVain
  <2>2. q # p
    BY <1>1, <1>2, <2>1 DEF Working
  <2> QED
    BY <1>3, <1>5, <1>8, <2>1, <2>2
<1>10. ServerMoves
  <2>1. ASSUME NEW s \in Reqs, NEW q \in Proofs, Refused(s)', req'[s].proof = q
        PROVE  Refused(s) \/ InVain(q)'
    <3>1. CASE s # r
      BY <1>4, <2>1, <3>1 DEF Refused
    <3>2. CASE s = r
      <4>1. code = "402" /\ q = p
        BY <1>4, <2>1, <3>2 DEF Refused
      <4>2. p \in forgot
        BY <1>3, <1>7, <4>1
      <4> QED
        BY <1>1, <4>1, <4>2 DEF InVain
    <3> QED
      BY <3>1, <3>2
  <2>2. \A q \in settled' : q \in settled \/ \E s \in Reqs : req[s].proof = q
    BY <1>2, <1>3
  <2> QED
    BY <1>2, <1>4, <2>1, <2>2 DEF ServerMoves
<1>11. ClaimsAreHeld'
  <2> SUFFICES ASSUME NEW q \in Proofs \ forgot
               PROVE  /\ \A s, t \in Reqs : Working(s)' /\ Working(t)' /\ req'[s].proof = q
                                              /\ req'[t].proof = q => s = t
                      /\ \A s \in Reqs : Working(s)' /\ req'[s].proof = q =>
                            cache'[q] = "PROCESSING" /\ q \notin settled'
                      /\ q \in settled' => cache'[q] # "absent"
                      /\ \A s, t \in Reqs : <<q, s>> \in runs' /\ <<q, t>> \in runs' => s = t
                      /\ \A s \in Reqs : <<q, s>> \in runs' => q \in settled'
    BY <1>1 DEF ClaimsAreHeld
  <2>1. /\ \A s, t \in Reqs : Working(s) /\ Working(t) /\ req[s].proof = q
                                /\ req[t].proof = q => s = t
        /\ \A s \in Reqs : Working(s) /\ req[s].proof = q =>
              cache[q] = "PROCESSING" /\ q \notin settled
        /\ q \in settled => cache[q] # "absent"
        /\ \A s, t \in Reqs : <<q, s>> \in runs /\ <<q, t>> \in runs => s = t
        /\ \A s \in Reqs : <<q, s>> \in runs => q \in settled
    BY DEF ClaimsAreHeld
  <2>2. CASE q # p
    <3>1. /\ cache'[q] = cache[q] /\ (q \in settled' <=> q \in settled)
          /\ \A s \in Reqs : <<q, s>> \in runs' <=> <<q, s>> \in runs
      BY <1>3, <1>5, <2>2
    <3> QED
      BY <1>8, <2>1, <3>1
  <2>3. CASE q = p
    <3>1. /\ \A s \in Reqs : Working(s)' => req'[s].proof # p
          /\ \A s \in Reqs : <<p, s>> \in runs' => s = r /\ ok
          /\ p \in settled' <=> ok
      BY <1>3, <1>7, <1>8, <2>3
    <3>2. p \in settled' => cache'[p] # "absent"
      BY <1>3, <1>5, <1>7, <2>3, <3>1
    <3> QED
      BY <2>3, <3>1, <3>2
  <2> QED
    BY <2>2, <2>3
<1> QED
  BY <1>6, <1>9, <1>10, <1>11

LEMMA ForgetfulStep ==
    ASSUME ServerTypes, ClaimsAreHeld, Restarts \/ \E p \in Proofs : Expires(p)
    PROVE  /\ ServerTypes' /\ ServerMoves /\ ClaimsAreHeld'
           /\ \A p \in Proofs : InVain(p) => InVain(p)'
<1>1. CASE \E p \in Proofs : Expires(p)
  <2>1. PICK p \in Proofs : Expires(p)
    BY <1>1
  <2>2. /\ UNCHANGED <<req, settled, runs>> /\ forgot' = forgot \cup {p}
        /\ cache' = [cache EXCEPT ![p] = "absent"]
    BY <2>1 DEF Expires
  <2>3. ServerTypes' /\ KeepsClaims
    BY <2>2 DEF ServerTypes, KeepsClaims, Working
  <2>4. ServerMoves
    BY <2>2 DEF ServerMoves, Refused
  <2> QED
    BY <2>3, <2>4, KeptClaims
<1>2. CASE Restarts
  <2>1. /\ UNCHANGED <<settled, runs>> /\ forgot' = Proofs
        /\ cache' \in [Proofs -> {"absent", "PROCESSING", "SETTLED"}]
    BY <1>2 DEF Restarts
  <2>2. \A r \in Reqs : req[r] \in Slots
    BY DEF ServerTypes
  <2>3. /\ req' \in [Reqs -> Slots]
        /\ \A r \in Reqs : /\ req'[r].call = req[r].call /\ req'[r].open = req[r].open
                           /\ req'[r].proof = req[r].proof
                           /\ req'[r].at \in {"gone", req[r].at}
                           /\ req[r].at = "handling" => req'[r].at = "gone"
    BY <1>2, <2>2, ZenonT(40) DEF Restarts, Slots
  <2>4. ServerTypes'
    BY <2>1, <2>3 DEF ServerTypes
  <2>5. KeepsClaims
    BY <2>1, <2>3 DEF KeepsClaims, Working, ServerTypes
  <2>6. \A p \in Proofs : InVain(p)'
    BY <2>1 DEF InVain
  <2>7. ServerMoves
    BY <2>1, <2>3, <2>6 DEF ServerMoves
  <2> QED
    BY <2>4, <2>5, <2>7, KeptClaims
<1> QED
  BY <1>1, <1>2

LEMMA ServerStep ==
    ASSUME ServerTypes, ClaimsAreHeld, adapter = "express", PaywallNext
    PROVE  /\ ServerTypes' /\ ServerMoves /\ ClaimsAreHeld'
           /\ \A p \in Proofs : InVain(p) => InVain(p)'
<1>1. CASE Restarts \/ \E p \in Proofs : Expires(p)
  BY <1>1, ForgetfulStep
<1>2. ASSUME NEW r \in Reqs, ClaimOrPass(r)
      PROVE  /\ ServerTypes' /\ ServerMoves /\ ClaimsAreHeld'
             /\ \A p \in Proofs : InVain(p) => InVain(p)'
  BY <1>2, ClaimStep
<1>3. ASSUME NEW r \in Reqs, HandlerAnswers(r)
      PROVE  /\ ServerTypes' /\ ServerMoves /\ ClaimsAreHeld'
             /\ \A p \in Proofs : InVain(p) => InVain(p)'
  BY <1>3, HandlerStep
<1>4. ASSUME NEW r \in Reqs,
             Granted(r) \/ Challenged(r) \/ ReplayOrConflict(r) \/ MiddlewareError(r)
      PROVE  /\ ServerTypes' /\ ServerMoves /\ ClaimsAreHeld'
             /\ \A p \in Proofs : InVain(p) => InVain(p)'
  BY <1>4, QuietServerStep
<1>5. \A r \in Reqs : ~FastifyHook(r) /\ ~NodeHttpCheck(r)
  BY DEF FastifyHook, NodeHttpCheck
<1> QED
  BY <1>1, <1>2, <1>3, <1>4, <1>5 DEF PaywallNext

(***************************************************************************)
(* The server answers the calls, and they stay in order.                   *)
(***************************************************************************)
LEMMA ServerKeepsOrder ==
    ASSUME X402Types, CallsInOrder, OldProofsInVain, ServerMoves, call' = call,
           \A p \in Proofs : InVain(p) => InVain(p)'
    PROVE  CallsInOrder' /\ OldProofsInVain'
<1>1. \A c \in Calls : SendsLast(c)' /\ Awaits(c)'
  BY DEF CallsInOrder, SendsLast, Awaits, ServerMoves
<1>2. \A p \in Proofs : p[2] > call[p[1]].signed =>
          p \notin settled' /\ \A r \in Reqs : req'[r].proof # p
  BY DEF CallsInOrder, ServerMoves
<1>3. CallsInOrder'
  BY <1>1, <1>2 DEF CallsInOrder
<1>4. ASSUME NEW p \in Proofs
      PROVE  /\ Replaced(p)' => InVain(p)'
             /\ \A r \in Reqs : Refused(r)' /\ req'[r].proof = p => InVain(p)'
  <2>1. Replaced(p)' <=> Replaced(p)
    BY DEF Replaced
  <2>2. \A r \in Reqs : Refused(r)' /\ req'[r].proof = p =>
             InVain(p)' \/ (Refused(r) /\ req[r].proof = p)
    BY DEF ServerMoves
  <2> QED
    BY <2>1, <2>2 DEF OldProofsInVain
<1> QED
  BY <1>3, <1>4 DEF OldProofsInVain

(***************************************************************************)
(* What a step of call c does to the calls and requests: those of others   *)
(* are left alone, and a proof it replaces was refused.                    *)
(***************************************************************************)
LEMMA CallKeepsOrder ==
    ASSUME X402Types, CallsInOrder, OldProofsInVain, KeepsClaims, NEW c,
           \A p \in Proofs : InVain(p) => InVain(p)',
           \A d \in Calls \ {c} : call'[d] = call[d],
           \A s \in Reqs : \/ req'[s] = req[s]
                           \/ /\ req[s].at = "free" \/ req[s].call = c \/ ~req[s].open
                              /\ Refused(s)' => Refused(s) /\ req'[s].proof = req[s].proof
                              /\ \/ req'[s].proof \in {NoProof, req[s].proof}
                                 \/ c \in Calls /\ req'[s].proof = call'[c].proof,
           c \in Calls => /\ SendsLast(c)' /\ Awaits(c)' /\ call'[c] \in CallRecords
                          /\ call'[c].signed >= call[c].signed
                          /\ \A p \in Proofs : p[1] = c /\ Replaced(p)' => InVain(p)
    PROVE  CallsInOrder' /\ OldProofsInVain'
<1>1. ASSUME NEW d \in Calls PROVE SendsLast(d)' /\ Awaits(d)'
  <2>1. CASE d # c
    <3>1. call'[d] = call[d] /\ SendsLast(d) /\ Awaits(d)
      BY <2>1 DEF CallsInOrder
    <3>2. call[d].pc \in {"await", "reawait"} => req'[call[d].r] = req[call[d].r]
      BY <2>1, <3>1 DEF Awaits
    <3> QED
      BY <3>1, <3>2 DEF SendsLast, Awaits
  <2> QED
    BY <2>1
<1>2. ASSUME NEW p \in Proofs, p[2] > call'[p[1]].signed
      PROVE  p \notin settled' /\ \A s \in Reqs : req'[s].proof # p
  <2>1. p[1] \in Calls /\ p = <<p[1], p[2]>> /\ p[2] \in 1..MaxPay /\ p # NoProof
    BY DEF Proofs, NoProof
  <2>2. \A d \in Calls : call[d].signed \in Nat
    BY DEF X402Types, CallRecords
  <2>3. c \in Calls => call'[c].signed \in Nat
    BY DEF CallRecords
  <2>4. p[2] > call[p[1]].signed
    BY <1>2, <2>1, <2>2, <2>3
  <2>5. p \notin settled /\ \A s \in Reqs : req[s].proof # p
    BY <2>4 DEF CallsInOrder
  <2>6. c \in Calls => call'[c].proof # p
    <3> SUFFICES ASSUME c \in Calls, call'[c].proof = p PROVE FALSE
      OBVIOUS
    <3>1. p = <<c, call'[c].signed>>
      BY <2>1 DEF SendsLast
    <3> QED
      BY <1>2, <2>3, <3>1
  <2> QED
    BY <2>1, <2>5, <2>6 DEF KeepsClaims
<1>3. CallsInOrder'
  BY <1>1, <1>2 DEF CallsInOrder
<1>4. ASSUME NEW p \in Proofs
      PROVE  /\ Replaced(p)' => InVain(p)'
             /\ \A r \in Reqs : Refused(r)' /\ req'[r].proof = p => InVain(p)'
  <2>1. p[1] \in Calls
    BY DEF Proofs
  <2>2. p[1] # c => (Replaced(p)' <=> Replaced(p))
    BY <2>1 DEF Replaced
  <2>3. Replaced(p)' => InVain(p)
    BY <2>1, <2>2 DEF OldProofsInVain
  <2>4. \A r \in Reqs : Refused(r)' /\ req'[r].proof = p => Refused(r) /\ req[r].proof = p
    BY DEF Refused
  <2> QED
    BY <2>3, <2>4 DEF OldProofsInVain
<1> QED
  BY <1>3, <1>4 DEF OldProofsInVain

LEMMA CaughtIs ==
    ASSUME NEW rec \in CallRecords
    PROVE  /\ Caught(rec) \in CallRecords /\ Caught(rec).pc \in {"fetch", "done"}
           /\ Caught(rec).proof = rec.proof /\ Caught(rec).signed = rec.signed
<1>1. PICK more : more = rec.attempts + 1
  OBVIOUS
<1>2. more \in Nat
  <2>1. rec.attempts \in Nat
    BY DEF CallRecords
  <2> QED
    BY <1>1, <2>1
<1>3. PICK again : again = [rec EXCEPT !.pc = "fetch", !.attempts = more, !.r = 0]
  OBVIOUS
<1>4. again \in CallRecords /\ again.pc = "fetch"
      /\ again.proof = rec.proof /\ again.signed = rec.signed
  BY <1>2, <1>3 DEF CallRecords
<1>5. PICK over : over = [rec EXCEPT !.pc = "done", !.result = "error", !.r = 0]
  OBVIOUS
<1>6. over \in CallRecords /\ over.pc = "done"
      /\ over.proof = rec.proof /\ over.signed = rec.signed
  BY <1>5 DEF CallRecords
<1>7. Caught(rec) \in {again, over}
  BY <1>1, <1>3, <1>5 DEF Caught, Returns
<1> QED
  BY <1>4, <1>6, <1>7

LEMMA ReturnIs ==
    ASSUME NEW rec \in CallRecords, NEW code \in {"", "200", "402", "409", "500"}
    PROVE  LET done == Returns(Report(rec, code), code)
           IN  /\ done \in CallRecords /\ done.pc = "done"
               /\ done.proof = rec.proof /\ done.signed = rec.signed
<1>1. PICK rep \in CallRecords : rep = Report(rec, code) /\ rep.proof = rec.proof
                                   /\ rep.signed = rec.signed
  <2>1. PICK good : good = [rec EXCEPT !.reported = "settled"]
    OBVIOUS
  <2>2. good \in CallRecords /\ good.proof = rec.proof /\ good.signed = rec.signed
    BY <2>1 DEF CallRecords
  <2>3. Report(rec, code) \in {rec, good}
    BY <2>1 DEF Report
  <2> QED
    BY <2>2, <2>3
<1>2. /\ Returns(rep, code) \in CallRecords /\ Returns(rep, code).pc = "done"
      /\ Returns(rep, code).proof = rep.proof /\ Returns(rep, code).signed = rep.signed
  BY ZenonT(40) DEF Returns, CallRecords
<1> QED
  BY <1>1, <1>2

(***************************************************************************)
(* A slot that is freed holds no proof.                                    *)
(***************************************************************************)
LEMMA FreedIs ==
    ASSUME ServerTypes, NEW r \in Reqs, ~Working(r), req' = [req EXCEPT ![r] = FreeRequest],
           UNCHANGED <<cache, settled, runs, forgot>>
    PROVE  /\ ServerTypes' /\ KeepsClaims
           /\ req'[r].proof = NoProof /\ ~Refused(r)'
           /\ \A s \in Reqs \ {r} : req'[s] = req[s]
<1>1. FreeRequest \in Slots /\ FreeRequest.at = "free" /\ FreeRequest.proof = NoProof
  BY DEF FreeRequest, Slots
<1>2. req'[r] = FreeRequest /\ \A s \in Reqs \ {r} : req'[s] = req[s]
  BY DEF ServerTypes
<1> QED
  BY <1>1, <1>2 DEF ServerTypes, KeepsClaims, Working, Refused

LEMMA HangUpIs ==
    ASSUME ServerTypes, NEW r \in Reqs, req' = [req EXCEPT ![r].open = FALSE],
           ConnectionCloses(r), UNCHANGED <<settled, runs>>
    PROVE  /\ ServerTypes' /\ KeepsClaims
           /\ req'[r].proof = req[r].proof /\ (Refused(r)' <=> Refused(r))
           /\ \A s \in Reqs \ {r} : req'[s] = req[s]
<1>1. PICK rec : rec = [req[r] EXCEPT !.open = FALSE]
  OBVIOUS
<1>2. req[r] \in Slots /\ req' = [req EXCEPT ![r] = rec]
  BY <1>1 DEF ServerTypes
<1>3. /\ rec \in Slots /\ rec.at = req[r].at /\ rec.proof = req[r].proof
      /\ rec.status = req[r].status /\ rec.verified = req[r].verified
  BY <1>1, <1>2 DEF Slots
<1>4. req'[r] = rec /\ \A s \in Reqs \ {r} : req'[s] = req[s]
  BY <1>2 DEF ServerTypes
<1>5. /\ cache' \in [Proofs -> {"absent", "PROCESSING", "SETTLED"}]
      /\ forgot \subseteq forgot' /\ forgot' \subseteq Proofs
      /\ \A p \in Proofs \ forgot' : cache'[p] = cache[p]
  <2>1. req[r].at = "handling" => req[r].proof \in Proofs
    BY <1>2 DEF ServerTypes, Slots
  <2>2. CASE req[r].at = "handling" /\ req[r].claimed /\ req[r].armed
    BY <2>1, <2>2 DEF ConnectionCloses, FinalizeClaim, Release, ServerTypes
  <2>3. CASE ~(req[r].at = "handling" /\ req[r].claimed /\ req[r].armed)
    BY <2>1, <2>3 DEF ConnectionCloses, FinalizeClaim, ServerTypes
  <2> QED
    BY <2>2, <2>3
<1> QED
  BY <1>3, <1>4, <1>5, ZenonT(40) DEF ServerTypes, KeepsClaims, Working, Refused

(***************************************************************************)
(* A step of call c is described by the record it leaves and by what it    *)
(* does to the requests.                                                   *)
(***************************************************************************)
HasLast(c, new) == new.proof = IF new.signed = 0 THEN NoProof ELSE <<c, new.signed>>

AwaitsOwn(c, new) ==
    new.pc \in {"await", "reawait"} =>
        /\ new.r \in Reqs /\ req'[new.r].at # "free" /\ req'[new.r].call = c
        /\ req'[new.r].open /\ req'[new.r].proof = new.proof

GivesUpInVain(c, new) ==
    \A p \in Proofs :
        /\ p[1] = c
        /\ p[2] < new.signed \/ (p[2] = new.signed /\ new.pc = "pay")
        => InVain(p)

OwnRequests(c, new) ==
    \A s \in Reqs : \/ req'[s] = req[s]
                    \/ /\ req[s].at = "free" \/ req[s].call = c \/ ~req[s].open
                       /\ Refused(s)' => Refused(s) /\ req'[s].proof = req[s].proof
                       /\ req'[s].proof \in {NoProof, req[s].proof, new.proof}

LEMMA CallMoves ==
    ASSUME X402Types, ServerTypes', ClaimsAreHeld, CallsInOrder, OldProofsInVain, KeepsClaims,
           NEW c \in Calls, NEW new \in CallRecords, call' = [call EXCEPT ![c] = new],
           new.signed >= call[c].signed,
           HasLast(c, new), AwaitsOwn(c, new), GivesUpInVain(c, new), OwnRequests(c, new)
    PROVE  X402Types' /\ ClaimsAreHeld' /\ CallsInOrder' /\ OldProofsInVain'
<1>1. call'[c] = new /\ \A d \in Calls \ {c} : call'[d] = call[d]
  BY DEF X402Types
<1>2. X402Types'
  BY DEF X402Types
<1>3. ClaimsAreHeld' /\ \A p \in Proofs : InVain(p) => InVain(p)'
  BY KeptClaims DEF X402Types
<1>4. SendsLast(c)' /\ Awaits(c)'
  BY <1>1 DEF SendsLast, Awaits, HasLast, AwaitsOwn
<1>5. \A p \in Proofs : p[1] = c /\ Replaced(p)' => InVain(p)
  BY <1>1 DEF Replaced, GivesUpInVain
<1>6. \A s \in Reqs : \/ req'[s] = req[s]
                      \/ /\ req[s].at = "free" \/ req[s].call = c \/ ~req[s].open
                         /\ Refused(s)' => Refused(s) /\ req'[s].proof = req[s].proof
                         /\ \/ req'[s].proof \in {NoProof, req[s].proof}
                            \/ c \in Calls /\ req'[s].proof = call'[c].proof
  BY <1>1 DEF OwnRequests
<1>7. CallsInOrder' /\ OldProofsInVain'
  BY <1>1, <1>3, <1>4, <1>5, <1>6, CallKeepsOrder
<1> QED
  BY <1>2, <1>3, <1>7

(***************************************************************************)
(* The common case: no new proof is signed, no request awaited.            *)
(***************************************************************************)
LEMMA CallGoesOn ==
    ASSUME X402Types, ServerTypes', ClaimsAreHeld, CallsInOrder, OldProofsInVain, KeepsClaims,
           NEW c \in Calls, NEW new \in CallRecords, call' = [call EXCEPT ![c] = new],
           new.signed = call[c].signed, new.proof = call[c].proof,
           new.pc \notin {"await", "reawait", "pay"},
           OwnRequests(c, new)
    PROVE  X402Types' /\ ClaimsAreHeld' /\ CallsInOrder' /\ OldProofsInVain'
<1>1. new.signed >= call[c].signed
  <2>1. new.signed \in Nat
    BY DEF CallRecords
  <2> QED
    BY <2>1
<1>2. HasLast(c, new)
  BY DEF CallsInOrder, SendsLast, HasLast
<1>3. AwaitsOwn(c, new) /\ GivesUpInVain(c, new)
  BY DEF OldProofsInVain, Replaced, AwaitsOwn, GivesUpInVain
<1> QED
  BY <1>1, <1>2, <1>3, CallMoves

LEMMA BuyerStep ==
    ASSUME X402Types, ClaimsAreHeld, CallsInOrder, OldProofsInVain, NEW c \in Calls,
           \/ BeginCall(c) \/ BaseFetch(c) \/ FirstAnswer(c)
           \/ SignPayment(c) \/ PaidAnswer(c) \/ FetchFails(c)
    PROVE  X402Types' /\ ClaimsAreHeld' /\ CallsInOrder' /\ OldProofsInVain'
<1>1. /\ call[c] \in CallRecords /\ call[c].signed \in Nat
      /\ call[c].proof \in Proofs \cup {NoProof}
      /\ ServerTypes
      /\ call[c].proof = IF call[c].signed = 0 THEN NoProof ELSE <<c, call[c].signed>>
  BY DEF X402Types, CallRecords, CallsInOrder, SendsLast
<1>2. UNCHANGED serverVars => ServerTypes' /\ KeepsClaims
  BY <1>1 DEF serverVars, ServerTypes, KeepsClaims, Working
<1>3. CASE BeginCall(c)
  <2>1. PICK new : new = [Goto(c, "fetch") EXCEPT !.attempts = 1]
    OBVIOUS
  <2>2. /\ new \in CallRecords /\ new.pc = "fetch"
        /\ new.signed = call[c].signed /\ new.proof = call[c].proof
    BY <1>1, <2>1 DEF Goto, CallRecords
  <2>3. call' = [call EXCEPT ![c] = new] /\ UNCHANGED serverVars
    BY <1>3, <2>1 DEF BeginCall
  <2> QED
    BY <1>2, <2>2, <2>3, CallGoesOn DEF serverVars, OwnRequests
<1>4. CASE BaseFetch(c)
  <2>1. PICK r \in Reqs :
          /\ req[r].at = "free"
          /\ req' = [req EXCEPT ![r] = [FreeRequest EXCEPT !.call = c,
                       !.proof = call[c].proof, !.at = "sent", !.open = TRUE]]
          /\ call' = [call EXCEPT ![c].r = r,
                       ![c].pc = IF @ = "fetch" THEN "await" ELSE "reawait"]
    BY <1>4 DEF BaseFetch
  <2>2. PICK slot : slot = [FreeRequest EXCEPT !.call = c,
                              !.proof = call[c].proof, !.at = "sent", !.open = TRUE]
    OBVIOUS
  <2>3. /\ slot \in Slots /\ slot.call = c /\ slot.proof = call[c].proof
        /\ slot.at = "sent" /\ slot.open
    BY <1>1, <2>2 DEF FreeRequest, Slots
  <2>4. PICK at : at = IF call[c].pc = "fetch" THEN "await" ELSE "reawait"
    OBVIOUS
  <2>5. PICK new : new = [call[c] EXCEPT !.r = r, !.pc = at]
    OBVIOUS
  <2>6. /\ new \in CallRecords /\ new.r = r
        /\ new.pc \in {"await", "reawait"}
        /\ new.signed = call[c].signed /\ new.proof = call[c].proof
    BY <1>1, <2>4, <2>5 DEF CallRecords
  <2>7. call' = [call EXCEPT ![c] = new] /\ req' = [req EXCEPT ![r] = slot]
    BY <1>1, <2>1, <2>2, <2>4, <2>5 DEF CallRecords
  <2>8. /\ req'[r] = slot /\ \A s \in Reqs \ {r} : req'[s] = req[s]
        /\ req' \in [Reqs -> Slots]
    BY <1>1, <2>3, <2>7 DEF ServerTypes
  <2>9. UNCHANGED <<cache, settled, runs, forgot>>
    BY <1>4 DEF BaseFetch
  <2>10. ServerTypes'
    BY <1>1, <2>3, <2>8, <2>9 DEF ServerTypes
  <2>11. KeepsClaims
    BY <2>3, <2>8, <2>9 DEF KeepsClaims, Working
  <2>12. GivesUpInVain(c, new)
    BY <2>6 DEF OldProofsInVain, Replaced, GivesUpInVain
  <2>13. OwnRequests(c, new)
    BY <2>1, <2>3, <2>6, <2>8 DEF Refused, OwnRequests
  <2>14. new.signed >= call[c].signed
    BY <1>1, <2>6
  <2>15. AwaitsOwn(c, new) /\ HasLast(c, new)
    BY <1>1, <2>3, <2>6, <2>8 DEF AwaitsOwn, HasLast
  <2> QED
    BY <1>1, <2>6, <2>7, <2>10, <2>11, <2>12, <2>13, <2>14, <2>15, CallMoves
<1>5. CASE FirstAnswer(c)
  <2>1. PICK r : r = call[c].r
    OBVIOUS
  <2>2. PICK code : code = req[r].status
    OBVIOUS
  <2>3. /\ call[c].pc = "await" /\ req[r].at = "answered"
        /\ req' = [req EXCEPT ![r] = FreeRequest]
        /\ UNCHANGED <<cache, settled, runs, forgot>>
        /\ call' = [call EXCEPT ![c] =
              IF code # "402" \/ call[c].attempts >= maxPaymentAttempts
              THEN Returns(Report(call[c], code), code)
              ELSE [call[c] EXCEPT !.pc = "pay", !.triggered = TRUE, !.r = 0,
                                   !.reported = "signing"]]
    BY <1>5, <2>1, <2>2 DEF FirstAnswer, Collected
  <2>4. r \in Reqs /\ req[r].call = c /\ req[r].proof = call[c].proof
    BY <2>1, <2>3 DEF CallsInOrder, Awaits
  <2>5. code \in {"", "200", "402", "409", "500"}
    BY <1>1, <2>2, <2>4 DEF ServerTypes, Slots
  <2>6. /\ ServerTypes' /\ KeepsClaims /\ req'[r].proof = NoProof /\ ~Refused(r)'
        /\ \A s \in Reqs \ {r} : req'[s] = req[s]
    BY <1>1, <2>3, <2>4, FreedIs DEF Working
  <2>7. \A rec : OwnRequests(c, rec)
    BY <2>4, <2>6 DEF OwnRequests
  <2>8. CASE code # "402" \/ call[c].attempts >= maxPaymentAttempts
    <3>1. PICK new : new = Returns(Report(call[c], code), code)
      OBVIOUS
    <3>2. /\ new \in CallRecords /\ new.pc = "done"
          /\ new.signed = call[c].signed /\ new.proof = call[c].proof
      BY <1>1, <2>5, <3>1, ReturnIs
    <3>3. call' = [call EXCEPT ![c] = new]
      BY <2>3, <2>8, <3>1
    <3> QED
      BY <2>6, <2>7, <3>2, <3>3, CallGoesOn
  <2>9. CASE ~(code # "402" \/ call[c].attempts >= maxPaymentAttempts)
    <3>1. PICK new : new = [call[c] EXCEPT !.pc = "pay", !.triggered = TRUE, !.r = 0,
                                           !.reported = "signing"]
      OBVIOUS
    <3>2. /\ new \in CallRecords /\ new.pc = "pay"
          /\ new.signed = call[c].signed /\ new.proof = call[c].proof
      BY <1>1, <3>1 DEF CallRecords
    <3>3. call' = [call EXCEPT ![c] = new]
      BY <2>3, <2>9, <3>1
    <3>4. ASSUME NEW p \in Proofs, p[1] = c,
                 p[2] < new.signed \/ p[2] = new.signed
          PROVE  InVain(p)
      <4>1. CASE p[2] < new.signed
        BY <3>2, <3>4, <4>1 DEF OldProofsInVain, Replaced
      <4>2. CASE p[2] = new.signed
        <5>1. p = <<c, call[c].signed>> /\ call[c].signed # 0
          BY <3>2, <3>4, <4>2 DEF Proofs
        <5>2. Refused(r) /\ req[r].proof = p
          BY <1>1, <2>2, <2>3, <2>4, <2>9, <5>1 DEF Refused
        <5> QED
          BY <2>4, <5>2 DEF OldProofsInVain
      <4> QED
        BY <3>4, <4>1, <4>2
    <3>5. HasLast(c, new) /\ AwaitsOwn(c, new) /\ GivesUpInVain(c, new)
      BY <1>1, <3>2, <3>4 DEF HasLast, AwaitsOwn, GivesUpInVain
    <3>6. new.signed >= call[c].signed
      BY <1>1, <3>2
    <3> QED
      BY <2>6, <2>7, <3>2, <3>3, <3>5, <3>6, CallMoves
  <2> QED
    BY <2>8, <2>9
<1>6. CASE SignPayment(c)
  <2>1. call[c].pc = "pay" /\ UNCHANGED serverVars
    BY <1>6 DEF SignPayment
  <2>2. CASE /\ call[c].signed < MaxPay
             /\ call' = [call EXCEPT ![c].pc = "refetch", ![c].retry = 0,
                           ![c].signed = @ + 1, ![c].proof = <<c, call[c].signed + 1>>,
                           ![c].reported = "pending"]
    <3>1. PICK n \in Nat : n = call[c].signed + 1
      BY <1>1
    <3>2. <<c, n>> \in Proofs
      BY <1>1, <2>2, <3>1, PaywallAssumption DEF Proofs
    <3>3. PICK p : p = <<c, n>>
      OBVIOUS
    <3>4. PICK new : new = [call[c] EXCEPT !.pc = "refetch", !.retry = 0,
                              !.signed = n, !.proof = p, !.reported = "pending"]
      OBVIOUS
    <3>5. /\ new \in CallRecords /\ new.pc = "refetch"
          /\ new.signed = n /\ new.proof = p
      BY <1>1, <3>1, <3>2, <3>3, <3>4 DEF CallRecords
    <3>6. call' = [call EXCEPT ![c] = new]
      BY <1>1, <2>2, <3>1, <3>3, <3>4 DEF CallRecords
    <3>7. ASSUME NEW q \in Proofs, q[1] = c, q[2] < n PROVE InVain(q)
      <4>1. q[2] \in Nat
        BY DEF Proofs
      <4>2. Replaced(q)
        BY <1>1, <2>1, <3>1, <3>7, <4>1 DEF Replaced
      <4> QED
        BY <4>2 DEF OldProofsInVain
    <3>8. ServerTypes' /\ KeepsClaims /\ n >= call[c].signed /\ n # 0
      BY <1>1, <1>2, <2>1, <3>1
    <3>9. AwaitsOwn(c, new) /\ GivesUpInVain(c, new) /\ OwnRequests(c, new)
      BY <2>1, <3>5, <3>7 DEF serverVars, AwaitsOwn, GivesUpInVain, OwnRequests
    <3>10. HasLast(c, new)
      BY <3>3, <3>5, <3>8 DEF HasLast
    <3> QED
      BY <3>5, <3>6, <3>8, <3>9, <3>10, CallMoves
  <2>3. CASE call' = [call EXCEPT ![c] = Caught([@ EXCEPT !.reported = "failed"])]
    <3>1. PICK rec : rec = [call[c] EXCEPT !.reported = "failed"]
      OBVIOUS
    <3>2. rec \in CallRecords /\ rec.signed = call[c].signed /\ rec.proof = call[c].proof
      BY <1>1, <3>1 DEF CallRecords
    <3>3. PICK new : new = Caught(rec)
      OBVIOUS
    <3>4. /\ new \in CallRecords /\ new.pc \in {"fetch", "done"}
          /\ new.signed = call[c].signed /\ new.proof = call[c].proof
      BY <3>2, <3>3, CaughtIs
    <3>5. call' = [call EXCEPT ![c] = new]
      BY <2>3, <3>1, <3>3
    <3> QED
      BY <1>2, <2>1, <3>4, <3>5, CallGoesOn DEF serverVars, OwnRequests
  <2> QED
    BY <1>6, <2>2, <2>3 DEF SignPayment
<1>7. CASE PaidAnswer(c)
  <2>1. PICK r : r = call[c].r
    OBVIOUS
  <2>2. PICK code : code = req[r].status
    OBVIOUS
  <2>3. /\ call[c].pc = "reawait" /\ req[r].at = "answered"
        /\ req' = [req EXCEPT ![r] = FreeRequest]
        /\ UNCHANGED <<cache, settled, runs, forgot>>
        /\ call' = [call EXCEPT ![c] =
              IF code # "402" THEN Returns(Report(call[c], code), code)
              ELSE IF call[c].retry < retries
              THEN [call[c] EXCEPT !.pc = "refetch", !.retry = call[c].retry + 1, !.r = 0]
              ELSE Returns([call[c] EXCEPT !.reported = "failed"],
                           "MarcPaymentTimeoutError")]
    BY <1>1, <1>7, <2>1, <2>2 DEF PaidAnswer, Collected, CallRecords
  <2>4. r \in Reqs /\ req[r].call = c
    BY <2>1, <2>3 DEF CallsInOrder, Awaits
  <2>5. code \in {"", "200", "402", "409", "500"}
    BY <1>1, <2>2, <2>4 DEF ServerTypes, Slots
  <2>6. /\ ServerTypes' /\ KeepsClaims /\ req'[r].proof = NoProof /\ ~Refused(r)'
        /\ \A s \in Reqs \ {r} : req'[s] = req[s]
    BY <1>1, <2>3, <2>4, FreedIs DEF Working
  <2>7. \A rec : OwnRequests(c, rec)
    BY <2>4, <2>6 DEF OwnRequests
  <2>8. PICK new : new = IF code # "402" THEN Returns(Report(call[c], code), code)
                         ELSE IF call[c].retry < retries
                         THEN [call[c] EXCEPT !.pc = "refetch", !.retry = call[c].retry + 1,
                                              !.r = 0]
                         ELSE Returns([call[c] EXCEPT !.reported = "failed"],
                                      "MarcPaymentTimeoutError")
    OBVIOUS
  <2>9. /\ new \in CallRecords /\ new.pc \in {"done", "refetch"}
        /\ new.signed = call[c].signed /\ new.proof = call[c].proof
    <3>1. CASE code # "402"
      BY <1>1, <2>5, <2>8, <3>1, ReturnIs
    <3>2. CASE code = "402" /\ call[c].retry < retries
      <4>1. call[c].retry \in Nat
        BY <1>1 DEF CallRecords
      <4>2. PICK n \in Nat : n = call[c].retry + 1
        BY <4>1
      <4>3. new = [call[c] EXCEPT !.pc = "refetch", !.retry = n, !.r = 0]
        BY <2>8, <3>2, <4>2
      <4> QED
        BY <1>1, <4>3 DEF CallRecords
    <3>3. CASE code = "402" /\ ~(call[c].retry < retries)
      <4>1. new = [call[c] EXCEPT !.reported = "failed", !.pc = "done",
                     !.result = "MarcPaymentTimeoutError", !.r = 0]
        BY <1>1, <2>8, <3>3 DEF Returns, CallRecords
      <4> QED
        BY <1>1, <4>1 DEF CallRecords
    <3> QED
      BY <3>1, <3>2, <3>3
  <2>10. call' = [call EXCEPT ![c] = new]
    BY <2>3, <2>8
  <2> QED
    BY <2>6, <2>7, <2>9, <2>10, CallGoesOn
<1>8. CASE FetchFails(c)
  <2>1. PICK r : r = call[c].r
    OBVIOUS
  <2>2. PICK new : new = Caught(call[c])
    OBVIOUS
  <2>3. /\ call[c].pc \in {"await", "reawait"}
        /\ call' = [call EXCEPT ![c] = new]
        /\ UNCHANGED <<settled, runs>>
    BY <1>8, <2>2 DEF FetchFails
  <2>4. r \in Reqs /\ req[r].call = c
    BY <2>1, <2>3 DEF CallsInOrder, Awaits
  <2>5. /\ new \in CallRecords /\ new.pc \in {"fetch", "done"}
        /\ new.signed = call[c].signed /\ new.proof = call[c].proof
    BY <1>1, <2>2, CaughtIs
  <2>6. CASE /\ req[r].at \in {"sent", "answered", "gone"}
             /\ req' = Collected(r) /\ UNCHANGED <<cache, forgot>>
    <3>1. /\ ServerTypes' /\ KeepsClaims /\ req'[r].proof = NoProof /\ ~Refused(r)'
          /\ \A s \in Reqs \ {r} : req'[s] = req[s]
      BY <1>1, <2>3, <2>4, <2>6, FreedIs DEF Working, Collected
    <3>2. OwnRequests(c, new)
      BY <2>4, <3>1 DEF OwnRequests
    <3> QED
      BY <2>3, <2>5, <3>1, <3>2, CallGoesOn
  <2>7. CASE /\ req[r].at \in {"sent", "verifying", "handling"}
             /\ req' = [req EXCEPT ![r].open = FALSE] /\ ConnectionCloses(r)
    <3>1. /\ ServerTypes' /\ KeepsClaims
          /\ req'[r].proof = req[r].proof /\ (Refused(r)' <=> Refused(r))
          /\ \A s \in Reqs \ {r} : req'[s] = req[s]
      BY <1>1, <2>3, <2>4, <2>7, HangUpIs
    <3>2. OwnRequests(c, new)
      BY <2>4, <3>1 DEF OwnRequests
    <3> QED
      BY <2>3, <2>5, <3>1, <3>2, CallGoesOn
  <2> QED
    BY <1>8, <2>1, <2>6, <2>7 DEF FetchFails
<1> QED
  BY <1>3, <1>4, <1>5, <1>6, <1>7, <1>8

LEMMA DropStep ==
    ASSUME X402Types, ClaimsAreHeld, CallsInOrder, OldProofsInVain, NEW r \in Reqs, DropAnswer(r)
    PROVE  X402Types' /\ ClaimsAreHeld' /\ CallsInOrder' /\ OldProofsInVain'
<1>1. /\ ServerTypes' /\ KeepsClaims /\ req'[r].proof = NoProof /\ ~Refused(r)'
      /\ \A s \in Reqs \ {r} : req'[s] = req[s]
  BY FreedIs DEF DropAnswer, Collected, Working, X402Types
<1>2. ClaimsAreHeld' /\ \A p \in Proofs : InVain(p) => InVain(p)'
  BY <1>1, KeptClaims DEF X402Types
<1>3. call' = call /\ ~req[r].open
  BY DEF DropAnswer
<1>4. X402Types'
  BY <1>1, <1>3 DEF X402Types
<1>5. ASSUME NEW c \in Calls PROVE SendsLast(c)' /\ Awaits(c)'
  <2>1. SendsLast(c) /\ Awaits(c)
    BY DEF CallsInOrder
  <2>2. call[c].pc \in {"await", "reawait"} => req'[call[c].r] = req[call[c].r]
    BY <1>1, <1>3, <2>1 DEF Awaits
  <2> QED
    BY <1>3, <2>1, <2>2 DEF SendsLast, Awaits
<1>6. ASSUME NEW p \in Proofs, p[2] > call[p[1]].signed
      PROVE  p \notin settled' /\ \A s \in Reqs : req'[s].proof # p
  <2>1. p # NoProof
    BY DEF Proofs, NoProof
  <2> QED
    BY <1>1, <1>6, <2>1 DEF CallsInOrder, KeepsClaims
<1>7. CallsInOrder'
  BY <1>3, <1>5, <1>6 DEF CallsInOrder
<1>8. ASSUME NEW p \in Proofs
      PROVE  /\ Replaced(p)' => InVain(p)
             /\ \A s \in Reqs : Refused(s)' /\ req'[s].proof = p => InVain(p)
  BY <1>1, <1>3 DEF OldProofsInVain, Replaced, Refused
<1>9. OldProofsInVain'
  BY <1>2, <1>8 DEF OldProofsInVain
<1> QED
  BY <1>2, <1>4, <1>7, <1>9

LEMMA X402Step == X402Inv /\ [FetchNext]_x402Vars => X402Inv'
<1> SUFFICES ASSUME X402Inv, [FetchNext]_x402Vars PROVE X402Inv'
  BY SMTT(30)
<1>1. adapter' = adapter
  BY DEF FetchNext, x402Vars, serverVars, BeginCall, BaseFetch, FirstAnswer, SignPayment,
         PaidAnswer, FetchFails, DropAnswer, PaywallNext, FastifyHook, NodeHttpCheck,
         ClaimOrPass, Verifies, ReplayOrConflict, Granted, Challenged, MiddlewareError,
         HandlerAnswers, Expires, Restarts
<1> SUFFICES ASSUME adapter = "express"
             PROVE  X402Types' /\ ClaimsAreHeld' /\ CallsInOrder' /\ OldProofsInVain'
  BY <1>1 DEF X402Inv
<1>2. X402Types /\ ClaimsAreHeld /\ CallsInOrder /\ OldProofsInVain
  BY DEF X402Inv
<1>3. ASSUME NEW c \in Calls,
             \/ BeginCall(c) \/ BaseFetch(c) \/ FirstAnswer(c)
             \/ SignPayment(c) \/ PaidAnswer(c) \/ FetchFails(c)
      PROVE  X402Types' /\ ClaimsAreHeld' /\ CallsInOrder' /\ OldProofsInVain'
  BY <1>2, <1>3, BuyerStep
<1>4. ASSUME NEW r \in Reqs, DropAnswer(r)
      PROVE  X402Types' /\ ClaimsAreHeld' /\ CallsInOrder' /\ OldProofsInVain'
  BY <1>2, <1>4, DropStep
<1>5. CASE PaywallNext /\ UNCHANGED call
  <2>1. /\ ServerTypes' /\ ServerMoves /\ ClaimsAreHeld'
        /\ \A p \in Proofs : InVain(p) => InVain(p)'
    BY <1>2, <1>5, ServerStep DEF X402Types
  <2>2. CallsInOrder' /\ OldProofsInVain'
    BY <1>2, <1>5, <2>1, ServerKeepsOrder
  <2> QED
    BY <1>2, <1>5, <2>1, <2>2 DEF X402Types
<1>6. CASE UNCHANGED x402Vars
  BY <1>2, <1>6 DEF x402Vars, serverVars, X402Types, ServerTypes, ClaimsAreHeld, Working,
                    CallsInOrder, SendsLast, Awaits, OldProofsInVain, Replaced, Refused, InVain
<1> QED
  BY <1>3, <1>4, <1>5, <1>6 DEF FetchNext

LEMMA X402Starts == PaywallInit /\ FetchInit => X402Inv
<1> SUFFICES ASSUME PaywallInit, FetchInit PROVE X402Inv
  OBVIOUS
<1>1. /\ cache = [p \in Proofs |-> "absent"] /\ req = [r \in Reqs |-> FreeRequest]
      /\ settled = {} /\ runs = {} /\ forgot = {}
  BY DEF PaywallInit, PaywallStart
<1>2. /\ FreeRequest \in Slots /\ FreeRequest.at = "free" /\ FreeRequest.proof = NoProof
      /\ FreeRequest.status = ""
  BY DEF FreeRequest, Slots
<1>3. ServerTypes /\ \A r \in Reqs : req[r] = FreeRequest
  BY <1>1, <1>2 DEF ServerTypes
<1>4. \A c \in Calls : /\ call[c] \in CallRecords /\ call[c].pc = "idle"
                       /\ call[c].signed = 0 /\ call[c].proof = NoProof
  BY DEF FetchInit, CallRecords, NoProof
<1>5. X402Types
  BY <1>3 DEF X402Types, FetchInit, CallRecords, NoProof
<1>6. ClaimsAreHeld
  BY <1>1, <1>2, <1>3 DEF ClaimsAreHeld, Working
<1>7. \A p \in Proofs : p[1] \in Calls /\ p[2] \in Nat /\ p[2] > 0 /\ p # NoProof
  BY DEF Proofs, NoProof
<1>8. CallsInOrder
  BY <1>1, <1>2, <1>3, <1>4, <1>7 DEF CallsInOrder, SendsLast, Awaits
<1>9. \A p \in Proofs : ~Replaced(p)
  BY <1>4, <1>7 DEF Replaced
<1>10. OldProofsInVain
  BY <1>2, <1>3, <1>9 DEF OldProofsInVain, Refused
<1> QED
  BY <1>5, <1>6, <1>8, <1>10 DEF X402Inv

(***************************************************************************)
(* Of a call's proofs only the last one can have been settled: the earlier *)
(* ones were spent in vain and the later ones are not signed yet.          *)
(***************************************************************************)
LEMMA InvariantCharges == X402Inv => ChargedOnce
<1> SUFFICES ASSUME X402Inv, adapter = "express"
             PROVE  /\ \A c \in Calls : ProofsOf(c) \cap forgot = {} =>
                         Cardinality(settled \cap ProofsOf(c)) <= 1
                    /\ \A p \in Proofs \ forgot : \A r, s \in Reqs :
                         <<p, r>> \in runs /\ <<p, s>> \in runs => r = s
  BY DEF ChargedOnce
<1>1. X402Types /\ ClaimsAreHeld /\ CallsInOrder /\ OldProofsInVain
  BY DEF X402Inv
<1>2. ASSUME NEW c \in Calls, ProofsOf(c) \cap forgot = {}
      PROVE  Cardinality(settled \cap ProofsOf(c)) <= 1
  <2>1. call[c].signed \in Nat
    BY <1>1 DEF X402Types, CallRecords
  <2>2. ASSUME NEW p \in settled \cap ProofsOf(c) PROVE p = <<c, call[c].signed>>
    <3>1. p \in Proofs /\ p[1] = c /\ p[2] \in Nat /\ p = <<p[1], p[2]>> /\ p \notin forgot
      BY <1>2, <2>2 DEF ProofsOf, Proofs
    <3>2. ~(p[2] > call[c].signed)
      BY <1>1, <2>2, <3>1 DEF CallsInOrder
    <3>3. ~(p[2] < call[c].signed)
      BY <1>1, <2>2, <3>1 DEF OldProofsInVain, Replaced, InVain
    <3> QED
      BY <2>1, <3>1, <3>2, <3>3
  <2>3. settled \cap ProofsOf(c) \subseteq {<<c, call[c].signed>>}
    BY <2>2
  <2>4. /\ IsFiniteSet({<<c, call[c].signed>>})
        /\ Cardinality({<<c, call[c].signed>>}) = 1
    BY FS_Singleton
  <2> QED
    BY <2>3, <2>4, FS_Subset
<1>3. \A p \in Proofs \ forgot : \A r, s \in Reqs :
        <<p, r>> \in runs /\ <<p, s>> \in runs => r = s
  BY <1>1 DEF ClaimsAreHeld
<1> QED
  BY <1>2, <1>3

(***************************************************************************)
(* Behind the Express paywall a call of marcFetch is charged at most once, *)
(* and a proof is served by one run of the handler, as long as no claim is *)
(* dropped early (sdk/src/marcFetch.ts, sdk/src/marcPaywall.ts), for any   *)
(* number of calls, requests, attempts, retries and failures.              *)
(***************************************************************************)
THEOREM CallsAreChargedOnce == X402Spec => []ChargedOnce
<1> QED
  BY X402Starts, X402Step, InvariantCharges, PTL DEF X402Spec

(***************************************************************************)
(* With any of the adapters: the handler only runs for a proof, an answer  *)
(* has a status, and a call that awaits an answer awaits a request's.      *)
(***************************************************************************)
RequestsTyped ==
    /\ req \in [Reqs -> Request]
    /\ \A r \in Reqs : /\ req[r].at = "handling" => req[r].proof \in Proofs
                       /\ req[r].at = "answered" => req[r].status # ""
BooksTyped ==
    /\ adapter \in Adapters
    /\ cache \in [Proofs -> {"absent", "PROCESSING", "SETTLED"}]
    /\ settled \subseteq Proofs /\ runs \subseteq Proofs \X Reqs /\ forgot \subseteq Proofs
    /\ forgets \in 0..MaxForget /\ transients \in 0..MaxTransient
BuyersTyped ==
    /\ call \in [Calls -> Call]
    /\ \A c \in Calls : call[c].pc \in {"await", "reawait"} => call[c].r \in Reqs

LEMMA RequestChanges ==
    ASSUME RequestsTyped, NEW r \in Reqs, NEW rec \in Request,
           rec.at = "handling" => rec.proof \in Proofs,
           rec.at = "answered" => rec.status # "",
           req' = [req EXCEPT ![r] = rec]
    PROVE  RequestsTyped'
<1>1. req'[r] = rec /\ \A s \in Reqs \ {r} : req'[s] = req[s]
  BY DEF RequestsTyped
<1>2. req' \in [Reqs -> Request]
  BY DEF RequestsTyped
<1> QED
  BY <1>1, <1>2 DEF RequestsTyped

LEMMA AnswerKeepsTypes ==
    ASSUME RequestsTyped, NEW r \in Reqs, NEW code \in {"200", "402", "409", "500"},
           req' = Answer(r, code)
    PROVE  RequestsTyped'
<1>1. PICK rec : rec = [req[r] EXCEPT !.at = "answered", !.status = code]
  OBVIOUS
<1>2. req[r] \in Request
  BY DEF RequestsTyped
<1>3. rec \in Request /\ rec.at = "answered" /\ rec.status = code
  BY <1>1, <1>2 DEF Request
<1>4. req' = [req EXCEPT ![r] = rec]
  BY <1>1, <1>2 DEF Answer, RequestsTyped
<1> QED
  BY <1>3, <1>4, RequestChanges

LEMMA FreeIsRequest == FreeRequest \in Request /\ FreeRequest.at = "free"
<1>1. (CHOOSE c \in Calls : TRUE) \in Calls
  BY PaywallAssumption
<1> QED
  BY <1>1 DEF FreeRequest, Request

LEMMA VerifyingKeepsTypes ==
    ASSUME RequestsTyped, BooksTyped, NEW r \in Reqs,
           FastifyHook(r) \/ NodeHttpCheck(r) \/ ClaimOrPass(r)
    PROVE  RequestsTyped' /\ BooksTyped'
<1>1. PICK guarded \in BOOLEAN : /\ Verifies(r, guarded)
                                 /\ guarded => req[r].proof # NoProof
  BY DEF FastifyHook, NodeHttpCheck, ClaimOrPass
<1>2. PICK rec : rec = [req[r] EXCEPT !.at = "verifying", !.claimed = guarded]
  OBVIOUS
<1>3. req[r] \in Request
  BY DEF RequestsTyped
<1>4. rec \in Request /\ rec.at = "verifying"
  BY <1>2, <1>3 DEF Request
<1>5. req' = [req EXCEPT ![r] = rec]
  BY <1>1, <1>2, <1>3 DEF Verifies, RequestsTyped
<1>6. RequestsTyped'
  BY <1>4, <1>5, RequestChanges
<1>7. UNCHANGED <<adapter, settled, runs, forgot, forgets, transients>>
  BY <1>1 DEF Verifies
<1>8. cache' \in [Proofs -> {"absent", "PROCESSING", "SETTLED"}]
  BY <1>1, <1>3 DEF Verifies, BooksTyped
<1> QED
  BY <1>6, <1>7, <1>8 DEF BooksTyped

LEMMA MiddlewareKeepsTypes ==
    ASSUME RequestsTyped, BooksTyped, NEW r \in Reqs,
           Granted(r) \/ Challenged(r) \/ ReplayOrConflict(r) \/ MiddlewareError(r)
    PROVE  RequestsTyped' /\ BooksTyped'
<1>1. req[r] \in Request /\ req[r].proof \in Proofs \cup {NoProof}
  BY DEF RequestsTyped, Request
<1>2. UNCHANGED <<adapter, settled, runs, forgets>>
  BY DEF Granted, Challenged, ReplayOrConflict, MiddlewareError
<1>3. transients' = transients \/ (transients < MaxTransient /\ transients' = transients + 1)
  BY DEF Granted, Challenged, ReplayOrConflict, MiddlewareError
<1>4. transients' \in 0..MaxTransient
  BY <1>3, PaywallAssumption DEF BooksTyped
<1>5. CASE Granted(r)
  <2>1. PICK both \in BOOLEAN : both = (req[r].claimed /\ req[r].open)
    BY <1>1 DEF Request
  <2>2. PICK rec : rec = [req[r] EXCEPT !.at = "handling", !.verified = TRUE, !.armed = both]
    OBVIOUS
  <2>3. rec \in Request /\ rec.at = "handling" /\ rec.proof = req[r].proof
    BY <1>1, <2>1, <2>2 DEF Request
  <2>4. /\ req[r].proof \in Proofs /\ req' = [req EXCEPT ![r] = rec]
        /\ UNCHANGED <<cache, forgot>>
    BY <1>1, <1>5, <2>1, <2>2 DEF Granted, RequestsTyped
  <2>5. RequestsTyped'
    BY <2>3, <2>4, RequestChanges
  <2> QED
    BY <1>2, <1>4, <2>4, <2>5 DEF BooksTyped
<1>6. CASE Challenged(r) \/ ReplayOrConflict(r)
  <2>1. PICK code \in {"200", "402", "409", "500"} : req' = Answer(r, code)
    BY <1>6 DEF Challenged, ReplayOrConflict
  <2>2. UNCHANGED <<cache, forgot>>
    BY <1>6 DEF Challenged, ReplayOrConflict
  <2> QED
    BY <1>2, <1>4, <2>1, <2>2, AnswerKeepsTypes DEF BooksTyped
<1>7. CASE MiddlewareError(r)
  <2>1. req[r].proof \in Proofs /\ (ExpressError(r) \/ FastifyError(r) \/ NodeHttpError(r))
    BY <1>1, <1>7 DEF MiddlewareError
  <2>2. CASE ExpressError(r)
    <3>1. RequestsTyped'
      BY <2>2, AnswerKeepsTypes DEF ExpressError
    <3>2. cache' \in [Proofs -> {"absent", "PROCESSING", "SETTLED"}]
          /\ forgot' \subseteq Proofs
      BY <2>1, <2>2 DEF ExpressError, Release, BooksTyped
    <3> QED
      BY <1>2, <1>4, <3>1, <3>2 DEF BooksTyped
  <2>3. CASE FastifyError(r)
    <3>1. RequestsTyped' /\ UNCHANGED <<cache, forgot>>
      BY <2>3, AnswerKeepsTypes DEF FastifyError
    <3> QED
      BY <1>2, <1>4, <3>1 DEF BooksTyped
  <2>4. CASE NodeHttpError(r)
    <3>1. PICK rec : rec = [req[r] EXCEPT !.at = "handling"]
      OBVIOUS
    <3>2. rec \in Request /\ rec.at = "handling" /\ rec.proof = req[r].proof
      BY <1>1, <3>1 DEF Request
    <3>3. req' = [req EXCEPT ![r] = rec] /\ UNCHANGED <<cache, forgot>>
      BY <2>4, <3>1 DEF NodeHttpError, RequestsTyped
    <3>4. RequestsTyped'
      BY <2>1, <3>2, <3>3, RequestChanges
    <3> QED
      BY <1>2, <1>4, <3>3, <3>4 DEF BooksTyped
  <2> QED
    BY <2>1, <2>2, <2>3, <2>4
<1> QED
  BY <1>5, <1>6, <1>7

LEMMA HandlerKeepsTypes ==
    ASSUME RequestsTyped, BooksTyped, NEW r \in Reqs, HandlerAnswers(r)
    PROVE  RequestsTyped' /\ BooksTyped'
<1>1. /\ req[r] \in Request /\ req[r].proof \in Proofs
      /\ UNCHANGED <<adapter, forgot, forgets, transients>>
  BY DEF HandlerAnswers, RequestsTyped
<1>2. PICK p \in Proofs : p = req[r].proof
  BY <1>1
<1>3. PICK ok \in BOOLEAN, settles \in BOOLEAN, code \in {"200", "402", "500"} :
          /\ settled' = IF settles THEN settled \cup {p} ELSE settled
          /\ runs' = IF ok THEN runs \cup {<<p, r>>} ELSE runs
          /\ cache' = IF req[r].open THEN FinalizeClaim(cache, r, code) ELSE cache
          /\ req' = Answer(r, code)
  <2>1. CASE req[r].verified = TRUE
    <3>1. \E ok \in BOOLEAN, settles \in BOOLEAN, code \in {"200", "402", "500"} :
          /\ settles = (ok /\ p \notin settled)
          /\ code = IF ~ok THEN "500" ELSE IF settles THEN "200" ELSE "402"
          /\ settled' = IF settles THEN settled \cup {p} ELSE settled
          /\ runs' = IF ok THEN runs \cup {<<p, r>>} ELSE runs
          /\ cache' = IF req[r].open THEN FinalizeClaim(cache, r, code) ELSE cache
          /\ req' = Answer(r, code)
      BY <1>1, <1>2, <2>1 DEF HandlerAnswers
    <3> QED
      BY <3>1
  <2>2. CASE req[r].verified = FALSE
    <3>1. \E ok \in BOOLEAN, code \in {"200", "402", "500"} :
              /\ settled' = settled
              /\ runs' = IF ok THEN runs \cup {<<p, r>>} ELSE runs
              /\ cache' = IF req[r].open THEN FinalizeClaim(cache, r, code) ELSE cache
              /\ req' = Answer(r, code)
      BY <1>1, <1>2, <2>2 DEF HandlerAnswers
    <3>2. settled' = settled => settled' = IF FALSE THEN settled \cup {p} ELSE settled
      OBVIOUS
    <3> QED
      BY <3>1, <3>2
  <2> QED
    BY <1>1, <2>1, <2>2 DEF Request
<1>4. RequestsTyped'
  BY <1>3, AnswerKeepsTypes
<1>5. cache' \in [Proofs -> {"absent", "PROCESSING", "SETTLED"}]
  BY <1>2, <1>3 DEF FinalizeClaim, MarkSettled, Release, BooksTyped
<1>6. settled' \subseteq Proofs /\ runs' \subseteq Proofs \X Reqs
  BY <1>3 DEF BooksTyped
<1> QED
  BY <1>1, <1>4, <1>5, <1>6 DEF BooksTyped

LEMMA ForgettingKeepsTypes ==
    ASSUME RequestsTyped, BooksTyped, Restarts \/ \E p \in Proofs : Expires(p)
    PROVE  RequestsTyped' /\ BooksTyped'
<1>1. /\ forgets < MaxForget /\ forgets' = forgets + 1
      /\ UNCHANGED <<adapter, settled, runs, transients>>
  BY DEF Restarts, Expires
<1>2. forgets' \in 0..MaxForget
  BY <1>1, PaywallAssumption DEF BooksTyped
<1>3. CASE \E p \in Proofs : Expires(p)
  <2>1. PICK p \in Proofs : Expires(p)
    BY <1>3
  <2>2. req' = req /\ forgot' = forgot \cup {p} /\ cache' = [cache EXCEPT ![p] = "absent"]
    BY <2>1 DEF Expires
  <2>3. RequestsTyped'
    BY <2>2 DEF RequestsTyped
  <2>4. cache' \in [Proofs -> {"absent", "PROCESSING", "SETTLED"}] /\ forgot' \subseteq Proofs
    BY <2>2 DEF BooksTyped
  <2> QED
    BY <1>1, <1>2, <2>3, <2>4 DEF BooksTyped
<1>4. CASE Restarts
  <2>1. /\ forgot' = Proofs /\ cache' \in [Proofs -> {"absent", "PROCESSING", "SETTLED"}]
    BY <1>4 DEF Restarts
  <2>2. \A r \in Reqs : req[r] \in Request
    BY DEF RequestsTyped
  <2>3. /\ req' \in [Reqs -> Request]
        /\ \A r \in Reqs : req'[r] = req[r] \/ req'[r].at = "gone"
    BY <1>4, <2>2, ZenonT(40) DEF Restarts, Request
  <2>4. RequestsTyped'
    BY <2>3 DEF RequestsTyped
  <2> QED
    BY <1>1, <1>2, <2>1, <2>4 DEF BooksTyped
<1> QED
  BY <1>3, <1>4

LEMMA ServerKeepsTypes ==
    ASSUME RequestsTyped, BooksTyped, PaywallNext
    PROVE  RequestsTyped' /\ BooksTyped'
BY VerifyingKeepsTypes, MiddlewareKeepsTypes, HandlerKeepsTypes, ForgettingKeepsTypes
DEF PaywallNext

\* A call's record changes; the others await what they did.
LEMMA BuyerChanges ==
    ASSUME BuyersTyped, NEW c \in Calls, NEW new \in Call,
           new.pc \in {"await", "reawait"} => new.r \in Reqs,
           call' = [call EXCEPT ![c] = new]
    PROVE  BuyersTyped'
<1>1. call'[c] = new /\ \A d \in Calls \ {c} : call'[d] = call[d]
  BY DEF BuyersTyped
<1>2. call' \in [Calls -> Call]
  BY DEF BuyersTyped
<1> QED
  BY <1>1, <1>2 DEF BuyersTyped

LEMMA CaughtIsCall ==
    ASSUME NEW rec \in Call
    PROVE  Caught(rec) \in Call /\ Caught(rec).pc \in {"fetch", "done"}
<1>1. rec.attempts \in 0..maxPaymentAttempts /\ maxPaymentAttempts \in Nat
  BY FetchAssumption DEF Call
<1>2. CASE rec.attempts >= maxPaymentAttempts
  BY <1>2 DEF Caught, Returns, Call
<1>3. CASE ~(rec.attempts >= maxPaymentAttempts)
  <2>1. PICK n \in 0..maxPaymentAttempts : n = rec.attempts + 1
    BY <1>1, <1>3
  <2>2. Caught(rec) = [rec EXCEPT !.pc = "fetch", !.attempts = n, !.r = 0]
    BY <1>3, <2>1 DEF Caught
  <2> QED
    BY <2>2 DEF Call
<1> QED
  BY <1>2, <1>3

LEMMA ReturnIsCall ==
    ASSUME NEW rec \in Call, NEW code \in {"200", "402", "409", "500"}
    PROVE  /\ Returns(Report(rec, code), code) \in Call
           /\ Returns(Report(rec, code), code).pc = "done"
<1>1. PICK told \in {"", "signing", "pending", "settled", "failed"} :
          Report(rec, code) = [rec EXCEPT !.reported = told]
  <2>1. CASE rec.triggered /\ code = "200"
    BY <2>1 DEF Report
  <2>2. CASE ~(rec.triggered /\ code = "200")
    <3>1. Report(rec, code) = rec /\ rec = [rec EXCEPT !.reported = rec.reported]
      BY <2>2 DEF Report, Call
    <3>2. rec.reported \in {"", "signing", "pending", "settled", "failed"}
      BY DEF Call
    <3> QED
      BY <3>1, <3>2
  <2> QED
    BY <2>1, <2>2
<1>2. Report(rec, code) \in Call
  BY <1>1 DEF Call
<1> QED
  BY <1>2, ZenonT(40) DEF Returns, Call

LEMMA FreedKeepsTypes ==
    ASSUME RequestsTyped, NEW r \in Reqs, req' = Collected(r)
    PROVE  RequestsTyped'
BY FreeIsRequest, RequestChanges DEF Collected

LEMMA BuyerKeepsTypes ==
    ASSUME RequestsTyped, BooksTyped, BuyersTyped, NEW c \in Calls,
           \/ BeginCall(c) \/ BaseFetch(c) \/ FirstAnswer(c)
           \/ SignPayment(c) \/ PaidAnswer(c) \/ FetchFails(c)
    PROVE  RequestsTyped' /\ BooksTyped' /\ BuyersTyped'
<1>1. /\ call[c] \in Call /\ call[c].proof \in Proofs \cup {NoProof}
      /\ call[c].signed \in 0..MaxPay /\ call[c].retry \in 0..retries
      /\ call[c].pc \in {"await", "reawait"} => call[c].r \in Reqs
  BY DEF BuyersTyped, Call
<1>2. UNCHANGED serverVars => RequestsTyped' /\ BooksTyped'
  BY DEF serverVars, RequestsTyped, BooksTyped
<1>3. UNCHANGED <<adapter, cache, settled, runs, forgot, forgets, transients>> => BooksTyped'
  BY DEF BooksTyped
<1>4. CASE BeginCall(c)
  <2>1. PICK new : new = [Goto(c, "fetch") EXCEPT !.attempts = 1]
    OBVIOUS
  <2>2. 1 \in 0..maxPaymentAttempts
    BY FetchAssumption
  <2>3. new \in Call /\ new.pc = "fetch"
    BY <1>1, <2>1, <2>2 DEF Goto, Call
  <2>4. call' = [call EXCEPT ![c] = new] /\ UNCHANGED serverVars
    BY <1>4, <2>1 DEF BeginCall
  <2> QED
    BY <1>2, <2>3, <2>4, BuyerChanges
<1>5. CASE BaseFetch(c)
  <2>1. PICK r \in Reqs :
          /\ req' = [req EXCEPT ![r] = [FreeRequest EXCEPT !.call = c,
                       !.proof = call[c].proof, !.at = "sent", !.open = TRUE]]
          /\ call' = [call EXCEPT ![c].r = r,
                       ![c].pc = IF @ = "fetch" THEN "await" ELSE "reawait"]
    BY <1>5 DEF BaseFetch
  <2>2. PICK slot : slot = [FreeRequest EXCEPT !.call = c,
                              !.proof = call[c].proof, !.at = "sent", !.open = TRUE]
    OBVIOUS
  <2>3. slot \in Request /\ slot.at = "sent"
    BY <1>1, <2>2, FreeIsRequest DEF Request
  <2>4. RequestsTyped'
    BY <2>1, <2>2, <2>3, RequestChanges
  <2>5. PICK at \in {"await", "reawait"} : at = IF call[c].pc = "fetch" THEN "await" ELSE "reawait"
    OBVIOUS
  <2>6. PICK new : new = [call[c] EXCEPT !.r = r, !.pc = at]
    OBVIOUS
  <2>7. new \in Call /\ new.r = r
    BY <1>1, <2>5, <2>6 DEF Call
  <2>8. call' = [call EXCEPT ![c] = new]
    BY <1>1, <2>1, <2>5, <2>6 DEF Call, BuyersTyped
  <2>9. BuyersTyped'
    BY <2>7, <2>8, BuyerChanges
  <2> QED
    BY <1>3, <1>5, <2>4, <2>9 DEF BaseFetch
<1>6. CASE FirstAnswer(c)
  <2>1. PICK r : r = call[c].r
    OBVIOUS
  <2>2. PICK code : code = req[r].status
    OBVIOUS
  <2>3. /\ call[c].pc = "await" /\ req[r].at = "answered" /\ req' = Collected(r)
        /\ UNCHANGED <<adapter, cache, settled, runs, forgot, forgets, transients>>
        /\ call' = [call EXCEPT ![c] =
              IF code # "402" \/ call[c].attempts >= maxPaymentAttempts
              THEN Returns(Report(call[c], code), code)
              ELSE [call[c] EXCEPT !.pc = "pay", !.triggered = TRUE, !.r = 0,
                                   !.reported = "signing"]]
    BY <1>6, <2>1, <2>2 DEF FirstAnswer
  <2>4. r \in Reqs
    BY <1>1, <2>1, <2>3
  <2>5. code \in {"200", "402", "409", "500"}
    BY <2>2, <2>3, <2>4 DEF RequestsTyped, Request
  <2>6. RequestsTyped' /\ BooksTyped'
    BY <1>3, <2>3, <2>4, FreedKeepsTypes
  <2>7. CASE code # "402" \/ call[c].attempts >= maxPaymentAttempts
    <3>1. PICK new : new = Returns(Report(call[c], code), code)
      OBVIOUS
    <3>2. new \in Call /\ new.pc = "done"
      BY <1>1, <2>5, <3>1, ReturnIsCall
    <3>3. call' = [call EXCEPT ![c] = new]
      BY <2>3, <2>7, <3>1
    <3> QED
      BY <2>6, <3>2, <3>3, BuyerChanges
  <2>8. CASE ~(code # "402" \/ call[c].attempts >= maxPaymentAttempts)
    <3>1. PICK new : new = [call[c] EXCEPT !.pc = "pay", !.triggered = TRUE, !.r = 0,
                                           !.reported = "signing"]
      OBVIOUS
    <3>2. new \in Call /\ new.pc = "pay"
      BY <1>1, <3>1 DEF Call
    <3>3. call' = [call EXCEPT ![c] = new]
      BY <2>3, <2>8, <3>1
    <3> QED
      BY <2>6, <3>2, <3>3, BuyerChanges
  <2> QED
    BY <2>7, <2>8
<1>7. CASE SignPayment(c)
  <2>1. UNCHANGED serverVars
    BY <1>7 DEF SignPayment
  <2>2. CASE /\ call[c].signed < MaxPay
             /\ call' = [call EXCEPT ![c].pc = "refetch", ![c].retry = 0,
                           ![c].signed = @ + 1, ![c].proof = <<c, call[c].signed + 1>>,
                           ![c].reported = "pending"]
    <3>1. MaxPay \in Nat
      BY PaywallAssumption
    <3>2. PICK n \in 1..MaxPay : n = call[c].signed + 1
      BY <1>1, <2>2, <3>1
    <3>3. PICK p \in Proofs : p = <<c, n>>
      BY <3>2 DEF Proofs
    <3>4. PICK new : new = [call[c] EXCEPT !.pc = "refetch", !.retry = 0,
                              !.signed = n, !.proof = p, !.reported = "pending"]
      OBVIOUS
    <3>5. n \in 0..MaxPay /\ 0 \in 0..retries
      BY <3>1, <3>2, FetchAssumption
    <3>6. new \in Call /\ new.pc = "refetch"
      BY <1>1, <3>4, <3>5 DEF Call
    <3>7. call' = [call EXCEPT ![c] = new]
      BY <1>1, <2>2, <3>2, <3>3, <3>4 DEF Call, BuyersTyped
    <3> QED
      BY <1>2, <2>1, <3>6, <3>7, BuyerChanges
  <2>3. CASE call' = [call EXCEPT ![c] = Caught([@ EXCEPT !.reported = "failed"])]
    <3>1. PICK rec : rec = [call[c] EXCEPT !.reported = "failed"]
      OBVIOUS
    <3>2. rec \in Call
      BY <1>1, <3>1 DEF Call
    <3>3. Caught(rec) \in Call /\ Caught(rec).pc \in {"fetch", "done"}
      BY <3>2, CaughtIsCall
    <3>4. call' = [call EXCEPT ![c] = Caught(rec)]
      BY <2>3, <3>1
    <3> QED
      BY <1>2, <2>1, <3>3, <3>4, BuyerChanges
  <2> QED
    BY <1>7, <2>2, <2>3 DEF SignPayment
<1>8. CASE PaidAnswer(c)
  <2>1. PICK r : r = call[c].r
    OBVIOUS
  <2>2. PICK code : code = req[r].status
    OBVIOUS
  <2>3. /\ call[c].pc = "reawait" /\ req[r].at = "answered" /\ req' = Collected(r)
        /\ UNCHANGED <<adapter, cache, settled, runs, forgot, forgets, transients>>
        /\ call' = [call EXCEPT ![c] =
              IF code # "402" THEN Returns(Report(call[c], code), code)
              ELSE IF call[c].retry < retries
              THEN [call[c] EXCEPT !.pc = "refetch", !.retry = call[c].retry + 1, !.r = 0]
              ELSE Returns([call[c] EXCEPT !.reported = "failed"],
                           "MarcPaymentTimeoutError")]
    BY <1>1, <1>8, <2>1, <2>2 DEF PaidAnswer, Call
  <2>4. r \in Reqs
    BY <1>1, <2>1, <2>3
  <2>5. code \in {"200", "402", "409", "500"}
    BY <2>2, <2>3, <2>4 DEF RequestsTyped, Request
  <2>6. RequestsTyped' /\ BooksTyped'
    BY <1>3, <2>3, <2>4, FreedKeepsTypes
  <2>7. PICK new : new = IF code # "402" THEN Returns(Report(call[c], code), code)
                         ELSE IF call[c].retry < retries
                         THEN [call[c] EXCEPT !.pc = "refetch", !.retry = call[c].retry + 1,
                                              !.r = 0]
                         ELSE Returns([call[c] EXCEPT !.reported = "failed"],
                                      "MarcPaymentTimeoutError")
    OBVIOUS
  <2>8. new \in Call /\ new.pc \in {"done", "refetch"}
    <3>1. CASE code # "402"
      BY <1>1, <2>5, <2>7, <3>1, ReturnIsCall
    <3>2. CASE code = "402" /\ call[c].retry < retries
      <4>1. PICK n \in 0..retries : n = call[c].retry + 1
        BY <1>1, <3>2, FetchAssumption
      <4>2. new = [call[c] EXCEPT !.pc = "refetch", !.retry = n, !.r = 0]
        BY <2>7, <3>2, <4>1
      <4> QED
        BY <1>1, <4>2 DEF Call
    <3>3. CASE code = "402" /\ ~(call[c].retry < retries)
      <4>1. new = [call[c] EXCEPT !.reported = "failed", !.pc = "done",
                     !.result = "MarcPaymentTimeoutError", !.r = 0]
        BY <1>1, <2>7, <3>3 DEF Returns, Call
      <4> QED
        BY <1>1, <4>1 DEF Call
    <3> QED
      BY <3>1, <3>2, <3>3
  <2>9. call' = [call EXCEPT ![c] = new]
    BY <2>3, <2>7
  <2> QED
    BY <2>6, <2>8, <2>9, BuyerChanges
<1>9. CASE FetchFails(c)
  <2>1. PICK r : r = call[c].r
    OBVIOUS
  <2>2. /\ call[c].pc \in {"await", "reawait"}
        /\ call' = [call EXCEPT ![c] = Caught(call[c])]
        /\ UNCHANGED <<adapter, settled, runs, forgets, transients>>
    BY <1>9 DEF FetchFails
  <2>3. r \in Reqs /\ req[r] \in Request
    BY <1>1, <2>1, <2>2 DEF RequestsTyped
  <2>4. BuyersTyped'
    BY <1>1, <2>2, CaughtIsCall, BuyerChanges
  <2>5. CASE req' = Collected(r) /\ UNCHANGED <<cache, forgot>>
    BY <1>3, <2>2, <2>3, <2>4, <2>5, FreedKeepsTypes
  <2>6. CASE req' = [req EXCEPT ![r].open = FALSE] /\ ConnectionCloses(r)
    <3>1. PICK rec : rec = [req[r] EXCEPT !.open = FALSE]
      OBVIOUS
    <3>2. /\ rec \in Request /\ rec.at = req[r].at /\ rec.proof = req[r].proof
          /\ rec.status = req[r].status
      BY <2>3, <3>1 DEF Request
    <3>3. req' = [req EXCEPT ![r] = rec]
      BY <2>6, <3>1
    <3>4. RequestsTyped'
      BY <2>3, <3>2, <3>3, RequestChanges DEF RequestsTyped
    <3>5. req[r].at = "handling" => req[r].proof \in Proofs
      BY <2>3 DEF RequestsTyped
    <3>6. /\ cache' \in [Proofs -> {"absent", "PROCESSING", "SETTLED"}]
          /\ forgot' \subseteq Proofs
      <4>1. CASE req[r].at = "handling" /\ req[r].claimed /\ req[r].armed
        BY <2>6, <3>5, <4>1 DEF ConnectionCloses, FinalizeClaim, Release, BooksTyped
      <4>2. CASE ~(req[r].at = "handling" /\ req[r].claimed /\ req[r].armed)
        BY <2>6, <3>5, <4>2 DEF ConnectionCloses, FinalizeClaim, BooksTyped
      <4> QED
        BY <4>1, <4>2
    <3> QED
      BY <2>2, <2>4, <3>4, <3>6 DEF BooksTyped
  <2> QED
    BY <1>9, <2>1, <2>5, <2>6 DEF FetchFails
<1> QED
  BY <1>4, <1>5, <1>6, <1>7, <1>8, <1>9

X402Typed == RequestsTyped /\ BooksTyped /\ BuyersTyped

LEMMA X402KeepsTypes == X402Typed /\ [FetchNext]_x402Vars => X402Typed'
<1> SUFFICES ASSUME X402Typed, [FetchNext]_x402Vars PROVE X402Typed'
  OBVIOUS
<1>1. RequestsTyped /\ BooksTyped /\ BuyersTyped
  BY DEF X402Typed
<1>2. ASSUME NEW c \in Calls,
             \/ BeginCall(c) \/ BaseFetch(c) \/ FirstAnswer(c)
             \/ SignPayment(c) \/ PaidAnswer(c) \/ FetchFails(c)
      PROVE  X402Typed'
  BY <1>1, <1>2, BuyerKeepsTypes DEF X402Typed
<1>3. ASSUME NEW r \in Reqs, DropAnswer(r) PROVE X402Typed'
  <2>1. RequestsTyped'
    BY <1>1, <1>3, FreedKeepsTypes DEF DropAnswer
  <2>2. BooksTyped' /\ BuyersTyped'
    BY <1>1, <1>3 DEF DropAnswer, BooksTyped, BuyersTyped
  <2> QED
    BY <2>1, <2>2 DEF X402Typed
<1>4. CASE PaywallNext /\ UNCHANGED call
  <2>1. RequestsTyped' /\ BooksTyped'
    BY <1>1, <1>4, ServerKeepsTypes
  <2>2. BuyersTyped'
    BY <1>1, <1>4 DEF BuyersTyped
  <2> QED
    BY <2>1, <2>2 DEF X402Typed
<1>5. CASE UNCHANGED x402Vars
  BY <1>1, <1>5 DEF x402Vars, serverVars, X402Typed, RequestsTyped, BooksTyped, BuyersTyped
<1> QED
  BY <1>2, <1>3, <1>4, <1>5 DEF FetchNext

LEMMA X402StartsTyped == PaywallInit /\ FetchInit => X402Typed
<1> SUFFICES ASSUME PaywallInit, FetchInit PROVE X402Typed
  OBVIOUS
<1>1. PICK kind \in Adapters : PaywallStart(kind)
  BY DEF PaywallInit
<1>2. RequestsTyped
  BY <1>1, FreeIsRequest DEF PaywallStart, RequestsTyped
<1>3. 0 \in 0..MaxForget /\ 0 \in 0..MaxTransient /\ 0 \in 0..MaxPay
      /\ 0 \in 0..maxPaymentAttempts /\ 0 \in 0..retries
  BY PaywallAssumption, FetchAssumption
<1>4. BooksTyped
  BY <1>1, <1>3 DEF PaywallStart, BooksTyped
<1>5. BuyersTyped
  BY <1>3 DEF FetchInit, BuyersTyped, Call
<1> QED
  BY <1>2, <1>4, <1>5 DEF X402Typed

LEMMA X402StaysTyped == X402Spec => [](PaywallTypeOK /\ FetchTypeOK)
<1>1. X402Typed => PaywallTypeOK /\ FetchTypeOK
  BY DEF X402Typed, RequestsTyped, BooksTyped, BuyersTyped, PaywallTypeOK, FetchTypeOK
<1> QED
  BY <1>1, X402StartsTyped, X402KeepsTypes, PTL DEF X402Spec

----------------------------------------------------------------------------
(* Getting a call onto the ledger. *)

TxSpec == TxInit /\ [][TxNext]_txVars

Invocation ==
    [ pc : {"idle", "allocate", "prepare", "send", "poll", "simulate", "done"},
      attempt : Nat, seq : Nat, until : Nat, sent : Nat, since : Nat, badSeq : BOOLEAN,
      result : Results ]

Submission == [c : Invokes, seq : Nat, until : Nat]

GaveUp(c) == inv[c].result = "TransactionTimeoutError"
PollsLonger == pollTimeout > timeBound

(***************************************************************************)
(* Where a call i may be at a time: its bound is of a transaction built    *)
(* before now, and before it was polled for; and when it has been given up *)
(* on by a client that polls for longer, it has passed.                    *)
(***************************************************************************)
InTime(i) ==
    /\ i.until <= now + timeBound
    /\ i.pc = "poll" => i.until <= i.since + timeBound
    /\ i.result = "TransactionTimeoutError" =>
         i.pc = "done" /\ (PollsLonger => i.until < now)

(***************************************************************************)
(* Every transaction out there is valid no longer than the one its call    *)
(* built last.                                                             *)
(***************************************************************************)
TxInv ==
    /\ now \in Nat /\ pollTimeout \in Nat
    /\ inv \in [Invokes \cup Reads -> Invocation]
    /\ pending \subseteq Submission
    /\ \A c \in Invokes : InTime(inv[c])
    /\ \A tx \in pending : tx.until <= inv[tx.c].until

(***************************************************************************)
(* A step of a call in progress: its bound only grows, and what it sends   *)
(* is its own.                                                             *)
(***************************************************************************)
LEMMA InvocationMoves ==
    ASSUME TxInv, NEW c \in Invokes, NEW new \in Invocation,
           inv' = [inv EXCEPT ![c] = new], now' = now, pollTimeout' = pollTimeout,
           inv[c].until <= new.until, InTime(new), pending' \subseteq Submission,
           \A tx \in pending' : tx \in pending \/ (tx.c = c /\ tx.until = inv[c].until)
    PROVE  TxInv'
<1>1. inv'[c] = new /\ \A d \in (Invokes \cup Reads) \ {c} : inv'[d] = inv[d]
  BY DEF TxInv
<1>2. inv' \in [Invokes \cup Reads -> Invocation]
  BY DEF TxInv
<1>3. ASSUME NEW d \in Invokes PROVE InTime(inv[d])'
  <2>1. InTime(inv'[d])
    <3>1. CASE d = c
      BY <1>1, <3>1
    <3>2. CASE d # c
      BY <1>1, <3>2 DEF TxInv
    <3> QED
      BY <3>1, <3>2
  <2> QED
    BY <2>1 DEF InTime, PollsLonger
<1>4. ASSUME NEW tx \in pending' PROVE tx.until <= inv'[tx.c].until
  <2>1. tx.c \in Invokes /\ tx.until \in Nat
    BY DEF Submission
  <2>2. inv[tx.c].until \in Nat /\ inv'[tx.c].until \in Nat
    BY <1>2, <2>1 DEF TxInv, Invocation
  <2>3. tx.until <= inv[tx.c].until
    <3>1. CASE tx \in pending
      BY <3>1 DEF TxInv
    <3>2. CASE tx.c = c /\ tx.until = inv[c].until
      BY <2>1, <3>2
    <3> QED
      BY <3>1, <3>2
  <2>4. inv[tx.c].until <= inv'[tx.c].until
    BY <1>1, <2>1, <2>2
  <2> QED
    BY <2>1, <2>2, <2>3, <2>4
<1> QED
  BY <1>2, <1>3, <1>4 DEF TxInv

LEMMA ErrorsAreThrown ==
    ASSUME TxInv, NEW c \in Invokes, Throws(c) \/ ResyncAndRetry(c)
    PROVE  \E new \in Invocation : /\ inv' = [inv EXCEPT ![c] = new] /\ new.pc # "poll"
                                   /\ new.until = inv[c].until
                                   /\ new.result \in {"error", inv[c].result}
<1>1. inv[c] \in Invocation /\ inv[c].attempt \in Nat
  BY DEF TxInv, Invocation
<1>2. CASE Throws(c)
  <2>1. PICK new : new = [inv[c] EXCEPT !.pc = "done", !.result = "error"]
    OBVIOUS
  <2>2. /\ new \in Invocation /\ new.result = "error" /\ new.pc # "poll"
        /\ new.until = inv[c].until
    BY <1>1, <2>1 DEF Invocation, Results
  <2>3. inv' = [inv EXCEPT ![c] = new]
    BY <1>1, <1>2, <2>1 DEF Throws, TxInv, Invocation
  <2> QED
    BY <2>2, <2>3
<1>3. CASE inv' = [inv EXCEPT ![c].pc = "allocate", ![c].attempt = @ + 1]
  <2>1. PICK n \in Nat : n = inv[c].attempt + 1
    BY <1>1
  <2>2. PICK new : new = [inv[c] EXCEPT !.pc = "allocate", !.attempt = n]
    OBVIOUS
  <2>3. /\ new \in Invocation /\ new.result = inv[c].result /\ new.pc # "poll"
        /\ new.until = inv[c].until
    BY <1>1, <2>2 DEF Invocation
  <2>4. inv' = [inv EXCEPT ![c] = new]
    BY <1>3, <2>1, <2>2
  <2> QED
    BY <2>3, <2>4
<1> QED
  BY <1>2, <1>3 DEF ResyncAndRetry

LEMMA InvokeKeepsInv ==
    ASSUME TxInv, NEW c \in Invokes,
           \/ AllocateSequence(c) \/ PrepareAndSign(c) \/ SendAccepted(c)
           \/ SendRefused(c) \/ SendRejected(c) \/ SendFails(c)
           \/ PollFinds(c) \/ PollFails(c) \/ PollNotFound(c)
    PROVE  TxInv' /\ included' = included
<1> DEFINE i == inv[c]
<1>1. /\ i \in Invocation /\ i.attempt \in Nat /\ i.seq \in Nat /\ i.until \in Nat
      /\ i.since \in Nat /\ now \in Nat /\ timeBound \in Nat /\ pollTimeout \in Nat
      /\ i.until <= now + timeBound
  BY TxAssumption DEF TxInv, Invocation, InTime
<1>2. i.pc # "done"
  BY DEF AllocateSequence, PrepareAndSign, SendAccepted, SendRefused, SendRejected,
         SendFails, PollFinds, PollFails, PollNotFound
<1>3. i.result # "TransactionTimeoutError" /\ (i.pc = "poll" => i.until <= i.since + timeBound)
  BY <1>2 DEF TxInv, InTime
<1>4. included' = included /\ now' = now /\ pollTimeout' = pollTimeout
  BY DEF AllocateSequence, PrepareAndSign, SendAccepted, SendRefused, SendRejected,
         SendFails, PollFinds, PollFails, PollNotFound, ledgerVars, configVars
<1>5. PICK tx : tx = [c |-> c, seq |-> TxSeq(c), until |-> i.until]
  OBVIOUS
<1>6. pending' \in {pending, pending \cup {tx}}
  BY <1>5 DEF AllocateSequence, PrepareAndSign, SendAccepted, SendRefused, SendRejected,
              SendFails, PollFinds, PollFails, PollNotFound, Submitted, ledgerVars
<1>7. tx \in Submission /\ tx.c = c /\ tx.until = i.until
  BY <1>1, <1>5 DEF Submission, TxSeq
<1>8. /\ pending' \subseteq Submission
      /\ \A t \in pending' : t \in pending \/ (t.c = c /\ t.until = i.until)
  BY <1>6, <1>7 DEF TxInv
<1>9. ASSUME NEW new \in Invocation, inv' = [inv EXCEPT ![c] = new],
             i.until <= new.until, InTime(new)
      PROVE  TxInv'
  BY <1>4, <1>8, <1>9, InvocationMoves
<1>10. SUFFICES (\E new \in Invocation :
           inv' = [inv EXCEPT ![c] = new] /\ i.until <= new.until /\ InTime(new)) \/ TxInv'
  BY <1>4, <1>9
<1> HIDE DEF i
<1>11. ASSUME NEW new \in Invocation, inv' = [inv EXCEPT ![c] = new], new.pc # "poll",
              new.until = i.until, new.result # "TransactionTimeoutError"
       PROVE  TxInv'
  <2>1. InTime(new)
    BY <1>1, <1>11 DEF InTime
  <2>2. i.until <= new.until
    BY <1>1, <1>11
  <2> QED
    BY <1>9, <1>11, <2>1, <2>2
<1>12. CASE Throws(c) \/ ResyncAndRetry(c)
  BY <1>3, <1>11, <1>12, ErrorsAreThrown DEF i
<1>13. CASE AllocateSequence(c)
  <2>1. CASE \E seq \in 1..(ledgerSeq + 1 + 2 * Cardinality(Invokes) * (maxSeqRetries + 1)) :
                inv' = [inv EXCEPT ![c].pc = "prepare", ![c].seq = seq,
                                   ![c].until = now + timeBound]
    <3>1. PICK top : top = ledgerSeq + 1 + 2 * Cardinality(Invokes) * (maxSeqRetries + 1)
      OBVIOUS
    <3>2. PICK n \in Nat : n = now + timeBound
      BY <1>1
    <3>3. PICK seq \in 1..top : inv' = [inv EXCEPT ![c].pc = "prepare", ![c].seq = seq,
                                                   ![c].until = n]
      BY <2>1, <3>1, <3>2
    <3>4. seq \in Nat
      OBVIOUS
    <3>5. PICK new : new = [i EXCEPT !.pc = "prepare", !.seq = seq, !.until = n]
      OBVIOUS
    <3>6. /\ new \in Invocation /\ new.result = i.result /\ new.pc = "prepare"
          /\ new.until = n
      BY <1>1, <3>4, <3>5 DEF Invocation
    <3>7. inv' = [inv EXCEPT ![c] = new]
      BY <3>3, <3>5 DEF i
    <3>8. InTime(new) /\ i.until <= new.until
      BY <1>1, <1>3, <3>2, <3>6 DEF InTime
    <3> QED
      BY <1>9, <3>6, <3>7, <3>8 DEF i
  <2> QED
    BY <1>12, <1>13, <2>1 DEF AllocateSequence
<1>14. CASE PrepareAndSign(c)
  <2>1. CASE inv' = [inv EXCEPT ![c].pc = "send"]
    <3>1. PICK new : new = [i EXCEPT !.pc = "send"]
      OBVIOUS
    <3>2. /\ new \in Invocation /\ new.result = i.result /\ new.pc # "poll"
          /\ new.until = i.until
      BY <1>1, <3>1 DEF Invocation
    <3>3. inv' = [inv EXCEPT ![c] = new]
      BY <2>1, <3>1 DEF i
    <3> QED
      BY <1>3, <1>11, <3>2, <3>3
  <2> QED
    BY <1>12, <1>14, <2>1 DEF PrepareAndSign
<1>15. CASE SendAccepted(c)
  <2>1. PICK n \in Nat : n = TxSeq(c)
    BY <1>1 DEF TxSeq, i
  <2>2. PICK new : new = [i EXCEPT !.pc = "poll", !.sent = n, !.since = now]
    OBVIOUS
  <2>3. /\ new \in Invocation /\ new.result = i.result /\ new.until = i.until
        /\ new.since = now
    BY <1>1, <2>2 DEF Invocation
  <2>4. inv' = [inv EXCEPT ![c] = new]
    BY <1>15, <2>1, <2>2 DEF SendAccepted, i
  <2>5. InTime(new) /\ i.until <= new.until
    BY <1>1, <1>3, <2>3 DEF InTime
  <2> QED
    BY <1>9, <2>3, <2>4, <2>5 DEF i
<1>16. CASE SendRefused(c)
  <2>1. PICK n \in Nat : n = i.attempt + 1
    BY <1>1
  <2>2. PICK again : again = [i EXCEPT !.pc = "allocate", !.attempt = n, !.badSeq = TRUE]
    OBVIOUS
  <2>3. PICK over : over = [i EXCEPT !.pc = "done", !.result = "error", !.badSeq = TRUE]
    OBVIOUS
  <2>4. /\ again \in Invocation /\ again.result = i.result /\ again.pc # "poll"
        /\ again.until = i.until
    BY <1>1, <2>2 DEF Invocation
  <2>5. /\ over \in Invocation /\ over.result = "error" /\ over.pc # "poll"
        /\ over.until = i.until
    BY <1>1, <2>3 DEF Invocation, Results
  <2>6. inv' = [inv EXCEPT ![c] = again] \/ inv' = [inv EXCEPT ![c] = over]
    BY <1>16, <2>1, <2>2, <2>3 DEF SendRefused, i
  <2> QED
    BY <1>3, <1>11, <2>4, <2>5, <2>6
<1>17. CASE PollFinds(c)
  <2>1. CASE inv' = [inv EXCEPT ![c].pc = "done", ![c].result = "ok"]
    <3>1. PICK new : new = [i EXCEPT !.pc = "done", !.result = "ok"]
      OBVIOUS
    <3>2. /\ new \in Invocation /\ new.result = "ok" /\ new.pc # "poll"
          /\ new.until = i.until
      BY <1>1, <3>1 DEF Invocation, Results
    <3>3. inv' = [inv EXCEPT ![c] = new]
      BY <2>1, <3>1 DEF i
    <3> QED
      BY <1>11, <3>2, <3>3
  <2> QED
    BY <1>12, <1>17, <2>1 DEF PollFinds
<1>18. CASE PollNotFound(c)
  <2>1. CASE inv' = inv
    <3>1. inv' = [inv EXCEPT ![c] = i]
      BY <2>1 DEF i, TxInv
    <3>2. InTime(i) /\ i.until <= i.until
      <4>1. InTime(i)
        BY DEF TxInv, i
      <4> QED
        BY <1>1, <4>1
    <3>3. i \in Invocation
      BY <1>1
    <3> QED
      BY <1>9, <3>1, <3>2, <3>3
  <2>2. CASE PollElapsed(c)
    <3>1. PICK new : new = [i EXCEPT !.pc = "done", !.result = "TransactionTimeoutError"]
      OBVIOUS
    <3>2. /\ new \in Invocation /\ new.pc = "done" /\ new.until = i.until
      BY <1>1, <3>1 DEF Invocation, Results
    <3>3. inv' = [inv EXCEPT ![c] = new]
      BY <1>18, <2>2, <3>1 DEF PollNotFound, i
    <3>4. i.pc = "poll" /\ now - i.since >= pollTimeout
      BY <1>18, <2>2 DEF PollNotFound, PollElapsed, i
    <3>5. PollsLonger => i.until < now
      BY <1>1, <1>3, <3>4 DEF PollsLonger
    <3>6. InTime(new) /\ i.until <= new.until
      BY <1>1, <3>2, <3>5 DEF InTime
    <3> QED
      BY <1>9, <3>2, <3>3, <3>6
  <2> QED
    BY <1>18, <2>1, <2>2 DEF PollNotFound
<1> QED
  BY <1>12, <1>13, <1>14, <1>15, <1>16, <1>17, <1>18 DEF SendRejected, SendFails, PollFails

(***************************************************************************)
(* What leaves the calls of invoke and the clock alone keeps it, and so    *)
(* does dropping or including what was submitted.                          *)
(***************************************************************************)
LEMMA OthersKeepInv ==
    ASSUME TxInv, inv' \in [Invokes \cup Reads -> Invocation],
           \A d \in Invokes : inv'[d] = inv[d],
           now' = now, pollTimeout' = pollTimeout, pending' \subseteq pending
    PROVE  TxInv'
<1>1. ASSUME NEW c \in Invokes PROVE InTime(inv[c])'
  <2>1. InTime(inv'[c])
    BY DEF TxInv
  <2> QED
    BY <2>1 DEF InTime, PollsLonger
<1>2. ASSUME NEW tx \in pending' PROVE tx.until <= inv'[tx.c].until
  <2>1. tx.c \in Invokes /\ tx.until <= inv[tx.c].until
    BY DEF TxInv, Submission
  <2> QED
    BY <2>1
<1> QED
  BY <1>1, <1>2 DEF TxInv

LEMMA StartsInTime ==
    ASSUME inv = [c \in Invokes \cup Reads |-> [pc |-> "idle", attempt |-> 0, seq |-> 0,
                    until |-> 0, sent |-> 0, since |-> 0, badSeq |-> FALSE, result |-> "none"]],
           now = 0, pending = {}, pollTimeout \in Nat, timeBound \in Nat
    PROVE  TxInv
<1>1. inv \in [Invokes \cup Reads -> Invocation]
  BY DEF Invocation, Results
<1>2. ASSUME NEW c \in Invokes PROVE InTime(inv[c])
  BY DEF InTime
<1> QED
  BY <1>1, <1>2 DEF TxInv

LEMMA SimulateKeepsInv ==
    ASSUME TxInv, NEW c \in Reads, Simulate(c)
    PROVE  TxInv' /\ included' = included
<1>1. /\ inv[c] \in Invocation /\ inv[c].attempt \in Nat /\ inv[c].pc # "done"
      /\ pending' = pending /\ included' = included /\ now' = now
      /\ pollTimeout' = pollTimeout /\ c \notin Invokes
  BY TxAssumption DEF TxInv, Invocation, Simulate, ledgerVars, configVars
<1>2. PICK n \in Nat : n = inv[c].attempt + 1
  BY <1>1
<1>3. \/ \E told \in {"ok", "error"} :
           inv' = [inv EXCEPT ![c].pc = "done", ![c].result = told]
      \/ inv' = [inv EXCEPT ![c].attempt = n]
  BY <1>2 DEF Simulate, Throws
<1>4. inv' \in [Invokes \cup Reads -> Invocation]
  BY <1>1, <1>3 DEF TxInv, Invocation, Results
<1>5. \A d \in Invokes : inv'[d] = inv[d]
  BY <1>1, <1>3 DEF TxInv
<1> QED
  BY <1>1, <1>4, <1>5, OthersKeepInv

LEMMA TxStep == TxInv /\ [TxNext]_txVars => TxInv'
<1> SUFFICES ASSUME TxInv, [TxNext]_txVars PROVE TxInv'
  OBVIOUS
<1>1. ASSUME NEW c \in Invokes \cup Reads, Begin(c) PROVE TxInv'
  <2>1. inv[c] \in Invocation
    BY DEF TxInv
  <2>2. PICK to \in {"simulate", "allocate"} : to = IF c \in Reads THEN "simulate" ELSE "allocate"
    OBVIOUS
  <2>3. PICK new : new = [inv[c] EXCEPT !.pc = to]
    OBVIOUS
  <2>4. /\ new \in Invocation /\ new.result = inv[c].result /\ new.pc \notin {"poll", "done"}
        /\ new.until = inv[c].until /\ new.until \in Nat
    BY <2>1, <2>3 DEF Invocation
  <2>5. /\ inv' = [inv EXCEPT ![c] = new] /\ pending' = pending /\ inv[c].pc = "idle"
        /\ now' = now /\ pollTimeout' = pollTimeout
    BY <1>1, <2>2, <2>3 DEF Begin, ledgerVars, configVars
  <2>6. CASE c \in Invokes
    <3>1. InTime(inv[c])
      BY <2>6 DEF TxInv
    <3>2. InTime(new)
      BY <2>4, <2>5, <3>1 DEF InTime
    <3>3. pending' \subseteq Submission
      BY <2>5 DEF TxInv
    <3>4. inv[c].until <= new.until
      BY <2>4
    <3>5. \A tx \in pending' : tx \in pending \/ (tx.c = c /\ tx.until = inv[c].until)
      BY <2>5
    <3> QED
      BY <2>4, <2>5, <2>6, <3>2, <3>3, <3>4, <3>5, InvocationMoves
  <2>7. CASE c \notin Invokes
    <3>1. inv' \in [Invokes \cup Reads -> Invocation] /\ \A d \in Invokes : inv'[d] = inv[d]
      BY <2>4, <2>5, <2>7 DEF TxInv
    <3> QED
      BY <2>5, <3>1, OthersKeepInv
  <2> QED
    BY <2>6, <2>7
<1>2. ASSUME NEW c \in Invokes,
             \/ AllocateSequence(c) \/ PrepareAndSign(c) \/ SendAccepted(c)
             \/ SendRefused(c) \/ SendRejected(c) \/ SendFails(c)
             \/ PollFinds(c) \/ PollFails(c) \/ PollNotFound(c)
      PROVE  TxInv'
  BY <1>2, InvokeKeepsInv
<1>3. ASSUME NEW c \in Reads, Simulate(c) PROVE TxInv'
  BY <1>3, SimulateKeepsInv
<1>4. CASE ProbeUnhealthy \/ Include \/ Drop \/ OtherWallet \/ UNCHANGED txVars
  <2>1. inv' = inv /\ pending' \subseteq pending /\ now' = now /\ pollTimeout' = pollTimeout
    BY <1>4 DEF ProbeUnhealthy, Include, Drop, OtherWallet, txVars, ledgerVars, configVars
  <2> QED
    BY <2>1, OthersKeepInv DEF TxInv
<1>5. CASE TimePasses
  <2>1. now' = now + 1 /\ UNCHANGED <<inv, pending, pollTimeout>>
    BY <1>5 DEF TimePasses, configVars
  <2>2. ASSUME NEW c \in Invokes PROVE InTime(inv[c])'
    <3>1. /\ inv[c].until \in Nat /\ inv[c].since \in Nat /\ now \in Nat /\ timeBound \in Nat
          /\ InTime(inv[c])
      BY TxAssumption DEF TxInv, Invocation
    <3> QED
      BY <2>1, <3>1 DEF InTime, PollsLonger
  <2> QED
    BY <2>1, <2>2 DEF TxInv
<1> QED
  BY <1>1, <1>2, <1>3, <1>4, <1>5 DEF TxNext

(***************************************************************************)
(* A call that invoke gave up on as timed out is never executed after      *)
(* (sdk/src/baseClient.ts: invoke), when the client polls for longer than  *)
(* a transaction is valid, for any number of calls, endpoints, retries and *)
(* failures, and whatever another wallet of the account does.              *)
(***************************************************************************)
THEOREM TimedOutStaysOut == TxSpec => TimeoutIsFinal
<1>1. TxInit => TxInv
  <2> SUFFICES ASSUME TxInit PROVE TxInv
    OBVIOUS
  <2>1. /\ inv = [c \in Invokes \cup Reads |-> [pc |-> "idle", attempt |-> 0, seq |-> 0,
                    until |-> 0, sent |-> 0, since |-> 0, badSeq |-> FALSE, result |-> "none"]]
        /\ now = 0 /\ pending = {} /\ pollTimeout \in Nat /\ timeBound \in Nat
    BY TxAssumption DEF TxInit, TxStart
  <2> QED
    BY <2>1, StartsInTime
<1>2. TxInv /\ [TxNext]_txVars =>
        [PollsLonger =>
           \A c \in Invokes :
              inv[c].result = "TransactionTimeoutError" => executed(c)' = executed(c)]_txVars
  <2> SUFFICES ASSUME TxInv, TxNext, PollsLonger, NEW c \in Invokes, GaveUp(c)
               PROVE  executed(c)' = executed(c)
    BY DEF GaveUp
  <2>1. CASE included' = included
    BY <2>1 DEF executed
  <2>2. CASE Include
    <3>1. PICK tx \in pending :
             /\ now <= tx.until
             /\ \E ok \in BOOLEAN :
                  included' = included \cup {[c |-> tx.c, seq |-> tx.seq, ok |-> ok]}
      BY <2>2 DEF Include
    <3>2. inv[c].until < now /\ inv[c].until \in Nat /\ now \in Nat
      BY DEF TxInv, InTime, GaveUp, Invocation
    <3>3. tx.until <= inv[tx.c].until /\ tx.until \in Nat
      BY DEF TxInv, Submission
    <3>4. tx.c # c
      BY <3>1, <3>2, <3>3
    <3> QED
      BY <3>1, <3>4 DEF executed
  <2> QED
    BY <2>1, <2>2, InvokeKeepsInv, SimulateKeepsInv
       DEF TxNext, Begin, ProbeUnhealthy, Drop, OtherWallet, TimePasses, ledgerVars
<1> QED
  BY <1>1, <1>2, TxStep, PTL DEF TxSpec, TimeoutIsFinal, PollsLonger

(***************************************************************************)
(* What is sent and included is of a call of invoke, and the pool keeps    *)
(* its counts of the endpoints it was given.                               *)
(***************************************************************************)
LedgerTyped ==
    /\ ledgerSeq \in Nat /\ external \in 0..MaxExternal /\ now \in 0..MaxNow
    /\ included \subseteq [c : Invokes, seq : Nat, ok : BOOLEAN]
PoolTyped ==
    /\ failures \in [Eps -> 0..maxConsecutiveFailures]
    /\ healthy \subseteq Eps /\ rpcFailures \in 0..MaxRpcFailures
AccountTyped ==
    sequences \in Nat /\ namesBadSeq \in BOOLEAN /\ pollTimeout \in PollTimeouts

\* No loop goes on after its last attempt.
AttemptsEnd ==
    /\ \A c \in Invokes : inv[c].attempt <= maxSeqRetries
    /\ \A c \in Reads : inv[c].attempt <= 2

LEMMA EndpointsArePositions ==
    /\ \A i \in DOMAIN Endpoints : Endpoints[i] \in Eps
    /\ Cardinality(InRotation) \in Nat
<1>1. Endpoints \in Seq(Eps) /\ Len(Endpoints) \in Nat /\ DOMAIN Endpoints = 1..Len(Endpoints)
  BY TxAssumption DEF Eps
<1>2. IsFiniteSet(DOMAIN Endpoints)
  BY <1>1, FS_Interval
<1>3. InRotation \subseteq DOMAIN Endpoints
  BY DEF InRotation
<1> QED
  BY <1>1, <1>2, <1>3, FS_Subset, FS_CardinalityType

LEMMA PoolKeepsTypes ==
    ASSUME PoolTyped, NEW k \in Nat, PoolAfter(k)
    PROVE  PoolTyped'
<1> DEFINE dead == {Endpoints[i] : i \in {j \in InRotation : Cardinality(Ahead(j)) < k}}
           served == {Endpoints[i] : i \in {j \in InRotation : Cardinality(Ahead(j)) = k}}
<1>1. served \subseteq Eps
  BY EndpointsArePositions DEF InRotation
<1>2. /\ rpcFailures + k <= MaxRpcFailures /\ rpcFailures' = rpcFailures + k
      /\ failures' = [e \in Eps |-> IF e \in served THEN 0
                        ELSE IF e \in dead /\ failures[e] < maxConsecutiveFailures
                        THEN failures[e] + 1 ELSE failures[e]]
      /\ healthy' = (healthy \cup served)
                      \ {e \in dead : failures[e] + 1 >= maxConsecutiveFailures}
  BY DEF PoolAfter
<1> HIDE DEF dead, served
<1>3. {maxConsecutiveFailures, MaxRpcFailures} \subseteq Nat
  BY TxAssumption
<1>4. rpcFailures' \in 0..MaxRpcFailures
  BY <1>2, <1>3 DEF PoolTyped
<1>5. healthy' \subseteq Eps
  BY <1>1, <1>2 DEF PoolTyped
<1>6. ASSUME NEW e \in Eps PROVE failures'[e] \in 0..maxConsecutiveFailures
  <2>1. failures[e] \in 0..maxConsecutiveFailures /\ maxConsecutiveFailures \in Nat
    BY <1>3 DEF PoolTyped
  <2>2. PICK n \in Nat : n = failures[e] + 1
    BY <2>1
  <2>3. failures' = [d \in Eps |-> IF d \in served THEN 0
                        ELSE IF d \in dead /\ failures[d] < maxConsecutiveFailures
                        THEN failures[d] + 1 ELSE failures[d]]
    BY <1>2
  <2>4. \/ failures'[e] \in {0, failures[e]}
        \/ failures'[e] = n /\ failures[e] < maxConsecutiveFailures
    <3>1. failures'[e] = IF e \in served THEN 0
                         ELSE IF e \in dead /\ failures[e] < maxConsecutiveFailures
                         THEN n ELSE failures[e]
      BY <2>2, <2>3
    <3>2. CASE e \in served
      BY <3>1, <3>2
    <3>3. CASE e \notin served /\ e \in dead /\ failures[e] < maxConsecutiveFailures
      <4>1. failures'[e] = n
        BY <3>1, <3>3
      <4> QED
        BY <3>3, <4>1
    <3>4. CASE e \notin served /\ ~(e \in dead /\ failures[e] < maxConsecutiveFailures)
      <4>1. failures'[e] = failures[e]
        BY <3>1, <3>4
      <4> QED
        BY <4>1
    <3> QED
      BY <3>2, <3>3, <3>4
  <2> QED
    BY <2>1, <2>2, <2>4
<1>7. failures' \in [Eps -> 0..maxConsecutiveFailures]
  BY <1>2, <1>6
<1> QED
  BY <1>4, <1>5, <1>7 DEF PoolTyped

LEMMA PoolStaysTyped ==
    ASSUME PoolTyped, RpcAnswers \/ RpcThrows \/ UNCHANGED poolVars
    PROVE  PoolTyped'
<1>1. CASE RpcAnswers
  <2>1. PICK k \in 0..(Cardinality(InRotation) - 1) : PoolAfter(k)
    BY <1>1 DEF RpcAnswers
  <2>2. k \in Nat
    BY <2>1, EndpointsArePositions
  <2> QED
    BY <2>1, <2>2, PoolKeepsTypes
<1>2. CASE RpcThrows
  BY <1>2, PoolKeepsTypes, EndpointsArePositions DEF RpcThrows
<1>3. CASE UNCHANGED poolVars
  BY <1>3 DEF poolVars, PoolTyped
<1> QED
  BY <1>1, <1>2, <1>3

LEMMA CallsMoveThePool ==
    ASSUME PoolTyped, AccountTyped, NEW c \in Invokes,
           \/ AllocateSequence(c) \/ PrepareAndSign(c) \/ SendAccepted(c)
           \/ SendRefused(c) \/ SendRejected(c) \/ SendFails(c)
           \/ PollFinds(c) \/ PollFails(c) \/ PollNotFound(c)
    PROVE  PoolTyped' /\ AccountTyped'
<1>1. namesBadSeq' = namesBadSeq /\ pollTimeout' = pollTimeout
  BY DEF AllocateSequence, PrepareAndSign, SendAccepted, SendRefused, SendRejected,
         SendFails, PollFinds, PollFails, PollNotFound, configVars
<1>2. RpcAnswers \/ RpcThrows \/ UNCHANGED poolVars
  BY DEF AllocateSequence, NextSequence, PrepareAndSign, SendAccepted, SendRefused,
         SendRejected, SendFails, PollFinds, PollFails, PollNotFound
<1>3. sequences' \in Nat
  <2>1. CASE AllocateSequence(c)
    <3>1. PICK top : top = ledgerSeq + 1 + 2 * Cardinality(Invokes) * (maxSeqRetries + 1)
      OBVIOUS
    <3>2. sequences' = sequences \/ \E seq \in 1..top : sequences' = seq
      BY <2>1, <3>1 DEF AllocateSequence
    <3> QED
      BY <3>2 DEF AccountTyped
  <2>2. CASE ~AllocateSequence(c)
    <3>1. sequences' \in {sequences, NoSeq}
      BY <2>2 DEF PrepareAndSign, SendAccepted, SendRefused, SendRejected, SendFails,
                  PollFinds, PollFails, PollNotFound, ResyncAndRetry
    <3> QED
      BY <3>1 DEF AccountTyped, NoSeq
  <2> QED
    BY <2>1, <2>2
<1> QED
  BY <1>1, <1>2, <1>3, PoolStaysTyped DEF AccountTyped

LEMMA CallsLeaveTheLedger ==
    ASSUME LedgerTyped, NEW c \in Invokes,
           \/ AllocateSequence(c) \/ PrepareAndSign(c) \/ SendAccepted(c)
           \/ SendRefused(c) \/ SendRejected(c) \/ SendFails(c)
           \/ PollFinds(c) \/ PollFails(c) \/ PollNotFound(c)
    PROVE  LedgerTyped'
<1>1. UNCHANGED <<ledgerSeq, now, included, external>>
  BY DEF AllocateSequence, PrepareAndSign, SendAccepted, SendRefused, SendRejected,
         SendFails, PollFinds, PollFails, PollNotFound, ledgerVars
<1> QED
  BY <1>1 DEF LedgerTyped

\* A call's attempt is the one it was, or one more while there is one left.
LEMMA CallsCountOn ==
    ASSUME TxInv, AttemptsEnd, NEW c \in Invokes,
           \/ AllocateSequence(c) \/ PrepareAndSign(c) \/ SendAccepted(c)
           \/ SendRefused(c) \/ SendRejected(c) \/ SendFails(c)
           \/ PollFinds(c) \/ PollFails(c) \/ PollNotFound(c)
    PROVE  AttemptsEnd'
<1>1. inv[c] \in Invocation /\ inv[c].attempt \in Nat /\ inv[c].attempt <= maxSeqRetries
      /\ maxSeqRetries \in Nat
  BY TxAssumption DEF TxInv, Invocation, AttemptsEnd
<1>2. \A d \in (Invokes \cup Reads) \ {c} : inv'[d] = inv[d]
  BY DEF TxInv, AllocateSequence, PrepareAndSign, SendAccepted, SendRefused, SendRejected,
         SendFails, PollFinds, PollFails, PollNotFound, ResyncAndRetry, Throws
<1>3. PICK n \in Nat : n = inv[c].attempt + 1
  BY <1>1
<1>4. inv \in [Invokes \cup Reads -> Invocation]
  BY DEF TxInv
<1>5. ASSUME Throws(c) PROVE inv'[c].attempt = inv[c].attempt
  BY <1>1, <1>4, <1>5 DEF Throws, Invocation
<1>6. ASSUME NEW seq, NEW n1,
             inv' = [inv EXCEPT ![c].pc = "prepare", ![c].seq = seq, ![c].until = n1]
      PROVE  inv'[c].attempt = inv[c].attempt
  BY <1>1, <1>4, <1>6 DEF Invocation
<1>7. ASSUME NEW seq, NEW n1,
             inv' = [inv EXCEPT ![c].pc = "poll", ![c].sent = seq, ![c].since = n1]
      PROVE  inv'[c].attempt = inv[c].attempt
  BY <1>1, <1>4, <1>7 DEF Invocation
<1>8. ASSUME inv' = [inv EXCEPT ![c].pc = "send"] PROVE inv'[c].attempt = inv[c].attempt
  BY <1>1, <1>4, <1>8 DEF Invocation
<1>9. ASSUME NEW told, inv' = [inv EXCEPT ![c].pc = "done", ![c].result = told]
      PROVE  inv'[c].attempt = inv[c].attempt
  BY <1>1, <1>4, <1>9 DEF Invocation
<1>10. ASSUME inv' = [inv EXCEPT ![c].pc = "done", ![c].result = "error", ![c].badSeq = TRUE]
       PROVE  inv'[c].attempt = inv[c].attempt
  BY <1>1, <1>4, <1>10 DEF Invocation
<1>11. ASSUME \/ inv' = [inv EXCEPT ![c].pc = "allocate", ![c].attempt = n]
              \/ inv' = [inv EXCEPT ![c].pc = "allocate", ![c].attempt = n, ![c].badSeq = TRUE]
       PROVE  inv'[c].attempt = n
  BY <1>1, <1>4, <1>11 DEF Invocation
<1>12. \/ inv'[c].attempt = inv[c].attempt
       \/ inv'[c].attempt = n /\ inv[c].attempt # maxSeqRetries
  <2>1. CASE ResyncAndRetry(c)
    <3>1. CASE inv[c].attempt = maxSeqRetries
      BY <1>5, <2>1, <3>1 DEF ResyncAndRetry
    <3>2. CASE inv[c].attempt # maxSeqRetries
      <4>1. inv' = [inv EXCEPT ![c].pc = "allocate", ![c].attempt = n]
        BY <1>3, <2>1, <3>2 DEF ResyncAndRetry
      <4> QED
        BY <1>11, <3>2, <4>1
    <3> QED
      BY <3>1, <3>2
  <2>2. CASE AllocateSequence(c)
    <3>1. \/ Throws(c)
          \/ \E seq, n1 :
               inv' = [inv EXCEPT ![c].pc = "prepare", ![c].seq = seq, ![c].until = n1]
      BY <2>2 DEF AllocateSequence
    <3> QED
      BY <1>5, <1>6, <3>1
  <2>3. CASE SendRefused(c)
    <3>1. CASE inv[c].attempt < maxSeqRetries /\ namesBadSeq
      <4>1. inv' = [inv EXCEPT ![c].pc = "allocate", ![c].attempt = n, ![c].badSeq = TRUE]
        BY <1>3, <2>3, <3>1 DEF SendRefused
      <4>2. inv[c].attempt # maxSeqRetries
        BY <1>1, <3>1
      <4> QED
        BY <1>11, <4>1, <4>2
    <3>2. CASE ~(inv[c].attempt < maxSeqRetries /\ namesBadSeq)
      <4>1. inv' = [inv EXCEPT ![c].pc = "done", ![c].result = "error", ![c].badSeq = TRUE]
        BY <2>3, <3>2 DEF SendRefused
      <4> QED
        BY <1>10, <4>1
    <3> QED
      BY <3>1, <3>2
  <2>4. CASE PrepareAndSign(c)
    <3>1. Throws(c) \/ inv' = [inv EXCEPT ![c].pc = "send"]
      BY <2>4 DEF PrepareAndSign
    <3> QED
      BY <1>5, <1>8, <3>1
  <2>5. CASE SendAccepted(c)
    BY <1>7, <2>5 DEF SendAccepted
  <2>6. CASE PollFinds(c) \/ PollNotFound(c)
    <3>1. \/ Throws(c) \/ inv' = inv
          \/ \E told : inv' = [inv EXCEPT ![c].pc = "done", ![c].result = told]
      BY <2>6 DEF PollFinds, PollNotFound
    <3> QED
      BY <1>5, <1>9, <3>1
  <2> QED
    BY <1>5, <2>1, <2>2, <2>3, <2>4, <2>5, <2>6 DEF SendRejected, SendFails, PollFails
<1>13. inv'[c].attempt <= maxSeqRetries
  BY <1>1, <1>3, <1>12
<1>14. c \notin Reads
  BY TxAssumption
<1> QED
  BY <1>2, <1>13, <1>14 DEF AttemptsEnd

LEMMA ReadsCountOn ==
    ASSUME TxInv, AttemptsEnd, NEW c \in Reads, Simulate(c)
    PROVE  AttemptsEnd'
<1>1. inv[c] \in Invocation /\ inv[c].attempt \in Nat /\ inv[c].attempt <= 2 /\ c \notin Invokes
  BY TxAssumption DEF TxInv, Invocation, AttemptsEnd
<1>2. \A d \in (Invokes \cup Reads) \ {c} : inv'[d] = inv[d]
  BY DEF TxInv, Simulate, Throws
<1>3. PICK n \in Nat : n = inv[c].attempt + 1
  BY <1>1
<1>4. \/ inv'[c].attempt = inv[c].attempt
      \/ inv'[c].attempt = n /\ inv[c].attempt # 2
  <2>1. inv \in [Invokes \cup Reads -> Invocation]
    BY DEF TxInv
  <2>2. \/ \E told : inv' = [inv EXCEPT ![c].pc = "done", ![c].result = told]
        \/ inv[c].attempt # 2 /\ inv' = [inv EXCEPT ![c].attempt = n]
    BY <1>3 DEF Simulate, Throws
  <2>3. ASSUME NEW told, inv' = [inv EXCEPT ![c].pc = "done", ![c].result = told]
        PROVE  inv'[c].attempt = inv[c].attempt
    BY <1>1, <2>1, <2>3 DEF Invocation
  <2>4. ASSUME inv' = [inv EXCEPT ![c].attempt = n] PROVE inv'[c].attempt = n
    BY <1>1, <2>1, <2>4 DEF Invocation
  <2> QED
    BY <2>2, <2>3, <2>4
<1>5. inv'[c].attempt <= 2
  BY <1>1, <1>3, <1>4
<1> QED
  BY <1>1, <1>2, <1>5 DEF AttemptsEnd

TxTyped == LedgerTyped /\ PoolTyped /\ AccountTyped /\ AttemptsEnd

LEMMA TxKeepsTypes == TxInv /\ TxTyped /\ [TxNext]_txVars => TxTyped'
<1> SUFFICES ASSUME TxInv, TxTyped, [TxNext]_txVars PROVE TxTyped'
  OBVIOUS
<1>1. ASSUME NEW c \in Invokes \cup Reads, Begin(c) PROVE TxTyped'
  <2>1. LedgerTyped' /\ PoolTyped' /\ AccountTyped'
    BY <1>1 DEF Begin, ledgerVars, poolVars, configVars, TxTyped, LedgerTyped, PoolTyped,
                AccountTyped
  <2>2. \A d \in Invokes \cup Reads : inv'[d].attempt = inv[d].attempt
    BY <1>1 DEF Begin, TxInv, Invocation
  <2>3. AttemptsEnd'
    BY <2>2 DEF TxTyped, AttemptsEnd
  <2> QED
    BY <2>1, <2>3 DEF TxTyped
<1>2. ASSUME NEW c \in Invokes,
             \/ AllocateSequence(c) \/ PrepareAndSign(c) \/ SendAccepted(c)
             \/ SendRefused(c) \/ SendRejected(c) \/ SendFails(c)
             \/ PollFinds(c) \/ PollFails(c) \/ PollNotFound(c)
      PROVE  TxTyped'
  BY <1>2, CallsMoveThePool, CallsLeaveTheLedger, CallsCountOn DEF TxTyped
<1>3. ASSUME NEW c \in Reads, Simulate(c) PROVE TxTyped'
  <2>1. LedgerTyped' /\ AccountTyped'
    BY <1>3 DEF Simulate, ledgerVars, configVars, TxTyped, LedgerTyped, AccountTyped
  <2>2. PoolTyped'
    BY <1>3, PoolStaysTyped DEF Simulate, TxTyped
  <2> QED
    BY <1>3, <2>1, <2>2, ReadsCountOn DEF TxTyped
<1>4. CASE ProbeUnhealthy
  <2>1. LedgerTyped' /\ AccountTyped' /\ AttemptsEnd'
    BY <1>4 DEF ProbeUnhealthy, ledgerVars, configVars, TxTyped, LedgerTyped, AccountTyped,
                AttemptsEnd
  <2>2. PICK probed \in SUBSET (Eps \ healthy) :
            /\ healthy' = healthy \cup probed
            /\ failures' = [e \in Eps |-> IF e \in probed THEN 0 ELSE failures[e]]
    BY <1>4 DEF ProbeUnhealthy
  <2>3. 0 \in 0..maxConsecutiveFailures /\ rpcFailures' = rpcFailures
    BY <1>4, TxAssumption DEF ProbeUnhealthy
  <2>4. PoolTyped'
    BY <2>2, <2>3 DEF TxTyped, PoolTyped
  <2> QED
    BY <2>1, <2>4 DEF TxTyped
<1>5. CASE Include
  <2>1. PoolTyped' /\ AccountTyped' /\ AttemptsEnd'
    BY <1>5 DEF Include, poolVars, configVars, TxTyped, PoolTyped, AccountTyped, AttemptsEnd
  <2>2. PICK tx \in pending : /\ pending' = pending \ {tx}
                              /\ \E ok \in BOOLEAN :
                                   included' = included \cup
                                                 {[c |-> tx.c, seq |-> tx.seq, ok |-> ok]}
    BY <1>5 DEF Include
  <2>3. PICK ok \in BOOLEAN :
            included' = included \cup {[c |-> tx.c, seq |-> tx.seq, ok |-> ok]}
    BY <2>2
  <2>4. tx.c \in Invokes /\ tx.seq \in Nat
    BY DEF TxInv, Submission
  <2>5. included' \subseteq [c : Invokes, seq : Nat, ok : BOOLEAN]
    BY <2>3, <2>4 DEF TxTyped, LedgerTyped
  <2>6. ledgerSeq' \in Nat /\ external' = external /\ now' = now
    BY <1>5 DEF Include, TxTyped, LedgerTyped
  <2>7. LedgerTyped'
    BY <2>2, <2>5, <2>6 DEF TxTyped, LedgerTyped
  <2> QED
    BY <2>1, <2>7 DEF TxTyped
<1>6. CASE Drop
  BY <1>6 DEF Drop, poolVars, configVars, TxTyped, LedgerTyped, PoolTyped, AccountTyped,
              AttemptsEnd
<1>7. CASE OtherWallet
  <2>1. PoolTyped' /\ AccountTyped' /\ AttemptsEnd'
    BY <1>7 DEF OtherWallet, poolVars, configVars, TxTyped, PoolTyped, AccountTyped, AttemptsEnd
  <2>2. external' \in 0..MaxExternal /\ ledgerSeq' \in Nat
    BY <1>7, TxAssumption DEF OtherWallet, TxTyped, LedgerTyped
  <2>3. LedgerTyped'
    BY <1>7, <2>2 DEF OtherWallet, TxTyped, LedgerTyped
  <2> QED
    BY <2>1, <2>3 DEF TxTyped
<1>8. CASE TimePasses
  <2>1. now' \in 0..MaxNow
    BY <1>8, TxAssumption DEF TimePasses, TxTyped, LedgerTyped
  <2> QED
    BY <1>8, <2>1
       DEF TimePasses, poolVars, configVars, TxTyped, LedgerTyped, PoolTyped, AccountTyped,
           AttemptsEnd
<1>9. CASE UNCHANGED txVars
  BY <1>9 DEF txVars, ledgerVars, poolVars, configVars, TxTyped, LedgerTyped, PoolTyped,
              AccountTyped, AttemptsEnd
<1> QED
  BY <1>1, <1>2, <1>3, <1>4, <1>5, <1>6, <1>7, <1>8, <1>9 DEF TxNext

LEMMA TxStaysTyped == TxSpec => []TxTypeOK
<1>1. TxInit => TxInv /\ TxTyped
  <2> SUFFICES ASSUME TxInit PROVE TxInv /\ TxTyped
    OBVIOUS
  <2>1. /\ inv = [c \in Invokes \cup Reads |-> [pc |-> "idle", attempt |-> 0, seq |-> 0,
                    until |-> 0, sent |-> 0, since |-> 0, badSeq |-> FALSE, result |-> "none"]]
        /\ now = 0 /\ pending = {} /\ pollTimeout \in Nat /\ timeBound \in Nat
    BY TxAssumption DEF TxInit, TxStart
  <2>2. TxInv
    BY <2>1, StartsInTime
  <2>3. AttemptsEnd
    BY <2>1, TxAssumption DEF AttemptsEnd
  <2>4. LedgerTyped
    BY TxAssumption DEF TxInit, TxStart, LedgerTyped
  <2>5. PoolTyped
    <3>1. failures = [e \in Eps |-> 0] /\ healthy = Eps /\ rpcFailures = 0
      BY DEF TxInit, TxStart
    <3>2. 0 \in 0..maxConsecutiveFailures /\ 0 \in 0..MaxRpcFailures
      BY TxAssumption
    <3> QED
      BY <3>1, <3>2 DEF PoolTyped
  <2>6. AccountTyped
    BY DEF TxInit, TxStart, AccountTyped, NoSeq
  <2> QED
    BY <2>2, <2>3, <2>4, <2>5, <2>6 DEF TxTyped
<1>2. TxInv /\ TxTyped => TxTypeOK
  <2> SUFFICES ASSUME TxInv, TxTyped PROVE TxTypeOK
    OBVIOUS
  <2>1. inv \in [Invokes \cup Reads -> CallState]
    <3> SUFFICES ASSUME NEW c \in Invokes \cup Reads PROVE inv[c] \in CallState
      BY DEF TxInv
    <3>1. inv[c] \in Invocation /\ inv[c].attempt \in Nat
      BY DEF TxInv, Invocation
    <3>2. inv[c].attempt \in 0..(maxSeqRetries + 2)
      BY <3>1, TxAssumption DEF TxTyped, AttemptsEnd
    <3> QED
      BY <3>1, <3>2 DEF Invocation, CallState
  <2> QED
    BY <2>1 DEF TxTyped, LedgerTyped, PoolTyped, AccountTyped, TxInv, Submission, TxTypeOK
<1> QED
  BY <1>1, <1>2, TxStep, TxKeepsTypes, PTL DEF TxSpec

----------------------------------------------------------------------------
(* The dashboard's page: its stream and its lists. *)

(***************************************************************************)
(* The page starts on a route with an interval that the select offers, and *)
(* only ever takes another of those, or the one of live data.              *)
(***************************************************************************)
PageStarts ==
    \E has \in BOOLEAN, seconds \in Intervals, opened \in Routes :
        StreamPageStart(has, seconds, opened)
PageSpec == PageStarts /\ [][StreamPageNext]_pageVars

(***************************************************************************)
(* The interval a live stream put aside is put aside only while it lives,  *)
(* a retry runs only while there is none, a mark stands for a retry, and a *)
(* page that is seen and online polls or is about to.                      *)
(***************************************************************************)
PageInv ==
    /\ {streams, retryTimer, armed, pollTimer} \subseteq BOOLEAN
    /\ retryTimer => armed
    /\ fallback # unset => source = "live"
    /\ armed <=> streams /\ source = "none"
    /\ ~streams => source = "none"
    /\ {online, hidden} \subseteq BOOLEAN /\ checks \in Nat
    /\ online /\ ~hidden /\ interval # 0 => Polled

LEMMA PageStep == PageInv /\ [StreamPageNext]_pageVars => PageInv'
<1> SUFFICES ASSUME PageInv, [StreamPageNext]_pageVars PROVE PageInv'
  OBVIOUS
<1> USE DEF PageInv, sse, timers, view, network, Happens, StartPolling, Polled
<1>1. CASE RetryFires
  BY <1>1 DEF RetryFires
<1>2. CASE StreamOpens
  BY <1>2 DEF StreamOpens
<1>3. CASE StreamFails
  <2>1. /\ source # "none" /\ source' = "none" /\ fallback' = unset
        /\ UNCHANGED <<streams, online, hidden, checks>>
        /\ UNCHANGED <<interval, pollTimer>> \/ pollTimer' = (interval' # 0)
    BY <1>3 DEF StreamFails
  <2>2. armed' = TRUE /\ retryTimer' \in BOOLEAN
    BY <1>3 DEF StreamFails
  <2> QED
    BY <2>1, <2>2
<1>4. CASE PagePollTick \/ Hide \/ Show
  <2>1. CASE PagePollTick
    BY <2>1 DEF PagePollTick
  <2>2. CASE Hide
    BY <2>2 DEF Hide
  <2>3. CASE Show
    BY <2>3 DEF Show
  <2> QED
    BY <1>4, <2>1, <2>2, <2>3
<1>5. CASE GoOffline \/ GoOnline \/ HealthChecked
  <2>1. CASE GoOffline
    BY <2>1 DEF GoOffline
  <2>2. CASE GoOnline
    BY <2>2 DEF GoOnline
  <2>3. CASE HealthChecked
    BY <2>3 DEF HealthChecked
  <2> QED
    BY <1>5, <2>1, <2>2, <2>3
<1>6. ASSUME NEW yes \in BOOLEAN, PollEnds(yes) \/ StreamEvent(yes) PROVE PageInv'
  BY <1>6 DEF PollEnds, StreamEvent
<1>7. ASSUME NEW ms \in Intervals, SetRefreshInterval(ms) PROVE PageInv'
  BY <1>7 DEF SetRefreshInterval
<1>8. ASSUME NEW target \in Routes, Navigate(target) \/ RenderEnds(target) PROVE PageInv'
  BY <1>8 DEF Navigate, RenderEnds
<1>9. CASE UNCHANGED pageVars
  BY <1>9 DEF pageVars
<1> QED
  BY <1>1, <1>2, <1>3, <1>4, <1>5, <1>6, <1>7, <1>8, <1>9 DEF StreamPageNext

LEMMA PageIsNeverDeaf == PageSpec => []NeverDeaf
<1>1. PageStarts => PageInv
  <2> SUFFICES ASSUME NEW has \in BOOLEAN, NEW seconds \in Intervals, NEW opened \in Routes,
                      StreamPageStart(has, seconds, opened)
               PROVE  PageInv
    BY DEF PageStarts
  <2> QED
    BY DEF StreamPageStart, PageInv, Polled
<1>2. PageInv => NeverDeaf
  BY DEF PageInv, NeverDeaf, Deaf
<1> QED
  BY <1>1, <1>2, PageStep, PTL DEF PageSpec

ListsSpec == ListsInit /\ [][ListsNext]_listVars

(***************************************************************************)
(* A mark is set with a load and taken away by the first answer, so that   *)
(* the skeletons are inductive as they stand.                              *)
(***************************************************************************)
LEMMA ListsStep == SkeletonsEnd /\ [ListsNext]_listVars => SkeletonsEnd'
<1> SUFFICES ASSUME SkeletonsEnd, [ListsNext]_listVars PROVE SkeletonsEnd'
  OBVIOUS
<1> USE DEF SkeletonsEnd, jobListVars, agentListVars
<1>1. ASSUME UNCHANGED agentListVars,
             \/ RenderJobs \/ ReloadJobs \/ SearchJobs
             \/ \E tab \in JobTabs : FilterJobs(tab)
             \/ \E next \in 1..JobPages : ChangeJobPage(next)
             \/ \E load \in jobLoads : JobsLoaded(load)
      PROVE  SkeletonsEnd'
  <2>1. \/ \E load : jobLoads' = jobLoads \cup {load}
        \/ UNCHANGED <<jobLoads, jobsLoading>>
        \/ jobsLoading' = FALSE
    <3>1. ASSUME NEW filter, NEW of, LoadJobs(filter, of)
          PROVE  \E load : jobLoads' = jobLoads \cup {load}
      BY <3>1 DEF LoadJobs
    <3>2. CASE RenderJobs \/ ReloadJobs
      BY <3>1, <3>2 DEF RenderJobs, ReloadJobs
    <3>3. CASE SearchJobs
      BY <3>3 DEF SearchJobs
    <3>4. ASSUME NEW tab \in JobTabs, FilterJobs(tab)
          PROVE  \E load : jobLoads' = jobLoads \cup {load}
      BY <3>1, <3>4 DEF FilterJobs
    <3>5. ASSUME NEW next \in 1..JobPages, ChangeJobPage(next)
          PROVE  \E load : jobLoads' = jobLoads \cup {load}
      BY <3>1, <3>5 DEF ChangeJobPage
    <3>6. ASSUME NEW load \in jobLoads, JobsLoaded(load) PROVE jobsLoading' = FALSE
      BY <3>6 DEF JobsLoaded
    <3> QED
      BY <1>1, <3>2, <3>3, <3>4, <3>5, <3>6
  <2> QED
    BY <1>1, <2>1
<1>2. ASSUME UNCHANGED jobListVars,
             \/ ReloadAgents \/ BadgesLoaded
             \/ \E page_ \in 1..JobPages : ChangeAgentPage(page_)
             \/ \E page_ \in agentLoads : AgentsLoaded(page_)
      PROVE  SkeletonsEnd'
  BY <1>2 DEF ReloadAgents, BadgesLoaded, ChangeAgentPage, AgentsLoaded, LoadAgents
<1>3. CASE UNCHANGED <<jobListVars, agentListVars>>
  BY <1>3
<1> QED
  BY <1>1, <1>2, <1>3 DEF ListsNext, listVars

LEMMA ListsEndTheirSkeletons == ListsSpec => []SkeletonsEnd
<1>1. ListsInit => SkeletonsEnd
  BY DEF ListsInit, SkeletonsEnd
<1> QED
  BY <1>1, ListsStep, PTL DEF ListsSpec

SseTyped ==
    /\ source \in {"none", "connecting", "live"} /\ {streams, retryTimer, armed} \subseteq BOOLEAN
    /\ retryDelay \in 1 .. maxRetryDelay
TimersTyped ==
    /\ interval \in Intervals \cup {LiveInterval}
    /\ fallback \in Intervals \cup {LiveInterval, unset} /\ pollTimer \in BOOLEAN
ViewTyped ==
    /\ polling \in Routes \cup {"no"} /\ {online, hidden} \subseteq BOOLEAN /\ checks \in Nat
    /\ route \in Routes /\ page \in Routes /\ rendering \subseteq Routes

LEMMA PageStartsTyped == PageStarts => SseTyped /\ TimersTyped /\ ViewTyped
<1> SUFFICES ASSUME NEW has \in BOOLEAN, NEW seconds \in Intervals, NEW opened \in Routes,
                    StreamPageStart(has, seconds, opened)
             PROVE  SseTyped /\ TimersTyped /\ ViewTyped
  BY DEF PageStarts
<1>1. SseTyped
  <2>1. /\ source \in {"none", "connecting"} /\ streams \in BOOLEAN
        /\ retryTimer = FALSE /\ armed = FALSE
    BY DEF StreamPageStart
  <2>2. retryDelay = 1 /\ 1 \in 1..maxRetryDelay
    BY PageAssumption DEF StreamPageStart
  <2> QED
    BY <2>1, <2>2 DEF SseTyped
<1>2. TimersTyped
  BY DEF StreamPageStart, TimersTyped
<1>3. ViewTyped
  BY DEF StreamPageStart, ViewTyped
<1> QED
  BY <1>1, <1>2, <1>3

LEMMA SseKeepsTypes == SseTyped /\ [StreamPageNext]_pageVars => SseTyped'
<1> SUFFICES ASSUME SseTyped, [StreamPageNext]_pageVars PROVE SseTyped'
  OBVIOUS
<1> USE PageAssumption DEF SseTyped, sse
<1>1. CASE RetryFires
  BY <1>1 DEF RetryFires
<1>2. CASE StreamOpens
  BY <1>2 DEF StreamOpens
<1>3. CASE StreamFails
  <2>1. /\ source' = "none" /\ streams' = streams
        /\ \/ UNCHANGED <<retryTimer, armed>>
           \/ retryTimer' = TRUE /\ armed' = TRUE
    BY <1>3 DEF StreamFails
  <2>2. \/ retryDelay' = retryDelay
        \/ retryDelay' = IF 2 * retryDelay > maxRetryDelay THEN maxRetryDelay ELSE 2 * retryDelay
    <3>1. CASE retryTimer
      BY <1>3, <3>1 DEF StreamFails
    <3>2. CASE ~retryTimer
      BY <1>3, <3>2 DEF StreamFails
    <3> QED
      BY <3>1, <3>2
  <2>3. retryDelay' \in 1..maxRetryDelay
    <3>1. retryDelay \in 1..maxRetryDelay /\ maxRetryDelay \in Nat \ {0}
      BY PageAssumption DEF SseTyped
    <3> QED
      BY <2>2, <3>1
  <2>4. {streams', retryTimer', armed'} \subseteq BOOLEAN
    BY <2>1
  <2> QED
    BY <2>1, <2>3, <2>4
<1>4. CASE PagePollTick \/ Hide \/ Show \/ GoOffline \/ GoOnline \/ HealthChecked
  BY <1>4 DEF PagePollTick, Hide, Show, GoOffline, GoOnline, HealthChecked
<1>5. ASSUME NEW yes \in BOOLEAN, PollEnds(yes) \/ StreamEvent(yes) PROVE SseTyped'
  BY <1>5 DEF PollEnds, StreamEvent
<1>6. ASSUME NEW ms \in Intervals, SetRefreshInterval(ms) PROVE SseTyped'
  BY <1>6 DEF SetRefreshInterval
<1>7. ASSUME NEW target \in Routes, Navigate(target) \/ RenderEnds(target) PROVE SseTyped'
  BY <1>7 DEF Navigate, RenderEnds
<1>8. CASE UNCHANGED pageVars
  BY <1>8 DEF pageVars
<1> QED
  BY <1>1, <1>2, <1>3, <1>4, <1>5, <1>6, <1>7, <1>8 DEF StreamPageNext

LEMMA TimersKeepTypes == TimersTyped /\ [StreamPageNext]_pageVars => TimersTyped'
<1> SUFFICES ASSUME TimersTyped, [StreamPageNext]_pageVars PROVE TimersTyped'
  OBVIOUS
<1> USE PageAssumption DEF TimersTyped, timers, StartPolling
<1>1. CASE RetryFires
  BY <1>1 DEF RetryFires
<1>2. CASE StreamOpens
  BY <1>2 DEF StreamOpens
<1>3. CASE StreamFails
  BY <1>3 DEF StreamFails
<1>4. CASE PagePollTick \/ Hide \/ Show \/ GoOffline \/ GoOnline \/ HealthChecked
  BY <1>4 DEF PagePollTick, Hide, Show, GoOffline, GoOnline, HealthChecked
<1>5. ASSUME NEW yes \in BOOLEAN, PollEnds(yes) \/ StreamEvent(yes) PROVE TimersTyped'
  BY <1>5 DEF PollEnds, StreamEvent
<1>6. ASSUME NEW ms \in Intervals, SetRefreshInterval(ms) PROVE TimersTyped'
  BY <1>6 DEF SetRefreshInterval
<1>7. ASSUME NEW target \in Routes, Navigate(target) \/ RenderEnds(target) PROVE TimersTyped'
  BY <1>7 DEF Navigate, RenderEnds
<1>8. CASE UNCHANGED pageVars
  BY <1>8 DEF pageVars
<1> QED
  BY <1>1, <1>2, <1>3, <1>4, <1>5, <1>6, <1>7, <1>8 DEF StreamPageNext

LEMMA ViewKeepsTypes == ViewTyped /\ [StreamPageNext]_pageVars => ViewTyped'
<1> SUFFICES ASSUME ViewTyped, [StreamPageNext]_pageVars PROVE ViewTyped'
  OBVIOUS
<1> USE PageAssumption DEF ViewTyped, view, network, Poll
<1>1. CASE RetryFires \/ StreamOpens \/ StreamFails
  BY <1>1 DEF RetryFires, StreamOpens, StreamFails
<1>2. CASE PagePollTick \/ Hide \/ Show
  <2>1. CASE PagePollTick
    BY <2>1 DEF PagePollTick
  <2>2. CASE Hide
    BY <2>2 DEF Hide
  <2>3. CASE Show
    BY <2>3 DEF Show
  <2> QED
    BY <1>2, <2>1, <2>2, <2>3
<1>3. CASE GoOffline \/ GoOnline \/ HealthChecked
  <2>1. CASE GoOffline
    BY <2>1 DEF GoOffline
  <2>2. CASE GoOnline
    BY <2>2 DEF GoOnline
  <2>3. CASE HealthChecked
    BY <2>3 DEF HealthChecked
  <2> QED
    BY <1>3, <2>1, <2>2, <2>3
<1>4. ASSUME NEW yes \in BOOLEAN, PollEnds(yes) PROVE ViewTyped'
  BY <1>4 DEF PollEnds
<1>5. ASSUME NEW yes \in BOOLEAN, StreamEvent(yes) PROVE ViewTyped'
  BY <1>5 DEF StreamEvent
<1>6. ASSUME NEW ms \in Intervals, SetRefreshInterval(ms) PROVE ViewTyped'
  BY <1>6 DEF SetRefreshInterval
<1>7. ASSUME NEW target \in Routes, Navigate(target) \/ RenderEnds(target) PROVE ViewTyped'
  BY <1>7 DEF Navigate, RenderEnds
<1>8. CASE UNCHANGED pageVars
  BY <1>8 DEF pageVars
<1> QED
  BY <1>1, <1>2, <1>3, <1>4, <1>5, <1>6, <1>7, <1>8 DEF StreamPageNext

LEMMA StreamPageStaysTyped == PageSpec => []StreamPageTypeOK
<1>1. SseTyped /\ TimersTyped /\ ViewTyped => StreamPageTypeOK
  BY DEF SseTyped, TimersTyped, ViewTyped, StreamPageTypeOK
<1> QED
  BY <1>1, PageStartsTyped, SseKeepsTypes, TimersKeepTypes, ViewKeepsTypes, PTL
     DEF PageSpec

(***************************************************************************)
(* Finitely many loads are in flight, each of a page there is; the answers *)
(* bring the page that was asked for.                                      *)
(***************************************************************************)
LoadsInv ==
    /\ IsFiniteSet(jobLoads) /\ Cardinality(jobLoads) <= MaxLoads
    /\ \A load \in jobLoads : load.page \in 1..JobPages
JobListInv ==
    /\ jobTab \in JobTabs /\ {jobSearched, jobHasNext, jobsLoading} \subseteq BOOLEAN
    /\ jobPage \in 1..JobPages /\ jobList.page \in 0..JobPages
AgentListInv ==
    /\ {agentsLoading, badged} \subseteq BOOLEAN /\ agentLoads \subseteq 1..JobPages
    /\ agentPage \in 1..JobPages /\ agentList \in 0..JobPages
TimelineInv == timeline \in {"closed", "loading", "events", "error"}
ListsInv == LoadsInv /\ JobListInv /\ AgentListInv /\ TimelineInv

LEMMA ListsStartTyped == ListsInit => ListsInv
<1> SUFFICES ASSUME ListsInit PROVE ListsInv
  OBVIOUS
<1> USE ListsAssumption
<1>1. jobLoads = {} /\ IsFiniteSet(jobLoads) /\ Cardinality(jobLoads) = 0
  BY FS_EmptySet DEF ListsInit
<1>2. LoadsInv
  BY <1>1 DEF LoadsInv
<1>3. 1 \in 1..JobPages /\ 0 \in 0..JobPages
  OBVIOUS
<1>4. JobListInv
  <2>1. jobSearched = FALSE /\ jobHasNext = FALSE /\ jobsLoading = FALSE
    BY DEF ListsInit
  <2>2. jobTab \in JobTabs /\ jobPage = 1 /\ jobList.page = 0
    BY DEF ListsInit, Nothing
  <2> QED
    BY <1>3, <2>1, <2>2 DEF JobListInv
<1>5. AgentListInv /\ TimelineInv
  <2>1. agentsLoading = FALSE /\ badged = FALSE
    BY DEF ListsInit
  <2>2. agentPage = 1 /\ agentList = 0 /\ agentLoads = {} /\ timeline = "closed"
    BY DEF ListsInit
  <2> QED
    BY <1>3, <2>1, <2>2 DEF AgentListInv, TimelineInv
<1> QED
  BY <1>2, <1>4, <1>5 DEF ListsInv

\* A load that is made joins those in flight.
LEMMA LoadsAreMade ==
  ASSUME LoadsInv, NEW filter, NEW of \in 1..JobPages, LoadJobs(filter, of)
  PROVE  LoadsInv' /\ jobsLoading' = TRUE
<1> DEFINE load == [filter |-> filter, page |-> of]
<1>1. jobLoads' = jobLoads \cup {load} /\ Cardinality(jobLoads) < MaxLoads /\ jobsLoading' = TRUE
  BY DEF LoadJobs
<1>2. load.page = of
  OBVIOUS
<1>3. \A other \in jobLoads' : other.page \in 1..JobPages
  BY <1>1, <1>2 DEF LoadsInv
<1> HIDE DEF load
<1>4. IsFiniteSet(jobLoads') /\ Cardinality(jobLoads) \in Nat
      /\ Cardinality(jobLoads') \in {Cardinality(jobLoads), Cardinality(jobLoads) + 1}
  BY <1>1, FS_AddElement, FS_CardinalityType DEF LoadsInv
<1>5. Cardinality(jobLoads') <= MaxLoads
  BY <1>1, <1>4, ListsAssumption
<1> QED
  BY <1>1, <1>3, <1>4, <1>5 DEF LoadsInv

LEMMA ListsKeepTypes == ListsInv /\ [ListsNext]_listVars => ListsInv'
<1> SUFFICES ASSUME ListsInv, [ListsNext]_listVars PROVE ListsInv'
  OBVIOUS
<1> USE DEF jobListVars, agentListVars
<1>1. jobPage \in 1..JobPages /\ jobTab \in JobTabs /\ LoadsInv /\ 1 \in 1..JobPages
  BY ListsAssumption DEF ListsInv, JobListInv
<1>2. ASSUME UNCHANGED <<agentListVars, timeline>>,
             \/ RenderJobs \/ ReloadJobs \/ SearchJobs
             \/ \E tab \in JobTabs : FilterJobs(tab)
             \/ \E next \in 1..JobPages : ChangeJobPage(next)
             \/ \E load \in jobLoads : JobsLoaded(load)
      PROVE  ListsInv'
  <2>1. AgentListInv' /\ TimelineInv'
    BY <1>2 DEF ListsInv, AgentListInv, TimelineInv
  <2>2. CASE RenderJobs
    <3>1. LoadsInv' /\ jobsLoading' = TRUE
      BY <1>1, <2>2, LoadsAreMade DEF RenderJobs
    <3>2. JobListInv'
      BY <2>2, <3>1 DEF RenderJobs, ListsInv, JobListInv
    <3> QED
      BY <2>1, <3>1, <3>2 DEF ListsInv
  <2>3. CASE ReloadJobs
    <3>1. LoadsInv' /\ jobsLoading' = TRUE
      BY <1>1, <2>3, LoadsAreMade DEF ReloadJobs
    <3>2. JobListInv'
      BY <2>3, <3>1 DEF ReloadJobs, ListsInv, JobListInv
    <3> QED
      BY <2>1, <3>1, <3>2 DEF ListsInv
  <2>4. CASE SearchJobs
    <3>1. UNCHANGED <<jobTab, jobPage, jobHasNext, jobList, jobLoads, jobsLoading>>
          /\ jobSearched' \in BOOLEAN
      BY <2>4 DEF SearchJobs
    <3> QED
      BY <2>1, <3>1 DEF ListsInv, LoadsInv, JobListInv
  <2>5. ASSUME NEW tab \in JobTabs, FilterJobs(tab) PROVE ListsInv'
    <3>1. LoadsInv' /\ jobsLoading' = TRUE
      BY <1>1, <2>5, LoadsAreMade DEF FilterJobs
    <3>2. jobTab' = tab /\ jobSearched' = FALSE /\ jobPage' = 1
          /\ UNCHANGED <<jobHasNext, jobList>>
      BY <2>5 DEF FilterJobs
    <3>3. JobListInv'
      BY <1>1, <3>1, <3>2 DEF ListsInv, JobListInv
    <3> QED
      BY <2>1, <3>1, <3>3 DEF ListsInv
  <2>6. ASSUME NEW next \in 1..JobPages, ChangeJobPage(next) PROVE ListsInv'
    <3>1. LoadsInv' /\ jobsLoading' = TRUE
      BY <1>1, <2>6, LoadsAreMade DEF ChangeJobPage
    <3>2. JobListInv'
      BY <2>6, <3>1 DEF ChangeJobPage, ListsInv, JobListInv
    <3> QED
      BY <2>1, <3>1, <3>2 DEF ListsInv
  <2>7. ASSUME NEW load \in jobLoads, JobsLoaded(load) PROVE ListsInv'
    <3>1. jobLoads' = jobLoads \ {load} /\ jobsLoading' = FALSE
          /\ UNCHANGED <<jobTab, jobSearched>>
      BY <2>7 DEF JobsLoaded
    <3>2. IsFiniteSet(jobLoads) /\ Cardinality(jobLoads) \in Nat
          /\ Cardinality(jobLoads) <= MaxLoads
      BY <1>1, FS_CardinalityType DEF LoadsInv
    <3>3. IsFiniteSet(jobLoads') /\ Cardinality(jobLoads') = Cardinality(jobLoads) - 1
      BY <3>1, <3>2, FS_RemoveElement
    <3>4. Cardinality(jobLoads') <= MaxLoads
      BY <3>2, <3>3, ListsAssumption
    <3>5. LoadsInv'
      BY <1>1, <3>1, <3>3, <3>4 DEF LoadsInv
    <3>6. load.page \in 1..JobPages
      BY <1>1 DEF LoadsInv
    <3>7. \/ jobList' = load /\ jobPage' = load.page /\ jobHasNext' = (load.page < JobPages)
          \/ UNCHANGED <<jobList, jobPage, jobHasNext>>
      BY <2>7 DEF JobsLoaded, JobsAnswered, JobsFailed
    <3>8. CASE jobList' = load /\ jobPage' = load.page /\ jobHasNext' = (load.page < JobPages)
      <4>1. jobHasNext' \in BOOLEAN
        BY <3>8
      <4>2. jobPage' \in 1..JobPages /\ jobList'.page \in 0..JobPages
        BY <3>6, <3>8, ListsAssumption
      <4>3. JobListInv'
        BY <3>1, <4>1, <4>2 DEF ListsInv, JobListInv
      <4> QED
        BY <2>1, <3>5, <4>3 DEF ListsInv
    <3>9. CASE UNCHANGED <<jobList, jobPage, jobHasNext>>
      <4>1. JobListInv'
        BY <3>1, <3>9 DEF ListsInv, JobListInv
      <4> QED
        BY <2>1, <3>5, <4>1 DEF ListsInv
    <3> QED
      BY <3>7, <3>8, <3>9
  <2> QED
    BY <1>2, <2>2, <2>3, <2>4, <2>5, <2>6, <2>7
<1>3. ASSUME (ToggleJob \/ TimelineLoaded) /\ UNCHANGED <<jobListVars, agentListVars>>
      PROVE  ListsInv'
  <2>1. TimelineInv'
    BY <1>3 DEF ToggleJob, TimelineLoaded, TimelineInv
  <2>2. LoadsInv' /\ JobListInv' /\ AgentListInv'
    BY <1>3 DEF ListsInv, LoadsInv, JobListInv, AgentListInv
  <2> QED
    BY <2>1, <2>2 DEF ListsInv
<1>4. ASSUME UNCHANGED <<jobListVars, timeline>>,
             \/ ReloadAgents \/ BadgesLoaded
             \/ \E of \in 1..JobPages : ChangeAgentPage(of)
             \/ \E of \in agentLoads : AgentsLoaded(of)
      PROVE  ListsInv'
  <2>1. LoadsInv' /\ JobListInv' /\ TimelineInv'
    BY <1>4 DEF ListsInv, LoadsInv, JobListInv, TimelineInv
  <2>2. AgentListInv
    BY DEF ListsInv
  <2>3. ASSUME NEW of \in 1..JobPages, LoadAgents(of) PROVE AgentListInv'
    BY <2>2, <2>3 DEF LoadAgents, AgentListInv
  <2>4. ASSUME ReloadAgents PROVE AgentListInv'
    <3>1. LoadAgents(agentPage) \/ LoadAgents(1)
      BY <2>4 DEF ReloadAgents
    <3>2. agentPage \in 1..JobPages
      BY <2>2 DEF AgentListInv
    <3>3. CASE LoadAgents(agentPage)
      BY <2>3, <3>2, <3>3
    <3>4. CASE LoadAgents(1)
      BY <1>1, <2>3, <3>4
    <3> QED
      BY <3>1, <3>3, <3>4
  <2>5. ASSUME BadgesLoaded PROVE AgentListInv'
    <3>1. badged' = TRUE /\ UNCHANGED <<agentPage, agentList, agentLoads, agentsLoading>>
      BY <2>5 DEF BadgesLoaded
    <3>2. {agentsLoading', badged'} \subseteq BOOLEAN
      BY <2>2, <3>1 DEF AgentListInv
    <3>3. /\ agentLoads' \subseteq 1..JobPages
          /\ agentPage' \in 1..JobPages /\ agentList' \in 0..JobPages
      BY <2>2, <3>1 DEF AgentListInv
    <3> QED
      BY <3>2, <3>3 DEF AgentListInv
  <2>6. ASSUME NEW of \in 1..JobPages, ChangeAgentPage(of) PROVE AgentListInv'
    BY <2>3, <2>6 DEF ChangeAgentPage
  <2>7. ASSUME NEW of \in agentLoads, AgentsLoaded(of) PROVE AgentListInv'
    <3>1. agentLoads' \subseteq 1..JobPages /\ agentsLoading' = FALSE /\ of \in 1..JobPages
      BY <2>2, <2>7 DEF AgentsLoaded, AgentListInv
    <3>2. \/ agentList' = of /\ agentPage' = of /\ badged' = FALSE
          \/ UNCHANGED <<agentList, agentPage, badged>>
      BY <2>7 DEF AgentsLoaded
    <3>3. of \in 0..JobPages
      BY <3>1, ListsAssumption
    <3>4. agentPage' \in 1..JobPages /\ agentList' \in 0..JobPages
      BY <2>2, <3>1, <3>2, <3>3 DEF AgentListInv
    <3>5. {agentsLoading', badged'} \subseteq BOOLEAN
      BY <2>2, <3>1, <3>2 DEF AgentListInv
    <3> QED
      BY <3>1, <3>4, <3>5 DEF AgentListInv
  <2> QED
    BY <1>4, <2>1, <2>4, <2>5, <2>6, <2>7 DEF ListsInv
<1>5. CASE UNCHANGED listVars
  BY <1>5 DEF listVars, ListsInv, LoadsInv, JobListInv, AgentListInv, TimelineInv
<1> QED
  BY <1>2, <1>3, <1>4, <1>5 DEF ListsNext

LEMMA ListsStayTyped == ListsSpec => []ListsTypeOK
<1>1. ListsInv => ListsTypeOK
  BY DEF ListsInv, LoadsInv, JobListInv, AgentListInv, TimelineInv, ListsTypeOK
<1> QED
  BY <1>1, ListsStartTyped, ListsKeepTypes, PTL DEF ListsSpec

----------------------------------------------------------------------------
(* The hooks that show a job or an agent. *)

JobHookSpec == HookInit /\ [][HookNext]_hookVars

Shown == [mounted : BOOLEAN, id : BOOLEAN, job : 0..MaxVersion, loading : BOOLEAN,
          error : BOOLEAN, isStale : BOOLEAN]

HookInv ==
    /\ polls \in BOOLEAN /\ inFlight \in 0..MaxReads
    /\ fetches \subseteq Fetch /\ hook \in [Mounts -> Shown]
    /\ jobCache \in 0..MaxVersion /\ isFresh \in BOOLEAN /\ version \in Versions
    /\ reads \in [1..MaxReads -> 0..MaxVersion]
    /\ LoadingEnds

LEMMA NoJobIsShown == NoJob \in 0..MaxVersion /\ Versions \subseteq 0..MaxVersion
BY JobHookAssumption DEF NoJob, Versions

LEMMA HookStarts == HookInit => HookInv
<1> SUFFICES ASSUME HookInit PROVE HookInv
  OBVIOUS
<1>1. 0 \in 0..MaxReads
  BY JobHookAssumption
<1>2. Unmounted \in Shown /\ ~Unmounted.loading
  BY NoJobIsShown DEF Unmounted, Shown
<1>3. hook \in [Mounts -> Shown] /\ LoadingEnds
  BY <1>2 DEF HookInit, HookStart, LoadingEnds
<1>4. PICK polling_ \in BOOLEAN : HookStart(polling_)
  BY DEF HookInit
<1>5. /\ reads \in [1..MaxReads -> 0..MaxVersion] /\ jobCache \in 0..MaxVersion
      /\ version \in Versions
  BY <1>4, NoJobIsShown, JobHookAssumption DEF HookStart, Versions
<1>6. polls \in BOOLEAN /\ isFresh \in BOOLEAN /\ inFlight \in 0..MaxReads /\ fetches = {}
  BY <1>1, <1>4 DEF HookStart, NoRead
<1> QED
  BY <1>3, <1>5, <1>6 DEF HookInv

(***************************************************************************)
(* The fetches a component gives up are still fetches, its own are no      *)
(* longer current, and those of the others are as they were.               *)
(***************************************************************************)
LEMMA OthersGoOn ==
    ASSUME NEW m \in Mounts, fetches \subseteq Fetch
    PROVE  /\ GivenUp(m) \subseteq Fetch
           /\ \A f \in fetches : f.m # m => f \in GivenUp(m)
<1>1. ASSUME NEW f \in Fetch PROVE [f EXCEPT !.current = FALSE] \in Fetch
  BY DEF Fetch
<1> QED
  BY <1>1 DEF GivenUp

(***************************************************************************)
(* fetchJob leaves a component without its spinner, or with a fetch of its *)
(* own that is not given up.                                               *)
(***************************************************************************)
LEMMA FetchIsAwaited ==
    ASSUME HookInv, NEW m \in Mounts, NEW h \in Shown, NEW force \in BOOLEAN,
           NEW background \in BOOLEAN, FetchJob(m, h, force, background)
    PROVE  \E shown \in Shown :
             /\ hook' = [hook EXCEPT ![m] = shown]
             /\ \/ ~shown.loading /\ fetches' = GivenUp(m)
                \/ \E f \in Fetch : /\ fetches' = GivenUp(m) \cup {f}
                                    /\ f.m = m /\ f.current /\ f.background = background
<1> DEFINE cached == jobCache # NoJob
           fromCache == cached /\ ~force /\ ~background
           h1 == CASE fromCache -> [h EXCEPT !.job = jobCache, !.loading = FALSE,
                                             !.isStale = ~isFresh,
                                             !.error = IF isFresh THEN FALSE ELSE h.error]
                   [] ~cached /\ ~background -> [h EXCEPT !.loading = TRUE,
                                                          !.isStale = FALSE]
                   [] OTHER -> h
           h2 == IF ~cached \/ force THEN [h1 EXCEPT !.error = FALSE] ELSE h1
           new == [m |-> m, at |-> "client", read |-> NoRead, force |-> force,
                   background |-> background, current |-> TRUE]
<1>1. h1 \in Shown /\ (fromCache => ~h1.loading)
  BY DEF HookInv, Shown
<1>2. h2 \in Shown
  <2> HIDE DEF h1
  <2> QED
    BY <1>1 DEF Shown
<1>3. new \in Fetch /\ new.m = m /\ new.current /\ new.background = background
  BY JobHookAssumption DEF Fetch, NoRead
<1>4. CASE ~h.id
  <2> DEFINE none == [h EXCEPT !.job = NoJob, !.loading = FALSE, !.error = FALSE,
                               !.isStale = FALSE]
  <2>1. none \in Shown /\ ~none.loading
    BY NoJobIsShown DEF Shown
  <2>2. hook' = [hook EXCEPT ![m] = none] /\ fetches' = GivenUp(m)
    BY <1>4 DEF FetchJob
  <2> HIDE DEF none
  <2> QED
    BY <2>1, <2>2
<1>5. CASE h.id /\ fromCache /\ isFresh
  <2>1. hook' = [hook EXCEPT ![m] = h1] /\ fetches' = GivenUp(m)
    BY <1>5 DEF FetchJob
  <2> HIDE DEF h1
  <2> QED
    BY <1>1, <1>5, <2>1
<1>6. CASE h.id /\ ~(fromCache /\ isFresh)
  <2>1. hook' = [hook EXCEPT ![m] = h2] /\ fetches' = GivenUp(m) \cup {new}
    BY <1>6 DEF FetchJob
  <2> HIDE DEF h2, new
  <2> QED
    BY <1>2, <1>3, <2>1
<1> HIDE DEF h1, h2, new
<1> QED
  BY <1>4, <1>5, <1>6 DEF Shown

LEMMA FetchKeepsInv ==
    ASSUME HookInv, NEW m \in Mounts, NEW h \in Shown, NEW force \in BOOLEAN,
           NEW background \in BOOLEAN, FetchJob(m, h, force, background),
           background => polls, UNCHANGED <<polls, version, jobCache, isFresh, inFlight, reads>>
    PROVE  HookInv'
<1>1. PICK shown \in Shown :
             /\ hook' = [hook EXCEPT ![m] = shown]
             /\ \/ ~shown.loading /\ fetches' = GivenUp(m)
                \/ \E f \in Fetch : /\ fetches' = GivenUp(m) \cup {f}
                                    /\ f.m = m /\ f.current /\ f.background = background
  BY FetchIsAwaited
<1>2. /\ GivenUp(m) \subseteq Fetch
      /\ \A f \in fetches : f.m # m => f \in GivenUp(m)
  BY OthersGoOn DEF HookInv
<1>3. GivenUp(m) \subseteq fetches' /\ fetches' \subseteq Fetch
  BY <1>1, <1>2
<1>4. ASSUME NEW n \in Mounts, ~polls, hook'[n].loading
      PROVE  \E f \in fetches' : f.m = n /\ f.current /\ ~f.background
  <2>1. CASE n = m
    BY <1>1, <1>4, <2>1 DEF HookInv
  <2>2. CASE n # m
    BY <1>1, <1>2, <1>3, <1>4, <2>2 DEF HookInv, LoadingEnds
  <2> QED
    BY <2>1, <2>2
<1> QED
  BY <1>1, <1>3, <1>4 DEF HookInv, LoadingEnds

LEMMA MountsKeepInv ==
    ASSUME HookInv, NEW m \in Mounts,
           \/ \E id \in BOOLEAN : Mount(m, id)
           \/ ChangeId(m) \/ Unmount(m) \/ Refetch(m) \/ PollTick(m)
    PROVE  HookInv'
<1>1. ASSUME NEW id \in BOOLEAN, Mount(m, id) PROVE HookInv'
  <2>1. [Unmounted EXCEPT !.mounted = TRUE, !.id = id, !.loading = id] \in Shown
    BY NoJobIsShown DEF Unmounted, Shown
  <2> QED
    BY <1>1, <2>1, FetchKeepsInv DEF Mount
<1>2. CASE ChangeId(m)
  <2>1. [hook[m] EXCEPT !.id = ~hook[m].id] \in Shown
    BY DEF HookInv, Shown
  <2> QED
    BY <1>2, <2>1, FetchKeepsInv DEF ChangeId
<1>3. CASE Refetch(m) \/ PollTick(m)
  <2>1. hook[m] \in Shown
    BY DEF HookInv
  <2> QED
    BY <1>3, <2>1, FetchKeepsInv DEF Refetch, PollTick
<1>4. CASE Unmount(m)
  <2>1. Unmounted \in Shown /\ ~Unmounted.loading
    BY NoJobIsShown DEF Unmounted, Shown
  <2>2. hook' = [hook EXCEPT ![m] = Unmounted] /\ fetches' = GivenUp(m)
    BY <1>4 DEF Unmount
  <2> QED
    BY <1>4, <2>1, <2>2, OthersGoOn DEF Unmount, HookInv, LoadingEnds
<1> QED
  BY <1>1, <1>2, <1>3, <1>4

LEMMA AskKeepsInv ==
    ASSUME HookInv, NEW f \in fetches, AskClient(f) PROVE HookInv'
<1>1. PICK i \in 0..MaxReads :
          /\ fetches' = (fetches \ {f}) \cup {[f EXCEPT !.at = "read", !.read = i]}
          /\ inFlight' \in {inFlight, i}
  <2>1. 1..MaxReads \subseteq 0..MaxReads
    BY JobHookAssumption
  <2>2. CASE fetches' = (fetches \ {f}) \cup {[f EXCEPT !.at = "read", !.read = inFlight]}
             /\ inFlight' = inFlight
    BY <2>2 DEF HookInv
  <2>3. ASSUME NEW i \in 1..MaxReads,
               fetches' = (fetches \ {f}) \cup {[f EXCEPT !.at = "read", !.read = i]},
               inFlight' = IF f.force THEN inFlight ELSE i
        PROVE  inFlight' \in {inFlight, i}
    BY <2>3
  <2> QED
    BY <2>1, <2>2, <2>3 DEF AskClient
<1>2. PICK asked : asked = [f EXCEPT !.at = "read", !.read = i]
  OBVIOUS
<1>3. /\ asked \in Fetch /\ asked.m = f.m /\ asked.current = f.current
      /\ asked.background = f.background
  BY <1>2 DEF HookInv, Fetch
<1>4. fetches' = (fetches \ {f}) \cup {asked}
  BY <1>1, <1>2
<1>5. UNCHANGED <<polls, version, jobCache, isFresh, hook>>
  BY DEF AskClient
<1>6. ASSUME NEW m \in Mounts, ~polls, hook[m].loading
      PROVE  \E g \in fetches' : g.m = m /\ g.current /\ ~g.background
  <2>1. PICK g \in fetches : g.m = m /\ g.current /\ ~g.background
    BY <1>6 DEF HookInv, LoadingEnds
  <2>2. CASE g = f
    BY <1>3, <1>4, <2>1, <2>2
  <2>3. CASE g # f
    BY <1>4, <2>1, <2>3
  <2> QED
    BY <2>2, <2>3
<1>7. fetches' \subseteq Fetch /\ inFlight' \in 0..MaxReads
  BY <1>1, <1>3, <1>4 DEF HookInv
<1>8. LoadingEnds'
  BY <1>5, <1>6 DEF LoadingEnds
<1>9. reads' \in [1..MaxReads -> 0..MaxVersion]
  BY NoJobIsShown DEF AskClient, HookInv
<1> QED
  BY <1>5, <1>7, <1>8, <1>9 DEF HookInv

(***************************************************************************)
(* Whoever still waits after a read has ended waits for another fetch.     *)
(***************************************************************************)
LEMMA FinishedIsShown ==
    ASSUME NEW h \in Shown, NEW fs
    PROVE  /\ Finished(h, fs) \in Shown
           /\ Finished(h, fs).loading => h.loading /\ \A f \in fs : f.background
BY DEF Finished, Shown

LEMMA ReadKeepsInv ==
    ASSUME HookInv, NEW i \in 1..MaxReads, ReadAnswers(i) \/ ReadFails(i)
    PROVE  HookInv'
<1>1. \E told \in [Mounts -> Shown] :
          /\ hook' = [m \in Mounts |-> IF Current(i, m) = {} THEN hook[m]
                                       ELSE Finished(told[m], Current(i, m))]
          /\ \A m \in Mounts : told[m].loading = hook[m].loading
  <2>1. CASE ReadAnswers(i)
    <3>1. PICK v \in reads[i]..version :
              hook' = [m \in Mounts |-> IF Current(i, m) = {} THEN hook[m]
                 ELSE Finished([hook[m] EXCEPT !.job = v, !.error = FALSE, !.isStale = FALSE],
                               Current(i, m))]
      BY <2>1 DEF ReadAnswers
    <3> DEFINE told == [m \in Mounts |->
                          [hook[m] EXCEPT !.job = v, !.error = FALSE, !.isStale = FALSE]]
    <3>2. v \in 0..MaxVersion
      BY JobHookAssumption DEF HookInv, Versions
    <3>3. ASSUME NEW h \in Shown
          PROVE  LET s == [h EXCEPT !.job = v, !.error = FALSE, !.isStale = FALSE]
                 IN  s \in Shown /\ s.loading = h.loading
      BY <3>2 DEF Shown
    <3>4. told \in [Mounts -> Shown] /\ \A m \in Mounts : told[m].loading = hook[m].loading
      BY <3>3 DEF HookInv
    <3> QED
      BY <3>1, <3>4, ZenonT(40)
  <2>2. CASE ReadFails(i)
    <3> DEFINE told == [m \in Mounts |-> IF jobCache # NoJob THEN hook[m]
                                         ELSE [hook[m] EXCEPT !.job = NoJob, !.error = TRUE]]
    <3>1. ASSUME NEW h \in Shown
          PROVE  LET s == [h EXCEPT !.job = NoJob, !.error = TRUE]
                 IN  s \in Shown /\ s.loading = h.loading
      BY NoJobIsShown DEF Shown
    <3>2. told \in [Mounts -> Shown] /\ \A m \in Mounts : told[m].loading = hook[m].loading
      BY <3>1 DEF HookInv
    <3>3. hook' = [m \in Mounts |-> IF Current(i, m) = {} THEN hook[m]
                                    ELSE Finished(told[m], Current(i, m))]
      BY <2>2 DEF ReadFails
    <3> QED
      BY <3>2, <3>3
  <2> QED
    BY <2>1, <2>2
<1>2. PICK told \in [Mounts -> Shown] :
          /\ hook' = [m \in Mounts |-> IF Current(i, m) = {} THEN hook[m]
                                       ELSE Finished(told[m], Current(i, m))]
          /\ \A m \in Mounts : told[m].loading = hook[m].loading
  BY <1>1
<1>3. hook' \in [Mounts -> Shown]
  <2>1. ASSUME NEW m \in Mounts PROVE Finished(told[m], Current(i, m)) \in Shown
    BY FinishedIsShown
  <2> QED
    BY <1>2, <2>1 DEF HookInv
<1>4. fetches' = fetches \ Waiting(i)
  BY DEF ReadAnswers, ReadFails, Ends
<1>5. ASSUME NEW m \in Mounts, ~polls, hook'[m].loading
      PROVE  \E f \in fetches' : f.m = m /\ f.current /\ ~f.background
  <2>1. /\ hook[m].loading
        /\ \A f \in Current(i, m) : f.background
    <3>1. CASE Current(i, m) = {}
      BY <1>2, <1>5, <3>1
    <3>2. CASE Current(i, m) # {}
      <4>1. Finished(told[m], Current(i, m)).loading
        BY <1>2, <1>5, <3>2
      <4> QED
        BY <1>2, <4>1, FinishedIsShown
    <3> QED
      BY <3>1, <3>2
  <2>2. PICK f \in fetches : f.m = m /\ f.current /\ ~f.background
    BY <1>5, <2>1 DEF HookInv, LoadingEnds
  <2>3. f \notin Waiting(i)
    BY <2>1, <2>2 DEF Current
  <2> QED
    BY <1>4, <2>2, <2>3
<1>6. jobCache' \in 0..MaxVersion /\ isFresh' \in BOOLEAN
  <2>1. CASE ReadAnswers(i)
    <3>1. PICK v \in reads[i]..version : jobCache' = v
      BY <2>1 DEF ReadAnswers
    <3>2. v \in 0..MaxVersion
      BY JobHookAssumption, SMTT(30) DEF HookInv, Versions
    <3>3. isFresh' = TRUE
      BY <2>1 DEF ReadAnswers
    <3> QED
      BY <3>1, <3>2, <3>3, SMTT(30)
  <2>2. CASE ReadFails(i)
    <3>1. UNCHANGED <<jobCache, isFresh>>
      BY <2>2 DEF ReadFails
    <3> QED
      BY <3>1 DEF HookInv
  <2> QED
    BY <2>1, <2>2
<1>7. inFlight' \in 0..MaxReads /\ reads' \in [1..MaxReads -> 0..MaxVersion]
  <2>1. Ends(i)
    BY DEF ReadAnswers, ReadFails
  <2>2. 0 \in 0..MaxReads
    BY JobHookAssumption
  <2> QED
    BY <2>1, <2>2, NoJobIsShown DEF Ends, HookInv, NoRead
<1>8. UNCHANGED <<polls, version>>
  BY DEF ReadAnswers, ReadFails
<1> QED
  BY <1>3, <1>4, <1>5, <1>6, <1>7, <1>8 DEF HookInv, LoadingEnds

LEMMA HookStep == HookInv /\ [HookNext]_hookVars => HookInv'
<1> SUFFICES ASSUME HookInv, [HookNext]_hookVars PROVE HookInv'
  OBVIOUS
<1>1. CASE Expire
  BY <1>1 DEF Expire, HookInv, LoadingEnds
<1>2. CASE LedgerMoves
  <2>1. version' \in Versions
    BY <1>2, JobHookAssumption DEF LedgerMoves, HookInv, Versions
  <2> QED
    BY <1>2, <2>1 DEF LedgerMoves, HookInv, LoadingEnds
<1>3. CASE ClearJobCache
  <2>1. 0 \in 0..MaxReads
    BY JobHookAssumption
  <2>2. LoadingEnds'
    BY <1>3 DEF ClearJobCache, HookInv, LoadingEnds
  <2> QED
    BY <1>3, <2>1, <2>2, NoJobIsShown DEF ClearJobCache, HookInv, NoRead
<1>4. CASE UNCHANGED hookVars
  BY <1>4 DEF hookVars, HookInv, LoadingEnds
<1> QED
  BY <1>1, <1>2, <1>3, <1>4, MountsKeepInv, AskKeepsInv, ReadKeepsInv DEF HookNext

LEMMA HookStaysTyped == JobHookSpec => []HookTypeOK
<1>1. HookInv => HookTypeOK
  BY DEF HookInv, HookTypeOK, Shown
<1> QED
  BY HookStarts, HookStep, <1>1, PTL DEF JobHookSpec

LEMMA SpinnersAreAnswered == JobHookSpec => []LoadingEnds
<1>1. HookInv => LoadingEnds
  BY DEF HookInv
<1> QED
  BY HookStarts, HookStep, <1>1, PTL DEF JobHookSpec

----------------------------------------------------------------------------
(* An upload, through one provider or through several. *)

StorageSpec == StorageInit /\ [][StorageNext]_storageVars

(***************************************************************************)
(* The provider that is asked to serve the content back was given it, and  *)
(* as many have failed as come before the one that is tried.               *)
(***************************************************************************)
UploadInv ==
    /\ skipVerification \in BOOLEAN /\ up \in Upload
    /\ up.pc = "verify" => Providers[up.i] \in pinned /\ ~skipVerification
    /\ up.pc \in {"create", "post", "verify"} => up.attempts = up.i - 1
    /\ UploadIsBacked

LEMMA ProvidersAreNamed == \A i \in 1..Len(Providers) : Providers[i] \in Named
BY StorageAssumption DEF Named

LEMMA StorageStarts == StorageInit => UploadInv
<1> SUFFICES ASSUME StorageInit PROVE UploadInv
  OBVIOUS
<1>1. PICK new : new = [pc |-> "create", i |-> 1, g |-> 0, attempts |-> 0, provider |-> "",
                        verified |-> FALSE]
  OBVIOUS
<1>2. 1 \in 1..Len(Providers) /\ 0 \in 0..Gateways /\ 0 \in 0..Len(Providers)
  BY StorageAssumption
<1>3. new \in Upload
  BY <1>1, <1>2 DEF Upload
<1>4. new.pc = "create" /\ new.attempts = 0 /\ new.i = 1
  BY <1>1
<1>5. up = new /\ skipVerification \in BOOLEAN
  BY <1>1 DEF StorageInit, StorageStart
<1> QED
  BY <1>3, <1>5, <1>4 DEF UploadInv, UploadIsBacked

LEMMA FailureKeepsInv ==
    ASSUME UploadInv, up.pc \in {"post", "verify"}, ProviderFails,
           UNCHANGED <<skipVerification, configured>>
    PROVE  UploadInv'
<1>1. up \in Upload /\ up.attempts = up.i - 1 /\ Len(Providers) \in Nat
  BY StorageAssumption DEF UploadInv
<1>2. up.i \in 1..Len(Providers)
  BY <1>1 DEF Upload
<1>3. CASE up.i < Len(Providers)
  <2>1. /\ up' \in Upload /\ up'.pc = "post" /\ up'.attempts = up'.i - 1
    <3>1. /\ up.i + 1 \in 1..Len(Providers) /\ up.attempts + 1 \in 0..Len(Providers)
          /\ 0 \in 0..Gateways /\ up.attempts + 1 = (up.i + 1) - 1
      BY <1>1, <1>3, <1>2, StorageAssumption
    <3>2. up' = [up EXCEPT !.pc = "post", !.i = up.i + 1, !.g = 0,
                           !.attempts = up.attempts + 1]
      BY <1>3 DEF ProviderFails
    <3> QED
      BY <1>1, <3>1, <3>2 DEF Upload
  <2> QED
    BY <2>1 DEF UploadInv, UploadIsBacked
<1>4. CASE ~(up.i < Len(Providers))
  <2>1. up' = [up EXCEPT !.pc = "StorageError", !.attempts = up.attempts + 1]
    BY <1>4 DEF ProviderFails
  <2>2. up.attempts + 1 = Len(Providers) /\ up.attempts + 1 \in 0..Len(Providers)
    BY <1>1, <1>4, <1>2
  <2>3. up' \in Upload /\ up'.pc = "StorageError" /\ up'.attempts = Len(Providers)
    BY <1>1, <2>1, <2>2 DEF Upload
  <2> QED
    BY <2>3 DEF UploadInv, UploadIsBacked
<1> QED
  BY <1>3, <1>4

LEMMA UploadStep == UploadInv /\ [StorageNext]_storageVars => UploadInv'
<1> SUFFICES ASSUME UploadInv, [StorageNext]_storageVars PROVE UploadInv'
  OBVIOUS
<1>1. CASE CreateProvider
  BY <1>1 DEF CreateProvider, PinataStorageProvider, ArweaveStorageProvider, UploadInv, Upload,
              UploadIsBacked
<1>2. CASE Posted
  <2>1. Providers[up.i] \in Named /\ Providers[up.i] \in pinned'
    BY <1>2, ProvidersAreNamed DEF Posted, UploadInv, Upload
  <2>2. CASE skipVerification
    <3>1. up' = [up EXCEPT !.pc = "returned", !.provider = Providers[up.i], !.verified = FALSE]
      BY <1>2, <2>2 DEF Posted, UploadReturns
    <3>2. /\ up' \in Upload /\ up'.pc = "returned" /\ up'.provider = Providers[up.i]
          /\ ~up'.verified
      BY <2>1, <3>1 DEF UploadInv, Upload
    <3> QED
      BY <1>2, <2>1, <2>2, <3>2 DEF Posted, UploadInv, UploadIsBacked
  <2>3. CASE ~skipVerification
    <3>1. up' = [up EXCEPT !.pc = "verify"]
      BY <1>2, <2>3 DEF Posted
    <3>2. /\ up' \in Upload /\ up'.pc = "verify" /\ up'.i = up.i
          /\ up'.attempts = up.attempts
      BY <3>1 DEF UploadInv, Upload
    <3>3. up.pc = "post" /\ skipVerification' = skipVerification
      BY <1>2 DEF Posted
    <3> QED
      BY <2>1, <2>3, <3>2, <3>3 DEF UploadInv, UploadIsBacked
  <2> QED
    BY <2>2, <2>3 DEF UploadInv
<1>3. CASE PostFails
  BY <1>3, FailureKeepsInv DEF PostFails
<1>4. CASE GatewayFails /\ up.g + 1 < Gateways
  <2>1. up' = [up EXCEPT !.g = up.g + 1] /\ up.pc = "verify"
    BY <1>4 DEF GatewayFails
  <2>2. up.g \in 0..Gateways
    BY DEF UploadInv, Upload
  <2>3. up.g + 1 \in 0..Gateways
    BY <1>4, <2>2, StorageAssumption
  <2>4. /\ up' \in Upload /\ up'.pc = "verify" /\ up'.i = up.i
        /\ up'.attempts = up.attempts
    BY <2>1, <2>3 DEF UploadInv, Upload
  <2> QED
    BY <1>4, <2>1, <2>4 DEF GatewayFails, UploadInv, UploadIsBacked
<1>5. CASE GatewayFails /\ ~(up.g + 1 < Gateways)
  BY <1>5, FailureKeepsInv DEF GatewayFails
<1>6. CASE GatewayServesContent
  BY <1>6, ProvidersAreNamed DEF GatewayServesContent, UploadReturns, UploadInv, Upload,
                                 UploadIsBacked
<1>7. CASE GatewayServesOther
  BY <1>7, FailureKeepsInv DEF GatewayServesOther
<1>8. CASE UNCHANGED storageVars
  BY <1>8 DEF storageVars, UploadInv, UploadIsBacked
<1> QED
  BY <1>1, <1>2, <1>3, <1>4, <1>5, <1>6, <1>7, <1>8 DEF StorageNext

LEMMA UploadsAreBacked == StorageSpec => []UploadIsBacked
<1>1. UploadInv => UploadIsBacked
  BY DEF UploadInv
<1> QED
  BY StorageStarts, UploadStep, <1>1, PTL DEF StorageSpec

LEMMA StorageStaysTyped == StorageSpec => []StorageTypeOK
<1>1. StorageInit => StorageTypeOK
  BY StorageStarts DEF StorageInit, StorageStart, UploadInv, StorageTypeOK
<1>2. ASSUME UploadInv, StorageTypeOK, [StorageNext]_storageVars, UploadInv'
      PROVE  StorageTypeOK'
  <2>1. Providers[up.i] \in Named
    BY <1>2, ProvidersAreNamed DEF UploadInv, Upload
  <2>2. skipVerification' \in BOOLEAN /\ up' \in Upload
    BY <1>2 DEF UploadInv
  <2> QED
    BY <1>2, <2>1, <2>2
       DEF StorageNext, CreateProvider, Posted, PostFails, GatewayFails, GatewayServesContent,
           GatewayServesOther, storageVars, StorageTypeOK
<1> QED
  BY <1>1, <1>2, StorageStarts, UploadStep, PTL DEF StorageSpec

----------------------------------------------------------------------------
(* The vouchers of a session of the SDK. *)

Voucher == [amount : Amounts, nonce : Amounts]
Sessions == [deposit : Amounts, amount : Amounts, nonce : Amounts]

LEMMA AmountsAre ==
    /\ 0 \in Amounts /\ Amounts \subseteq Nat /\ MaxBudget \in Nat
    /\ \A n \in Nat, a \in Amounts : n <= a => n \in Amounts
BY ClientsAssumption DEF Amounts

SessionStart == session = NoSession /\ vouchers = <<>> /\ channel = NoSession
SessionSpec == SessionStart /\ [][ChannelSession]_channelVars

(***************************************************************************)
(* The session is at its last voucher, and never ahead of the deposit the  *)
(* ledger holds, whatever voucher the channel was closed with.             *)
(***************************************************************************)
SessionInv ==
    /\ session \in Sessions /\ channel \in Sessions
    /\ vouchers \in Seq(Voucher)
    /\ session = NoSession => vouchers = <<>>
    /\ session # NoSession => session.deposit = channel.deposit
    /\ session.amount <= session.deposit /\ session.nonce <= session.amount
    /\ \A j \in DOMAIN vouchers : /\ vouchers[j].amount <= session.amount
                                  /\ vouchers[j].nonce <= session.nonce
    /\ VouchersSupersede

LEMMA SessionStep == SessionInv /\ [ChannelSession]_channelVars => SessionInv'
<1> SUFFICES ASSUME SessionInv, [ChannelSession]_channelVars PROVE SessionInv'
  OBVIOUS
<1>1. CASE OpenChannel
  <2>1. PICK deposit \in Amounts \ {0} :
            /\ channel' = [channel EXCEPT !.deposit = deposit]
            /\ session' \in {NoSession, [NoSession EXCEPT !.deposit = deposit]}
    BY <1>1 DEF OpenChannel
  <2>2. deposit \in Amounts /\ deposit \in Nat /\ 0 \in Amounts
    BY AmountsAre
  <2>3. vouchers' = <<>>
    BY <1>1 DEF OpenChannel, SessionInv
  <2> QED
    <3>1. session = NoSession /\ vouchers = <<>>
      BY <1>1 DEF OpenChannel, SessionInv
    <3>2. channel' \in Sessions /\ channel'.deposit = deposit
      BY <2>1, <2>2 DEF SessionInv, Sessions
    <3>3. CASE session' = NoSession
      BY <2>2, <2>3, <3>2, <3>3 DEF SessionInv, Sessions, NoSession, VouchersSupersede
    <3>4. CASE session' = [NoSession EXCEPT !.deposit = deposit]
      <4>1. /\ session' \in Sessions /\ session'.deposit = deposit
            /\ session'.amount = 0 /\ session'.nonce = 0
        BY <2>2, <3>4 DEF NoSession, Sessions
      <4> QED
        BY <2>2, <2>3, <3>2, <4>1 DEF SessionInv, VouchersSupersede
    <3> QED
      BY <2>1, <3>3, <3>4
<1>2. CASE CreateVoucher
  <2>1. PICK payment \in Amounts \ {0} :
            /\ session.amount + payment <= session.deposit
            /\ session' = [session EXCEPT !.amount = session.amount + payment,
                                          !.nonce = session.nonce + 1]
            /\ vouchers' = Append(vouchers, [amount |-> session.amount + payment,
                                             nonce |-> session.nonce + 1])
    BY <1>2 DEF CreateVoucher
  <2>2. payment \in Nat \ {0}
    BY AmountsAre
  <2>3. /\ session.amount \in Nat /\ session.nonce \in Nat /\ session.deposit \in Amounts
        /\ session.deposit \in Nat /\ session.nonce <= session.amount
    BY AmountsAre DEF SessionInv, Sessions
  <2>4. PICK new \in Voucher :
            /\ new.amount = session.amount + payment /\ new.nonce = session.nonce + 1
            /\ vouchers' = Append(vouchers, new)
    <3>1. session.amount + payment \in Amounts /\ session.nonce + 1 \in Amounts
      <4>1. /\ session.amount + payment \in Nat /\ session.nonce + 1 \in Nat
            /\ session.deposit \in Nat /\ session.nonce + 1 <= session.amount + payment
        BY <2>2, <2>3
      <4>2. session.nonce + 1 <= session.deposit
        BY <2>1, <2>2, <2>3, <4>1
      <4> QED
        BY <2>1, <2>3, <4>1, <4>2, AmountsAre
    <3>2. PICK new : new = [amount |-> session.amount + payment,
                            nonce |-> session.nonce + 1]
      OBVIOUS
    <3> QED
      BY <2>1, <3>1, <3>2 DEF Voucher
  <2>5. /\ session' \in Sessions /\ new.nonce <= new.amount
        /\ session'.deposit = session.deposit /\ session'.amount = new.amount
        /\ session'.nonce = new.nonce /\ session'.amount <= session.deposit
    <3>1. new.nonce <= new.amount
      BY <2>2, <2>3, <2>4
    <3>2. session' = [session EXCEPT !.amount = new.amount, !.nonce = new.nonce]
      BY <2>1, <2>4
    <3>3. new.amount \in Amounts /\ new.nonce \in Amounts
      BY <2>4 DEF Voucher
    <3> QED
      BY <2>1, <2>4, <3>1, <3>2, <3>3 DEF SessionInv, Sessions
  <2>6. channel' = channel /\ session.deposit = channel.deposit
    BY <1>2 DEF CreateVoucher, SessionInv
  <2>7. /\ vouchers' \in Seq(Voucher)
        /\ DOMAIN vouchers' = 1..(Len(vouchers) + 1) /\ DOMAIN vouchers = 1..Len(vouchers)
        /\ vouchers'[Len(vouchers) + 1] = new
        /\ \A j \in 1..Len(vouchers) : vouchers'[j] = vouchers[j]
        /\ Len(vouchers) \in Nat
    BY <2>4 DEF SessionInv
  <2>8. \A j \in 1..Len(vouchers) : /\ vouchers[j].amount \in Nat
                                     /\ vouchers[j].nonce \in Nat
                                     /\ vouchers[j].amount <= session.amount
                                     /\ vouchers[j].nonce <= session.nonce
    <3>1. \A j \in 1..Len(vouchers) : vouchers[j] \in Voucher
      BY <2>7 DEF SessionInv
    <3>2. \A j \in 1..Len(vouchers) : /\ vouchers[j].amount <= session.amount
                                      /\ vouchers[j].nonce <= session.nonce
      BY <2>7 DEF SessionInv
    <3> QED
      BY <3>1, <3>2, AmountsAre DEF Voucher
  <2>9. \A j \in 1..Len(vouchers) : /\ vouchers[j].amount < new.amount
                                    /\ vouchers[j].nonce < new.nonce
    BY <2>2, <2>4, <2>3, <2>8
  <2>10. VouchersSupersede'
    <3> SUFFICES ASSUME NEW j \in 1..(Len(vouchers) + 1)
                 PROVE  /\ vouchers'[j].amount <= channel'.deposit
                        /\ \A i \in 1..(j - 1) : /\ vouchers'[i].amount < vouchers'[j].amount
                                                 /\ vouchers'[i].nonce < vouchers'[j].nonce
      BY <2>7 DEF VouchersSupersede
    <3>1. CASE j = Len(vouchers) + 1
      BY <2>5, <2>6, <2>7, <2>9, <3>1
    <3>2. CASE j \in 1..Len(vouchers)
      <4>1. /\ vouchers[j].amount <= channel.deposit
            /\ \A i \in 1..(j - 1) : /\ vouchers[i].amount < vouchers[j].amount
                                     /\ vouchers[i].nonce < vouchers[j].nonce
        BY <2>7, <3>2 DEF SessionInv, VouchersSupersede
      <4>2. 1..(j - 1) \subseteq 1..Len(vouchers)
        BY <2>7, <3>2
      <4> QED
        BY <2>6, <2>7, <3>2, <4>1, <4>2
    <3> QED
      BY <2>7, <3>1, <3>2
  <2>11. \A j \in DOMAIN vouchers' : /\ vouchers'[j].amount <= session'.amount
                                    /\ vouchers'[j].nonce <= session'.nonce
    <3> SUFFICES ASSUME NEW j \in 1..(Len(vouchers) + 1)
                 PROVE  /\ vouchers'[j].amount <= new.amount
                        /\ vouchers'[j].nonce <= new.nonce
      BY <2>5, <2>7
    <3>3. new.amount \in Nat /\ new.nonce \in Nat
      BY <2>4, AmountsAre DEF Voucher
    <3>1. CASE j \in 1..Len(vouchers)
      BY <2>7, <2>9, <2>8, <3>1, <3>3
    <3>2. CASE j = Len(vouchers) + 1
      BY <2>7, <3>2, <3>3
    <3> QED
      BY <2>7, <3>1, <3>2
  <2> QED
    <3>1. session' # NoSession
      BY <2>3, <2>4, <2>5 DEF NoSession
    <3>2. /\ session'.nonce <= session'.amount /\ session'.amount <= session'.deposit
          /\ session'.deposit = channel'.deposit
      BY <2>5, <2>6
    <3>3. channel' \in Sessions
      BY <2>6 DEF SessionInv
    <3> QED
      BY <2>5, <2>7, <2>10, <2>11, <3>1, <3>2, <3>3 DEF SessionInv
<1>3. CASE CloseChannel
  <2>1. PICK i \in DOMAIN vouchers :
            channel' = [channel EXCEPT !.amount = vouchers[i].amount,
                                       !.nonce = vouchers[i].nonce]
    BY <1>3 DEF CloseChannel
  <2>2. channel' \in Sessions /\ channel'.deposit = channel.deposit
    <3>1. vouchers[i] \in Voucher
      BY DEF SessionInv
    <3>2. vouchers[i].amount \in Amounts /\ vouchers[i].nonce \in Amounts
      BY <3>1 DEF Voucher
    <3> QED
      BY <2>1, <3>2 DEF SessionInv, Sessions
  <2> QED
    BY <1>3, <2>2 DEF CloseChannel, SessionInv, VouchersSupersede
<1>4. CASE UNCHANGED channelVars
  BY <1>4 DEF channelVars, SessionInv, VouchersSupersede
<1> QED
  BY <1>1, <1>2, <1>3, <1>4 DEF ChannelSession

SessionTypes == session \in Sessions /\ channel \in Sessions /\ vouchers \in Seq(Voucher)

LEMMA VouchersKeepSuperseding == SessionSpec => [](SessionTypes /\ VouchersSupersede)
<1>1. SessionStart => SessionInv
  BY AmountsAre DEF SessionStart, NoSession, Sessions, SessionInv, VouchersSupersede
<1>2. SessionInv => SessionTypes /\ VouchersSupersede
  BY DEF SessionInv, SessionTypes
<1> QED
  BY <1>1, <1>2, SessionStep, PTL DEF SessionSpec

----------------------------------------------------------------------------
(* Jobs and owners, as the SDK's clients tell of them. *)

AppCalls == [pc : {"idle", "allowance", "approve", "create", "done"}, budget : Amounts,
             seen : Amounts, result : {"none", "job", "error"}]
Listings == [pc : {"idle", "reading", "done"}, count : 0..MaxJobs, got : SUBSET (1..MaxJobs)]

JobCallsStart ==
    /\ allowance \in Amounts /\ jobs = <<>>
    /\ app = [a \in Apps |-> [pc |-> "idle", budget |-> 0, seen |-> 0, result |-> "none"]]
    /\ listing = [pc |-> "idle", count |-> 0, got |-> {}]
JobCallsSpec == JobCallsStart /\ [][JobCalls]_jobVars

ToldOfJobsIsSo ==
    /\ \A a \in Apps : app[a].result = "job" => \E id \in DOMAIN jobs : jobs[id] = a
    /\ \A a \in Apps : \A i, j \in DOMAIN jobs : jobs[i] = a /\ jobs[j] = a => i = j
    /\ listing.got \subseteq DOMAIN jobs

(***************************************************************************)
(* A job was made by a call that is done, and the list was counted when    *)
(* there were no more jobs than there are.                                 *)
(***************************************************************************)
JobCallsInv ==
    /\ allowance \in Amounts /\ jobs \in Seq(Apps) /\ app \in [Apps -> AppCalls]
    /\ listing \in Listings /\ listing.count <= Len(jobs) /\ Len(jobs) <= MaxJobs
    /\ \A id \in DOMAIN jobs : app[jobs[id]].pc = "done"
    /\ ToldOfJobsIsSo

LEMMA JobCallsStarts == JobCallsStart => JobCallsInv
<1> SUFFICES ASSUME JobCallsStart PROVE JobCallsInv
  OBVIOUS
<1>1. app \in [Apps -> AppCalls] /\ \A a \in Apps : app[a].result = "none"
  BY AmountsAre DEF JobCallsStart, AppCalls
<1>2. listing \in Listings /\ listing.count = 0 /\ listing.got = {}
  BY ClientsAssumption DEF JobCallsStart, Listings
<1>3. /\ allowance \in Amounts /\ jobs \in Seq(Apps) /\ DOMAIN jobs = {}
      /\ Len(jobs) = 0 /\ Len(jobs) <= MaxJobs
  BY ClientsAssumption DEF JobCallsStart
<1> QED
  BY <1>1, <1>2, <1>3 DEF JobCallsInv, ToldOfJobsIsSo

(***************************************************************************)
(* A call that moves on without a job.                                     *)
(***************************************************************************)
LEMMA AppMoves ==
    ASSUME JobCallsInv, NEW a \in Apps, NEW new \in AppCalls, app[a].pc # "done",
           app' = [app EXCEPT ![a] = new], new.result \in {"error", app[a].result},
           allowance' \in Amounts, UNCHANGED <<jobs, listing>>
    PROVE  JobCallsInv'
<1>1. app' \in [Apps -> AppCalls] /\ \A b \in Apps \ {a} : app'[b] = app[b]
  BY DEF JobCallsInv
<1>2. app'[a] = new
  BY DEF JobCallsInv
<1>3. \A id \in DOMAIN jobs : jobs[id] \in Apps \ {a}
  BY DEF JobCallsInv
<1>4. \A b \in Apps : app'[b].result = "job" => app[b].result = "job"
  BY <1>1, <1>2
<1>5. ToldOfJobsIsSo'
  BY <1>4 DEF JobCallsInv, ToldOfJobsIsSo
<1> QED
  BY <1>1, <1>3, <1>5 DEF JobCallsInv

LEMMA JobIsMade ==
    ASSUME JobCallsInv, NEW a \in Apps, NEW new \in AppCalls, app[a].pc = "create",
           new.pc = "done", app' = [app EXCEPT ![a] = new], jobs' = Append(jobs, a),
           Len(jobs) < MaxJobs,
           UNCHANGED <<allowance, listing>>
    PROVE  JobCallsInv'
<1>1. app' \in [Apps -> AppCalls] /\ \A b \in Apps \ {a} : app'[b] = app[b]
  BY DEF JobCallsInv
<1>2. app'[a] = new
  BY DEF JobCallsInv
<1>3. jobs \in Seq(Apps)
  BY DEF JobCallsInv
<1>4. /\ jobs' \in Seq(Apps) /\ Len(jobs) \in Nat /\ Len(jobs') = Len(jobs) + 1
      /\ Len(jobs') <= MaxJobs
      /\ DOMAIN jobs = 1..Len(jobs) /\ DOMAIN jobs' = 1..(Len(jobs) + 1)
      /\ jobs'[Len(jobs) + 1] = a /\ \A i \in 1..Len(jobs) : jobs'[i] = jobs[i]
  BY <1>3, ClientsAssumption
<1>5. \A i \in 1..Len(jobs) : jobs[i] \in Apps \ {a}
  BY <1>4, <1>3 DEF JobCallsInv
<1>6. \A id \in DOMAIN jobs' : app'[jobs'[id]].pc = "done"
  BY <1>1, <1>2, <1>4, <1>5 DEF JobCallsInv
<1>7. \A b \in Apps : app'[b].result = "job" => \E id \in DOMAIN jobs' : jobs'[id] = b
  <2> SUFFICES ASSUME NEW b \in Apps, app'[b].result = "job"
               PROVE  \E id \in DOMAIN jobs' : jobs'[id] = b
    OBVIOUS
  <2>1. CASE b = a
    <3>1. Len(jobs) + 1 \in DOMAIN jobs'
      BY <1>4
    <3> QED
      BY <1>4, <2>1, <3>1
  <2>2. CASE b # a
    <3>1. PICK id \in 1..Len(jobs) : jobs[id] = b
      BY <1>1, <1>4, <2>2 DEF JobCallsInv, ToldOfJobsIsSo
    <3> QED
      BY <1>4, <3>1
  <2> QED
    BY <2>1, <2>2
<1>8. \A i, j \in DOMAIN jobs' : jobs'[i] = jobs'[j] => i = j
  <2>1. \A i, j \in 1..Len(jobs) : jobs[i] = jobs[j] => i = j
    BY <1>4, <1>5 DEF JobCallsInv, ToldOfJobsIsSo
  <2> QED
    BY <1>4, <1>5, <2>1
<1>9. listing.got \subseteq DOMAIN jobs' /\ listing.count <= Len(jobs')
  BY <1>4 DEF JobCallsInv, ToldOfJobsIsSo, Listings
<1>10. allowance \in Amounts /\ listing \in Listings
  BY DEF JobCallsInv
<1>11. ToldOfJobsIsSo'
  BY <1>7, <1>8, <1>9 DEF ToldOfJobsIsSo
<1> QED
  BY <1>1, <1>4, <1>6, <1>9, <1>10, <1>11 DEF JobCallsInv

LEMMA AppKeepsInv ==
    ASSUME JobCallsInv, NEW a \in Apps,
           ApproveAndCreate(a) \/ ReadAllowance(a) \/ Approve(a) \/ CreateJob(a)
    PROVE  JobCallsInv'
<1>1. app \in [Apps -> AppCalls] /\ app[a] \in AppCalls /\ allowance \in Amounts
  BY DEF JobCallsInv
<1>2. CASE ApproveAndCreate(a)
  <2>1. PICK budget \in Amounts :
            app' = IF budget = 0
                   THEN [app EXCEPT ![a].pc = "done", ![a].result = "error"]
                   ELSE [app EXCEPT ![a].pc = "allowance", ![a].budget = budget]
    BY <1>2 DEF ApproveAndCreate
  <2>3. PICK new \in AppCalls : /\ app' = [app EXCEPT ![a] = new]
                                /\ new.result \in {"error", app[a].result}
    <3>1. [app[a] EXCEPT !.pc = "done", !.result = "error"] \in AppCalls
      BY <1>1 DEF AppCalls
    <3>2. [app[a] EXCEPT !.pc = "allowance", !.budget = budget] \in AppCalls
      BY <1>1 DEF AppCalls
    <3> QED
      BY <1>1, <2>1, <3>1, <3>2 DEF AppCalls
  <2> QED
    BY <1>1, <1>2, <2>3, AppMoves DEF ApproveAndCreate
<1>3. CASE ReadAllowance(a)
  <2>1. PICK seen \in {allowance, 0}, pc \in {"approve", "create"} :
            app' = [app EXCEPT ![a].seen = seen, ![a].pc = pc]
    BY <1>3 DEF ReadAllowance
  <2>2. seen \in Amounts
    BY <1>1, <2>1, AmountsAre
  <2>3. [app[a] EXCEPT !.seen = seen, !.pc = pc] \in AppCalls
    BY <1>1, <2>2 DEF AppCalls
  <2>4. PICK new \in AppCalls : /\ app' = [app EXCEPT ![a] = new]
                                /\ new.result \in {"error", app[a].result}
    BY <1>1, <2>1, <2>3 DEF AppCalls
  <2> QED
    BY <1>1, <1>3, <2>4, AppMoves DEF ReadAllowance
<1>4. CASE Approve(a)
  <2>1. PICK new \in AppCalls : /\ app' = [app EXCEPT ![a] = new]
                                /\ new.result \in {"error", app[a].result}
    <3>1. [app[a] EXCEPT !.pc = "done", !.result = "error"] \in AppCalls
      BY <1>1 DEF AppCalls
    <3>2. [app[a] EXCEPT !.pc = "create"] \in AppCalls
      BY <1>1 DEF AppCalls
    <3> QED
      BY <1>1, <1>4, <3>1, <3>2 DEF Approve, AppCalls
  <2>2. allowance' \in Amounts
    BY <1>1, <1>4 DEF Approve, AppCalls
  <2> QED
    BY <1>4, <2>1, <2>2, AppMoves DEF Approve
<1>5. CASE CreateJob(a)
  <2>1. PICK told \in {"job", "error"} :
            /\ app' = [app EXCEPT ![a].pc = "done", ![a].result = told]
            /\ \/ jobs' = Append(jobs, a) /\ Len(jobs) < MaxJobs
               \/ told = "error" /\ jobs' = jobs
    <3>1. CASE jobs' = Append(jobs, a) /\ Len(jobs) < MaxJobs /\ \E told \in {"job", "error"} :
                   app' = [app EXCEPT ![a].pc = "done", ![a].result = told]
      BY <3>1
    <3>2. CASE jobs' = jobs /\ app' = [app EXCEPT ![a].pc = "done", ![a].result = "error"]
      BY <3>2
    <3> QED
      BY <1>5, <3>1, <3>2 DEF CreateJob
  <2>2. [app[a] EXCEPT !.pc = "done", !.result = told] \in AppCalls
    BY <1>1 DEF AppCalls
  <2>3. PICK new \in AppCalls : /\ app' = [app EXCEPT ![a] = new]
                                /\ new.pc = "done" /\ new.result = told
    BY <1>1, <2>1, <2>2 DEF AppCalls
  <2>4. app[a].pc = "create" /\ UNCHANGED <<allowance, listing>>
    BY <1>5 DEF CreateJob
  <2> QED
    BY <1>1, <2>1, <2>3, <2>4, AppMoves, JobIsMade
<1> QED
  BY <1>2, <1>3, <1>4, <1>5

LEMMA JobCallsStep == JobCallsInv /\ [JobCalls]_jobVars => JobCallsInv'
<1> SUFFICES ASSUME JobCallsInv, [JobCalls]_jobVars PROVE JobCallsInv'
  OBVIOUS
<1>1. /\ listing \in Listings /\ jobs \in Seq(Apps) /\ DOMAIN jobs = 1..Len(jobs)
      /\ Len(jobs) \in Nat /\ Len(jobs) \in 0..MaxJobs
  BY ClientsAssumption DEF JobCallsInv
<1>2. CASE CountJobs
  <2>1. listing' \in Listings /\ listing'.count <= Len(jobs) /\ listing'.got = listing.got
    <3>1. listing' = [listing EXCEPT !.pc = "done"]
          \/ listing' = [listing EXCEPT !.pc = "reading", !.count = Len(jobs)]
      BY <1>2 DEF CountJobs
    <3>2. listing.count <= Len(jobs)
      BY DEF JobCallsInv
    <3> QED
      <4>1. CASE listing' = [listing EXCEPT !.pc = "done"]
        BY <1>1, <3>2, <4>1 DEF Listings
      <4>2. CASE listing' = [listing EXCEPT !.pc = "reading", !.count = Len(jobs)]
        <5>1. Len(jobs) <= Len(jobs)
          BY <1>1
        <5>2. listing'.count = Len(jobs) /\ listing'.got = listing.got /\ listing' \in Listings
          BY <1>1, <4>2 DEF Listings
        <5> QED
          BY <5>1, <5>2
      <4> QED
        BY <3>1, <4>1, <4>2
  <2> QED
    BY <1>2, <2>1 DEF CountJobs, JobCallsInv, ToldOfJobsIsSo
<1>3. CASE ReadJobs
  <2>1. listing.count \in 0..MaxJobs /\ listing.count <= Len(jobs)
    BY DEF JobCallsInv, Listings
  <2>2. 1..listing.count \subseteq 1..Len(jobs) /\ 1..listing.count \in SUBSET (1..MaxJobs)
    BY <1>1, <2>1, ClientsAssumption
  <2>3. /\ listing' \in Listings /\ listing'.count = listing.count
        /\ listing'.got \subseteq DOMAIN jobs
    BY <1>1, <1>3, <2>2 DEF ReadJobs, Listings
  <2> QED
    BY <1>3, <2>1, <2>3 DEF ReadJobs, JobCallsInv, ToldOfJobsIsSo
<1>4. CASE UNCHANGED jobVars
  BY <1>4 DEF jobVars, JobCallsInv, ToldOfJobsIsSo
<1> QED
  BY <1>2, <1>3, <1>4, AppKeepsInv DEF JobCalls

IdentityStart ==
    /\ owner \in {"none", "old"} /\ lookup = [pc |-> "idle", result |-> "none"]
    /\ transfer = [pc |-> "idle", polls |-> 0]
IdentitySpec == IdentityStart /\ [][IdentityCalls]_identityVars

(***************************************************************************)
(* A transfer that was included gave the agent its new owner, who keeps    *)
(* it: deregister is a call of the old one.                                *)
(***************************************************************************)
IdentityInv ==
    /\ transfer \in [pc : {"idle", "pending", "unknown", "success", "failed", "done", "error"},
                     polls : 0..MaxPolls]
    /\ owner \in {"none", "old", "new"}
    /\ lookup \in [pc : {"idle", "agent", "done"}, result : {"none", "null", "old", "new"}]
    /\ transfer.pc \in {"success", "done"} => owner = "new"

LEMMA IdentityStep == IdentityInv /\ [IdentityCalls]_identityVars => IdentityInv'
<1> SUFFICES ASSUME IdentityInv, [IdentityCalls]_identityVars PROVE IdentityInv'
  OBVIOUS
<1>1. CASE AgentOf \/ GetAgent \/ Deregister \/ UNCHANGED identityVars
  <2>1. transfer' = transfer /\ owner' \in {owner, "none"} /\ (owner' # owner => owner = "old")
    BY <1>1 DEF AgentOf, GetAgent, Deregister, identityVars
  <2> DEFINE Lookups == [pc : {"idle", "agent", "done"}, result : {"none", "null", "old", "new"}]
  <2>2. lookup \in Lookups
    BY DEF IdentityInv
  <2>3. lookup' \in Lookups
    <3>1. CASE AgentOf
      <4>1. \/ lookup' = [lookup EXCEPT !.pc = "agent"]
            \/ lookup' = [lookup EXCEPT !.pc = "done", !.result = "null"]
        BY <3>1 DEF AgentOf
      <4> QED
        BY <2>2, <4>1
    <3>2. CASE GetAgent
      <4>1. PICK told \in {"null", "none", "old", "new"} :
                lookup' = [pc |-> "done", result |-> told]
        BY <3>2 DEF GetAgent, IdentityInv
      <4> QED
        BY <4>1
    <3>3. CASE Deregister \/ UNCHANGED identityVars
      BY <2>2, <3>3 DEF Deregister, identityVars
    <3> QED
      BY <1>1, <3>1, <3>2, <3>3
  <2> QED
    BY <2>1, <2>3 DEF IdentityInv
<1>2. CASE UpdateOwner
  <2>1. PICK pc \in {"pending", "unknown", "error"} : transfer' = [transfer EXCEPT !.pc = pc]
    BY <1>2 DEF UpdateOwner
  <2> QED
    BY <1>2, <2>1 DEF UpdateOwner, IdentityInv
<1>3. CASE TransferIncluded \/ TransferExpires
  BY <1>3 DEF TransferIncluded, TransferExpires, IdentityInv
<1>4. CASE PollTransfer
  <2>1. /\ \/ transfer' = [transfer EXCEPT !.pc = "done"] /\ owner = "new"
           \/ transfer' = [transfer EXCEPT !.pc = "error"]
           \/ \E n \in 0..MaxPolls : /\ transfer' = [transfer EXCEPT !.polls = n]
                                    /\ transfer.pc \in {"pending", "unknown"}
        /\ UNCHANGED <<owner, lookup>>
    <3>1. \A n \in 0..MaxPolls : n < MaxPolls => n + 1 \in 0..MaxPolls
      BY ClientsAssumption
    <3>2. transfer.polls \in 0..MaxPolls
      BY DEF IdentityInv
    <3> DEFINE polled == IF transfer.polls < MaxPolls THEN transfer.polls + 1 ELSE transfer.polls
    <3>3. polled \in 0..MaxPolls
      BY <3>1, <3>2
    <3>4. transfer' = CASE transfer.pc = "success" -> [transfer EXCEPT !.pc = "done"]
                        [] transfer.pc = "failed" -> [transfer EXCEPT !.pc = "error"]
                        [] OTHER -> [transfer EXCEPT !.polls = polled]
      BY <1>4 DEF PollTransfer
    <3> HIDE DEF polled
    <3> QED
      BY <1>4, <3>3, <3>4 DEF PollTransfer, IdentityInv
  <2>2. CASE \E n \in 0..MaxPolls : /\ transfer' = [transfer EXCEPT !.polls = n]
                                   /\ transfer.pc \in {"pending", "unknown"}
    BY <2>1, <2>2 DEF IdentityInv
  <2> QED
    BY <2>1, <2>2 DEF IdentityInv
<1> QED
  BY <1>1, <1>2, <1>3, <1>4 DEF IdentityCalls

LEMMA ClientsStayTyped ==
    SessionSpec /\ JobCallsSpec /\ IdentitySpec => []ClientsTypeOK
<1>1. SessionTypes /\ JobCallsInv /\ IdentityInv => ClientsTypeOK
  BY DEF SessionTypes, Sessions, Voucher, JobCallsInv, AppCalls, Listings, IdentityInv,
         ClientsTypeOK
<1>2. IdentityStart => IdentityInv
  BY ClientsAssumption DEF IdentityStart, IdentityInv
<1> QED
  BY <1>1, <1>2, VouchersKeepSuperseding, JobCallsStarts, JobCallsStep, IdentityStep, PTL
     DEF JobCallsSpec, IdentitySpec

LEMMA WhatIsToldIsSo == JobCallsSpec /\ IdentitySpec => []ToldIsSo
<1>1. IdentityStart => IdentityInv
  BY ClientsAssumption DEF IdentityStart, IdentityInv
<1>2. JobCallsInv /\ IdentityInv => ToldIsSo
  BY DEF JobCallsInv, ToldOfJobsIsSo, IdentityInv, ToldIsSo
<1> QED
  BY <1>1, <1>2, JobCallsStarts, JobCallsStep, IdentityStep, PTL
     DEF JobCallsSpec, IdentitySpec

----------------------------------------------------------------------------
(* The hook of a payment channel. *)

ChannelHookSpec == ChannelHookInit /\ [][ChannelHookNext]_channelHookVars

ChannelStates == [channelId : 0..MaxChannels, deposit : 0..MaxDeposit,
                  spent : 0..MaxDeposit, nonce : 0..MaxNonce]
HookVouchers == [channelId : Channels, amount : 1..MaxDeposit, nonce : 1..MaxNonce]

LEMMA ChannelBounds ==
    /\ MaxDeposit \in Nat /\ MaxChannels \in Nat /\ MaxNonce \in Nat
    /\ 0 \in 0..MaxDeposit /\ 0 \in 0..MaxNonce /\ 1..MaxDeposit \subseteq 0..MaxDeposit
    /\ 0..MaxDeposit \subseteq Nat /\ 0..MaxNonce \subseteq Nat /\ 1..MaxNonce \subseteq Nat
BY ChannelHookAssumption

Remembered(v) == v \in handedOut /\ v.channelId \notin forgotten

(***************************************************************************)
(* The record in the browser is at least at the last voucher of its        *)
(* channel, if it could be stored.  The last render may be one behind, for *)
(* two vouchers created from it share a nonce; and a component that has    *)
(* turned to another channel since has turned to a new one.                *)
(***************************************************************************)
NoncesKept ==
    /\ \A v \in handedOut : Remembered(v) =>
           /\ v.channelId \notin unsaved => v.nonce <= storedChannels[v.channelId].nonce
           /\ v.channelId = rendered.channelId => v.nonce <= rendered.nonce + 1
    /\ rendered.channelId # shownChannel.channelId =>
           \A v \in handedOut : v.channelId # shownChannel.channelId

ChannelHookInv ==
    /\ shownChannel \in ChannelStates /\ rendered \in ChannelStates
    /\ storedChannels \in [Channels -> ChannelStates]
    /\ \A ch \in Channels : storedChannels[ch] # Unset => storedChannels[ch].channelId = ch
    /\ opening \subseteq 1..MaxDeposit /\ channelsMade \in 0..MaxChannels
    /\ closing \in BOOLEAN /\ forgotten \subseteq Channels /\ unsaved \subseteq Channels
    /\ opening # {} => channelsMade < MaxChannels
    /\ {rendered.channelId, shownChannel.channelId} \subseteq 0..channelsMade
    /\ handedOut \subseteq HookVouchers /\ \A v \in handedOut : v.channelId <= channelsMade
    /\ NoncesKept /\ NonceIsKept

LEMMA ChannelHookStarts == ChannelHookInit => ChannelHookInv
<1> SUFFICES ASSUME ChannelHookInit PROVE ChannelHookInv
  OBVIOUS
<1>1. MaxChannels \in Nat /\ 0 \in 0..MaxChannels /\ 0 \in 0..0
  BY ChannelHookAssumption
<1>2. Unset \in ChannelStates /\ Unset.channelId = 0
  BY <1>1, ChannelBounds DEF Unset, ChannelStates, NoChannel
<1>3. /\ shownChannel = Unset /\ rendered = Unset /\ handedOut = {} /\ opening = {}
      /\ storedChannels = [ch \in Channels |-> Unset] /\ channelsMade = 0
      /\ closing = FALSE /\ forgotten = {} /\ unsaved = {}
  BY DEF ChannelHookInit
<1>4. NoncesKept /\ NonceIsKept
  BY <1>3 DEF NoncesKept, NonceIsKept
<1> QED
  BY <1>1, <1>2, <1>3, <1>4 DEF ChannelHookInv

LEMMA ChannelIsOpened == ASSUME ChannelHookInv, ChannelOpened PROVE ChannelHookInv'
<1>1. PICK deposit_ \in opening :
          LET new == [channelId |-> channelsMade + 1, deposit |-> deposit_,
                      spent |-> 0, nonce |-> 0]
          IN  shownChannel' = new /\ Save(new)
  BY DEF ChannelOpened
<1>2. PICK state :
          /\ state = [channelId |-> channelsMade + 1, deposit |-> deposit_,
                      spent |-> 0, nonce |-> 0]
          /\ shownChannel' = state /\ Save(state)
  BY <1>1
<1>3. channelsMade \in Nat /\ MaxChannels \in Nat /\ channelsMade + 1 \in 1..MaxChannels
  BY <1>2, ChannelHookAssumption DEF ChannelHookInv
<1>4. state \in ChannelStates /\ state.channelId = channelsMade + 1
  <2>1. channelsMade + 1 \in 0..MaxChannels /\ deposit_ \in 0..MaxDeposit
    BY <1>3, ChannelBounds DEF ChannelHookInv
  <2> QED
    BY <1>2, <2>1, ChannelBounds DEF ChannelStates
<1>5. /\ channelsMade' = channelsMade + 1 /\ opening' = {}
      /\ UNCHANGED <<rendered, handedOut, forgotten, closing>>
  BY DEF ChannelOpened
<1>6. \A v \in handedOut : v.channelId \in Channels /\ v.channelId # channelsMade + 1
  BY <1>3 DEF ChannelHookInv, HookVouchers
<1>7. /\ storedChannels' \in [Channels -> ChannelStates]
      /\ storedChannels'[channelsMade + 1] \in {state, storedChannels[channelsMade + 1]}
      /\ \A ch \in Channels : ch # channelsMade + 1 => storedChannels'[ch] = storedChannels[ch]
      /\ unsaved' \in {unsaved \ {channelsMade + 1}, unsaved \cup {channelsMade + 1}}
      /\ unsaved' \subseteq Channels
  <2>1. PICK ch \in Channels : ch = channelsMade + 1
    BY <1>3 DEF Channels
  <2>2. /\ state \in ChannelStates /\ state.channelId = ch
        /\ storedChannels \in [Channels -> ChannelStates] /\ unsaved \subseteq Channels
    BY <1>4, <2>1 DEF ChannelHookInv
  <2>3. \/ /\ storedChannels' = [storedChannels EXCEPT ![ch] = state]
           /\ unsaved' = unsaved \ {ch}
        \/ storedChannels' = storedChannels /\ unsaved' = unsaved \cup {ch}
    BY <1>2, <2>2 DEF Save
  <2> QED
    BY <2>1, <2>2, <2>3
<1>8. NoncesKept' /\ NonceIsKept'
  <2>1. shownChannel'.channelId = channelsMade + 1
    BY <1>2, <1>4
  <2>2. \A v \in handedOut : /\ storedChannels'[v.channelId] = storedChannels[v.channelId]
                             /\ v.channelId \in unsaved' <=> v.channelId \in unsaved
    BY <1>6, <1>7
  <2> QED
    BY <1>5, <1>6, <2>1, <2>2 DEF ChannelHookInv, NoncesKept, NonceIsKept, Remembered
<1>9. \A ch \in Channels : storedChannels'[ch] # Unset => storedChannels'[ch].channelId = ch
  BY <1>4, <1>7 DEF ChannelHookInv
<1>10. /\ {rendered'.channelId, shownChannel'.channelId} \subseteq 0..channelsMade'
       /\ \A v \in handedOut' : v.channelId <= channelsMade'
       /\ channelsMade' \in 0..MaxChannels
  BY <1>2, <1>3, <1>4, <1>5, <1>6 DEF ChannelHookInv, HookVouchers, Channels
<1>11. /\ shownChannel' \in ChannelStates /\ rendered' \in ChannelStates
       /\ handedOut' \subseteq HookVouchers
       /\ opening' \subseteq 1..MaxDeposit /\ closing' \in BOOLEAN
       /\ forgotten' \subseteq Channels /\ (opening' # {} => channelsMade' < MaxChannels)
       /\ storedChannels' \in [Channels -> ChannelStates] /\ unsaved' \subseteq Channels
  BY <1>2, <1>4, <1>5, <1>7 DEF ChannelHookInv
<1> QED
  BY <1>8, <1>9, <1>10, <1>11 DEF ChannelHookInv

LEMMA VoucherKeepsInv == ASSUME ChannelHookInv, HookCreatesVoucher PROVE ChannelHookInv'
<1>1. PICK delta \in 1..MaxDeposit, isIncremental \in BOOLEAN :
          LET total == IF isIncremental THEN rendered.spent + delta ELSE delta
          IN  /\ total <= MaxDeposit
              /\ handedOut' = handedOut \cup {[channelId |-> rendered.channelId,
                                               amount |-> total, nonce |-> rendered.nonce + 1]}
              /\ shownChannel' = [shownChannel EXCEPT !.spent = total,
                                                      !.nonce = rendered.nonce + 1]
              /\ Save([rendered EXCEPT !.spent = total, !.nonce = rendered.nonce + 1])
  BY DEF HookCreatesVoucher, ChannelHookInv, ChannelStates
<1>2. PICK total :
          /\ total = IF isIncremental THEN rendered.spent + delta ELSE delta
          /\ total <= MaxDeposit
          /\ handedOut' = handedOut \cup {[channelId |-> rendered.channelId,
                                           amount |-> total, nonce |-> rendered.nonce + 1]}
          /\ shownChannel' = [shownChannel EXCEPT !.spent = total, !.nonce = rendered.nonce + 1]
          /\ Save([rendered EXCEPT !.spent = total, !.nonce = rendered.nonce + 1])
  BY <1>1
<1>3. rendered \in ChannelStates /\ shownChannel \in ChannelStates
  BY DEF ChannelHookInv
<1>4. /\ rendered.channelId \in 0..MaxChannels /\ rendered.spent \in Nat
       /\ rendered.nonce \in Nat /\ rendered.nonce + 1 \in Nat
  BY <1>3, ChannelBounds DEF ChannelStates
<1>5. /\ MaxChannels \in Nat /\ delta \in Nat /\ delta >= 1 /\ rendered.channelId # 0
      /\ rendered.nonce < MaxNonce
  BY ChannelHookAssumption DEF HookCreatesVoucher, NoChannel
<1>6. /\ rendered.channelId \in Channels /\ rendered.channelId \in 0..channelsMade
      /\ rendered.nonce \in Nat /\ rendered.nonce + 1 \in Nat /\ total \in Nat
      /\ rendered.nonce + 1 \in 1..MaxNonce /\ rendered.nonce + 1 \in 0..MaxNonce
      /\ total \in 1..MaxDeposit /\ total \in 0..MaxDeposit
  <2>1. rendered.channelId \in Channels /\ rendered.channelId \in 0..channelsMade
    BY <1>4, <1>5 DEF ChannelHookInv, Channels
  <2>2. total \in 1..MaxDeposit /\ total \in Nat /\ total \in 0..MaxDeposit
    BY <1>2, <1>4, <1>5, ChannelBounds
  <2>3. rendered.nonce + 1 \in 1..MaxNonce /\ rendered.nonce + 1 \in 0..MaxNonce
    BY <1>4, <1>5, ChannelBounds
  <2> QED
    BY <1>4, <2>1, <2>2, <2>3
<1>7. PICK v : v = [channelId |-> rendered.channelId, amount |-> total,
                    nonce |-> rendered.nonce + 1]
  OBVIOUS
<1>8. PICK state : state = [rendered EXCEPT !.spent = total, !.nonce = rendered.nonce + 1]
  OBVIOUS
<1>9. v \in HookVouchers /\ v.channelId = rendered.channelId /\ v.nonce = rendered.nonce + 1
  BY <1>6, <1>7 DEF HookVouchers
<1>10. /\ state \in ChannelStates /\ state.channelId = rendered.channelId
      /\ state.nonce = rendered.nonce + 1
  BY <1>6, <1>8, <1>3 DEF ChannelStates
<1>11. handedOut' = handedOut \cup {v}
  BY <1>2, <1>7
<1>12. /\ storedChannels' \in [Channels -> ChannelStates]
       /\ storedChannels'[rendered.channelId] \in {state, storedChannels[rendered.channelId]}
       /\ rendered.channelId \notin unsaved' => storedChannels'[rendered.channelId] = state
       /\ \A ch \in Channels \ {rendered.channelId} :
             storedChannels'[ch] = storedChannels[ch] /\ (ch \in unsaved' <=> ch \in unsaved)
       /\ unsaved' \subseteq Channels
  <2>1. Save(state)
    BY <1>2, <1>8
  <2> QED
    BY <1>6, <1>10, <2>1 DEF ChannelHookInv, Save
<1>13. /\ shownChannel' \in ChannelStates /\ shownChannel'.channelId = shownChannel.channelId
      /\ shownChannel'.nonce = rendered.nonce + 1
  BY <1>2, <1>6, <1>3 DEF ChannelStates
<1>14. UNCHANGED <<rendered, opening, closing, channelsMade, forgotten>>
  BY DEF HookCreatesVoucher
<1>15. NoncesKept'
  <2>1. ASSUME NEW w \in handedOut', w.channelId \notin forgotten
        PROVE  /\ w.channelId \notin unsaved' => w.nonce <= storedChannels'[w.channelId].nonce
               /\ w.channelId = rendered.channelId => w.nonce <= rendered.nonce + 1
    <3>1. CASE w.channelId # rendered.channelId
      <4>1. w \in handedOut /\ w.channelId \in Channels
        BY <1>9, <1>11, <2>1, <3>1 DEF ChannelHookInv, HookVouchers
      <4> QED
        BY <1>12, <2>1, <3>1, <4>1 DEF ChannelHookInv, NoncesKept, Remembered
    <3>2. CASE w.channelId = rendered.channelId
      <4>1. w.nonce <= rendered.nonce + 1
        BY <1>6, <1>9, <1>11, <2>1, <3>2 DEF ChannelHookInv, NoncesKept, Remembered
      <4> QED
        BY <1>10, <1>12, <3>2, <4>1
    <3> QED
      BY <3>1, <3>2
  <2>2. rendered.channelId # shownChannel.channelId =>
            \A w \in handedOut' : w.channelId # shownChannel.channelId
    BY <1>9, <1>11 DEF ChannelHookInv, NoncesKept
  <2> QED
    BY <1>13, <1>14, <2>1, <2>2 DEF NoncesKept, Remembered
<1>16. NonceIsKept'
  <2> SUFFICES ASSUME NEW w \in handedOut', w.channelId = shownChannel.channelId,
                      w.channelId \notin forgotten
               PROVE  w.nonce <= rendered.nonce + 1
    BY <1>13, <1>14 DEF NonceIsKept
  <2>1. rendered.channelId = shownChannel.channelId
    BY <1>9, <1>11 DEF ChannelHookInv, NoncesKept
  <2> QED
    BY <1>14, <1>15, <2>1 DEF NoncesKept, Remembered
<1>17. \A ch \in Channels : storedChannels'[ch] # Unset => storedChannels'[ch].channelId = ch
  BY <1>10, <1>12 DEF ChannelHookInv
<1>18. handedOut' \subseteq HookVouchers /\ \A w \in handedOut' : w.channelId <= channelsMade
  <2>1. channelsMade \in Nat
    BY <1>6 DEF ChannelHookInv
  <2> QED
    BY <1>6, <1>9, <1>11, <2>1 DEF ChannelHookInv
<1> QED
  BY <1>12, <1>13, <1>14, <1>15, <1>16, <1>17, <1>18 DEF ChannelHookInv

LEMMA ResetKeepsInv == ASSUME ChannelHookInv, ResetChannel PROVE ChannelHookInv'
<1>1. /\ shownChannel' = Unset /\ rendered' = Unset
      /\ UNCHANGED <<opening, closing, channelsMade, handedOut, unsaved>>
  BY DEF ResetChannel
<1>2. Unset \in ChannelStates /\ Unset.channelId = 0 /\ 0 \in 0..channelsMade
  <2>1. 0 \in 0..MaxChannels /\ 0 \in 0..channelsMade
    BY ChannelBounds DEF ChannelHookInv
  <2> QED
    BY <2>1, ChannelBounds DEF Unset, ChannelStates, NoChannel
<1>3. /\ forgotten \subseteq forgotten' /\ forgotten' \subseteq Channels
      /\ storedChannels' \in [Channels -> ChannelStates]
      /\ \A ch \in Channels : \/ storedChannels'[ch] = storedChannels[ch]
                              \/ storedChannels'[ch] = Unset /\ ch \in forgotten'
  <2>1. rendered.channelId # NoChannel => rendered.channelId \in Channels
    BY ChannelBounds DEF ChannelHookInv, ChannelStates, Channels, NoChannel
  <2> QED
    BY <1>2, <2>1 DEF ResetChannel, ChannelHookInv
<1>4. \A v \in handedOut : v.channelId \in Channels /\ v.channelId # 0
  BY ChannelHookAssumption DEF ChannelHookInv, HookVouchers, Channels
<1>5. NoncesKept' /\ NonceIsKept'
  BY <1>1, <1>2, <1>3, <1>4 DEF ChannelHookInv, NoncesKept, NonceIsKept, Remembered
<1> QED
  BY <1>1, <1>2, <1>3, <1>5 DEF ChannelHookInv

LEMMA ReloadKeepsInv == ASSUME ChannelHookInv, Reload PROVE ChannelHookInv'
<1>1. PICK ch \in 1..channelsMade, initialDeposit \in {0, MaxDeposit} :
          /\ shownChannel' = IF storedChannels[ch] # Unset THEN storedChannels[ch]
                             ELSE [Unset EXCEPT !.channelId = ch, !.deposit = initialDeposit]
          /\ forgotten' = IF ch \in unsaved THEN forgotten \cup {ch} ELSE forgotten
  BY DEF Reload
<1>2. /\ rendered' = shownChannel' /\ opening' = {} /\ closing' = FALSE
      /\ UNCHANGED <<storedChannels, channelsMade, handedOut, unsaved>>
  BY DEF Reload
<1>3. ch \in Channels /\ ch \in 0..channelsMade /\ initialDeposit \in 0..MaxDeposit
  BY ChannelBounds DEF ChannelHookInv, Channels
<1>4. /\ shownChannel' \in ChannelStates /\ shownChannel'.channelId = ch
      /\ storedChannels[ch].nonce <= shownChannel'.nonce
  <2>1. CASE storedChannels[ch] # Unset
    <3>1. storedChannels[ch] \in ChannelStates /\ storedChannels[ch].channelId = ch
      BY <1>3, <2>1 DEF ChannelHookInv
    <3>2. storedChannels[ch].nonce <= storedChannels[ch].nonce
      BY <3>1, ChannelBounds DEF ChannelStates
    <3> QED
      BY <1>1, <2>1, <3>1, <3>2
  <2>2. CASE storedChannels[ch] = Unset
    <3>1. Unset.nonce = 0
      BY DEF Unset
    <3>2. shownChannel' = [Unset EXCEPT !.channelId = ch, !.deposit = initialDeposit]
      BY <1>1, <2>2
    <3>3. ch \in 0..MaxChannels
      BY <1>3, ChannelHookAssumption DEF Channels
    <3>4. /\ shownChannel' \in ChannelStates /\ shownChannel'.channelId = ch
          /\ shownChannel'.nonce = 0
      BY <1>3, <3>2, <3>3, ChannelBounds DEF Unset, ChannelStates
    <3> QED
      BY <2>2, <3>1, <3>4
  <2> QED
    BY <2>1, <2>2
<1>5. \A v \in handedOut : v.channelId = ch /\ v.channelId \notin forgotten' =>
          v.nonce <= shownChannel'.nonce
  <2> SUFFICES ASSUME NEW v \in handedOut, v.channelId = ch, v.channelId \notin forgotten'
               PROVE  v.nonce <= shownChannel'.nonce
    OBVIOUS
  <2>1. v.nonce <= storedChannels[ch].nonce
    <3>1. ch \notin unsaved /\ ch \notin forgotten
      BY <1>1
    <3> QED
      BY <3>1 DEF ChannelHookInv, NoncesKept, Remembered
  <2>2. /\ v.nonce \in Nat /\ storedChannels[ch].nonce \in Nat
        /\ shownChannel'.nonce \in Nat
    BY <1>3, <1>4, ChannelBounds DEF ChannelHookInv, HookVouchers, ChannelStates
  <2> QED
    BY <1>4, <2>1, <2>2
<1>6. NonceIsKept'
  BY <1>2, <1>4, <1>5 DEF NonceIsKept
<1>7. NoncesKept'
  <2>1. ASSUME NEW v \in handedOut, v.channelId = ch, v.channelId \notin forgotten'
        PROVE  v.nonce <= shownChannel'.nonce + 1
    <3>1. v.nonce \in Nat /\ shownChannel'.nonce \in Nat
      BY <1>4, ChannelBounds DEF ChannelHookInv, HookVouchers, ChannelStates
    <3> QED
      BY <1>5, <2>1, <3>1
  <2>2. forgotten \subseteq forgotten'
    BY <1>1
  <2> QED
    BY <1>2, <1>4, <2>1, <2>2 DEF ChannelHookInv, NoncesKept, Remembered
<1>8. forgotten' \subseteq Channels
  BY <1>1, <1>3 DEF ChannelHookInv
<1> QED
  BY <1>2, <1>3, <1>4, <1>6, <1>7, <1>8 DEF ChannelHookInv

LEMMA RenderKeepsInv == ASSUME ChannelHookInv, Render PROVE ChannelHookInv'
<1>1. /\ rendered' = shownChannel'
      /\ UNCHANGED <<storedChannels, opening, closing, channelsMade, handedOut, unsaved,
                     forgotten>>
  BY DEF Render
<1>2. CASE shownChannel' = shownChannel
  <2>1. ASSUME NEW v \in handedOut, Remembered(v), v.channelId = shownChannel.channelId
        PROVE  v.nonce <= shownChannel.nonce + 1
    <3>1. v.nonce \in Nat /\ shownChannel.nonce \in Nat
      BY ChannelBounds DEF ChannelHookInv, HookVouchers, ChannelStates
    <3> QED
      BY <2>1, <3>1 DEF ChannelHookInv, NonceIsKept, Remembered
  <2>2. NoncesKept'
    BY <1>1, <1>2, <2>1 DEF ChannelHookInv, NoncesKept, Remembered
  <2>3. NonceIsKept'
    BY <1>1, <1>2 DEF ChannelHookInv, NonceIsKept
  <2> QED
    BY <1>1, <1>2, <2>2, <2>3 DEF ChannelHookInv
<1>3. CASE shownChannel' # shownChannel
  <2>1. PICK ch \in Channels :
            /\ ch = shownChannel.channelId /\ ch # rendered.channelId
            /\ storedChannels[ch] # Unset /\ shownChannel' = storedChannels[ch]
    BY <1>3 DEF Render
  <2>2. /\ shownChannel' \in ChannelStates /\ shownChannel'.channelId = ch
        /\ \A v \in handedOut : v.channelId # ch
    BY <2>1 DEF ChannelHookInv, NoncesKept
  <2>3. NoncesKept' /\ NonceIsKept'
    BY <1>1, <2>2 DEF ChannelHookInv, NoncesKept, NonceIsKept, Remembered
  <2> QED
    BY <1>1, <2>1, <2>2, <2>3 DEF ChannelHookInv
<1> QED
  BY <1>2, <1>3

LEMMA ChannelHookStep == ChannelHookInv /\ [ChannelHookNext]_channelHookVars => ChannelHookInv'
<1> SUFFICES ASSUME ChannelHookInv, [ChannelHookNext]_channelHookVars PROVE ChannelHookInv'
  OBVIOUS
<1>1. ASSUME UNCHANGED <<shownChannel, rendered, storedChannels, channelsMade, handedOut,
                         unsaved, forgotten>>,
             opening' \subseteq 1..MaxDeposit, opening' # {} => channelsMade < MaxChannels,
             closing' \in BOOLEAN
      PROVE  ChannelHookInv'
  <2>1. NoncesKept' /\ NonceIsKept'
    BY <1>1 DEF ChannelHookInv, NoncesKept, NonceIsKept, Remembered
  <2> QED
    BY <1>1, <2>1 DEF ChannelHookInv
<1>2. CASE BeginOpenChannel
  BY <1>1, <1>2 DEF BeginOpenChannel, ChannelHookInv
<1>3. CASE ChannelRefused
  BY <1>1, <1>3 DEF ChannelRefused, ChannelHookInv
<1>4. CASE BeginCloseChannel \/ CloseAnswered \/ UNCHANGED channelHookVars
  BY <1>1, <1>4 DEF BeginCloseChannel, CloseAnswered, channelHookVars, ChannelHookInv
<1> QED
  BY <1>2, <1>3, <1>4, ChannelIsOpened, VoucherKeepsInv, ResetKeepsInv, ReloadKeepsInv,
     RenderKeepsInv DEF ChannelHookNext

LEMMA ChannelHookStaysTyped == ChannelHookSpec => []ChannelHookTypeOK
<1>1. ChannelHookInv => ChannelHookTypeOK
  BY DEF ChannelHookInv, ChannelHookTypeOK, ChannelStates, HookVouchers
<1> QED
  BY <1>1, ChannelHookStarts, ChannelHookStep, PTL DEF ChannelHookSpec

LEMMA NoncesAreKept == ChannelHookSpec => []NonceIsKept
<1>1. ChannelHookInv => NonceIsKept
  BY DEF ChannelHookInv
<1> QED
  BY <1>1, ChannelHookStarts, ChannelHookStep, PTL DEF ChannelHookSpec

----------------------------------------------------------------------------
(* The hook for the contract's calls. *)

CommerceHookSpec == CommerceInit /\ [][CommerceNext]_commerceVars

LEMMA CommerceHookStaysTyped == CommerceHookSpec => []CommerceHookTypeOK
<1> DEFINE CallHashes == HookCalls \cup {NoHash, MadeUp}
           Stages == {"idle", "client", "sent", "reported", "done", "failed"}
           Records == [at : Stages, closure : CallHashes]
<1>1. CommerceInit => CommerceHookTypeOK
  <2>1. [at |-> "idle", closure |-> NoHash] \in Records
    OBVIOUS
  <2> QED
    BY <2>1 DEF CommerceInit, CommerceStart, CommerceHookTypeOK
<1>2. ASSUME CommerceHookTypeOK, [CommerceNext]_commerceVars PROVE CommerceHookTypeOK'
  <2> USE <1>2
  <2>1. /\ {ambient, signer, isPending, failed} \subseteq BOOLEAN
        /\ {txHash, latestTxHash, result} \subseteq CallHashes
        /\ hookCalls \in [HookCalls -> Records]
        /\ answer \in [HookCalls -> CallHashes] /\ alone \subseteq HookCalls
    BY DEF CommerceHookTypeOK
  <2>2. ASSUME NEW c \in HookCalls, NEW at \in Stages
        PROVE  [hookCalls EXCEPT ![c].at = at] \in [HookCalls -> Records]
    BY <2>1
  <2>3. ASSUME NEW c \in HookCalls, BeginCommerce(c) PROVE CommerceHookTypeOK'
    <3>1. [at |-> "client", closure |-> txHash] \in Records
      BY <2>1
    <3>2. hookCalls' \in [HookCalls -> Records]
      BY <2>1, <2>3, <3>1 DEF BeginCommerce
    <3> QED
      BY <2>1, <2>3, <3>2 DEF BeginCommerce, CommerceHookTypeOK
  <2>4. ASSUME NEW c \in HookCalls, SendCommerce(c) PROVE CommerceHookTypeOK'
    <3>1. /\ \E at \in Stages : hookCalls' = [hookCalls EXCEPT ![c].at = at]
          /\ isPending' \in {isPending, FALSE} /\ failed' \in {failed, TRUE}
      BY <2>4 DEF SendCommerce, CallEnds
    <3>2. PICK at \in Stages : hookCalls' = [hookCalls EXCEPT ![c].at = at]
      BY <3>1
    <3>3. hookCalls' \in [HookCalls -> Records]
      BY <2>2, <3>2
    <3> QED
      BY <2>1, <2>4, <3>1, <3>3 DEF SendCommerce, CommerceHookTypeOK
  <2>5. ASSUME NEW c \in HookCalls, OnTx(c) PROVE CommerceHookTypeOK'
    <3>1. hookCalls' \in [HookCalls -> Records]
      BY <2>2, <2>5 DEF OnTx
    <3> QED
      BY <2>1, <2>5, <3>1 DEF OnTx, CommerceHookTypeOK
  <2>6. ASSUME NEW c \in HookCalls, CommerceSucceeds(c) PROVE CommerceHookTypeOK'
    <3>1. hookCalls' \in [HookCalls -> Records] /\ isPending' \in BOOLEAN
      BY <2>2, <2>6 DEF CommerceSucceeds, CallEnds
    <3>2. hookCalls[c].closure \in CallHashes
      BY <2>1
    <3>3. txHash' \in CallHashes /\ answer' = [answer EXCEPT ![c] = txHash'] /\ result' = c
      BY <2>1, <2>6, <3>2 DEF CommerceSucceeds
    <3>4. answer' \in [HookCalls -> CallHashes]
      BY <2>1, <3>3
    <3> QED
      BY <2>1, <2>6, <3>1, <3>3, <3>4 DEF CommerceSucceeds, CommerceHookTypeOK
  <2>7. ASSUME NEW c \in HookCalls, CommerceFails(c) PROVE CommerceHookTypeOK'
    <3>1. hookCalls' \in [HookCalls -> Records] /\ isPending' \in BOOLEAN
      BY <2>2, <2>7 DEF CommerceFails, CallEnds
    <3> QED
      BY <2>1, <2>7, <3>1 DEF CommerceFails, CommerceHookTypeOK
  <2>8. CASE ResetCommerce \/ SignerChanges \/ UNCHANGED commerceVars
    BY <2>1, <2>8 DEF ResetCommerce, SignerChanges, commerceVars, CommerceHookTypeOK
  <2> QED
    BY <2>3, <2>4, <2>5, <2>6, <2>7, <2>8 DEF CommerceNext
<1> QED
  BY <1>1, <1>2, PTL DEF CommerceHookSpec

----------------------------------------------------------------------------
(* The dashboard's wallet. *)

(* The dashboard's wallet. *)

DashWalletStarts == \E a \in Accounts, known \in BOOLEAN : DashWalletStart(a, known)
DashWalletSpec == DashWalletStarts /\ [][DashWalletNext]_dashWalletVars

MaybeAccounts == Accounts \cup {NoAccount}
Steps == {"idle", "session", "server", "authenticating", "build", "review", "failedReview",
          "sign", "submit", "reload"}
Actions == [at : Steps, account : MaybeAccounts, signer : MaybeAccounts]

(***************************************************************************)
(* A signer is known from the signature until the lists are loaded anew.   *)
(***************************************************************************)
DashWalletInv ==
    /\ kit \in Accounts /\ wallet \in [publicKey : MaybeAccounts, network : Networks]
    /\ previousPublicKey \in MaybeAccounts /\ remembered \in BOOLEAN
    /\ sessionToken \in MaybeAccounts /\ authPromise \in MaybeAccounts
    /\ asking \subseteq {"select", "reconnect", "check"} /\ action \in Actions
    /\ action.signer # NoAccount => action.at \in {"submit", "reload"}

LEMMA DashWalletMoves ==
    DashWalletInv /\ [DashWalletNext]_dashWalletVars => DashWalletInv'
<1> SUFFICES ASSUME DashWalletInv, [DashWalletNext]_dashWalletVars PROVE DashWalletInv'
  OBVIOUS
<1> DEFINE Wallets == [publicKey : MaybeAccounts, network : Networks]
<1>1. /\ wallet \in Wallets /\ kit \in MaybeAccounts /\ NoAccount \in MaybeAccounts
      /\ "unknown" \in Networks
  BY DEF DashWalletInv, MaybeAccounts, Networks
<1>2. ASSUME NEW k \in MaybeAccounts PROVE [wallet EXCEPT !.publicKey = k] \in Wallets
  BY <1>1
<1>3. ASSUME NEW net \in Networks PROVE [wallet EXCEPT !.network = net] \in Wallets
  BY <1>1
<1>4. Idle \in Actions /\ Idle.signer = NoAccount
  BY DEF Idle, Actions, Steps, MaybeAccounts
<1>5. ASSUME NEW step \in Steps, At(step),
             action.at \in {"submit"} => step = "reload",
             action.at # "reload"
      PROVE  /\ action' \in Actions
             /\ action'.signer # NoAccount => action'.at \in {"submit", "reload"}
  <2>1. /\ action' \in Actions /\ action'.at = step /\ action'.signer = action.signer
    BY <1>5 DEF At, DashWalletInv, Actions
  <2> QED
    BY <1>5, <2>1 DEF DashWalletInv
<1>6. CASE SelectWalletProvider \/ CheckAccount \/ \E who \in asking : AddressRefused(who)
  BY <1>6 DEF SelectWalletProvider, CheckAccount, AddressRefused, DashWalletInv
<1>7. ASSUME NEW who \in asking, NEW net \in Networks, AddressGiven(who, net)
      PROVE  DashWalletInv'
  <2>1. wallet' \in Wallets
    <3>1. \E n \in Networks : wallet' = [publicKey |-> kit, network |-> n]
      BY <1>1, <1>7 DEF AddressGiven
    <3> QED
      BY <1>1, <3>1
  <2> QED
    BY <1>1, <1>7, <2>1 DEF AddressGiven, DashWalletInv
<1>8. ASSUME NEW other \in Accounts, WalletSwitches(other) PROVE DashWalletInv'
  BY <1>8 DEF WalletSwitches, walletState, DashWalletInv
<1>9. CASE StateUpdated
  BY <1>1, <1>2, <1>9 DEF StateUpdated, DashWalletInv
<1>10. CASE AccountChanged
  BY <1>1, <1>2, <1>10 DEF AccountChanged, DashWalletInv
<1>11. CASE AccountChecked
  BY <1>1, <1>2, <1>11 DEF AccountChecked, DashWalletInv
<1>12. CASE DisconnectWallet
  <2>1. Disconnected \in Wallets
    BY <1>1 DEF Disconnected
  <2> QED
    BY <1>1, <1>12, <2>1 DEF DisconnectWallet, DashWalletInv
<1>13. ASSUME NEW net \in Networks, NetworkChanged(net) PROVE DashWalletInv'
  BY <1>3, <1>13 DEF NetworkChanged, DashWalletInv
<1>14. ASSUME UNCHANGED <<kit, walletState>>, action' \in Actions,
              action'.signer # NoAccount => action'.at \in {"submit", "reload"},
              {sessionToken', authPromise'} \subseteq MaybeAccounts
       PROVE  DashWalletInv'
  BY <1>14 DEF walletState, DashWalletInv
<1>15. CASE BeginAction
  <2>1. action.at = "idle" /\ \E step \in {"session", "server"} : At(step)
    BY <1>15 DEF BeginAction, Idle
  <2> QED
    BY <1>5, <1>14, <1>15, <2>1 DEF BeginAction, DashWalletInv, Steps
<1>16. CASE ServerAnswers \/ SessionGiven \/ Confirmed
            \/ \E succeeds \in BOOLEAN : Simulated(succeeds)
  BY <1>1, <1>5, <1>14, <1>16
     DEF ServerAnswers, SessionGiven, Confirmed, Simulated, DashWalletInv, Steps
<1>17. CASE AskSession
  <2>1. wallet.publicKey \in MaybeAccounts
    BY <1>1
  <2> QED
    BY <1>5, <1>14, <1>17, <2>1 DEF AskSession, DashWalletInv, Steps
<1>18. CASE SessionRefused \/ MainnetRefused \/ Closed \/ ActionFailsOrEnds
  BY <1>1, <1>4, <1>14, <1>18
     DEF SessionRefused, MainnetRefused, Closed, ActionFailsOrEnds, ActionEnds, DashWalletInv
<1>19. CASE AskBuild
  <2>1. /\ wallet.publicKey \in MaybeAccounts /\ action \in Actions
        /\ action.signer = NoAccount
    BY <1>1, <1>19 DEF AskBuild, DashWalletInv
  <2>2. action' \in Actions /\ action'.signer = NoAccount
    BY <1>19, <2>1 DEF AskBuild, Actions, Steps
  <2> QED
    BY <1>14, <1>19, <2>2 DEF AskBuild, DashWalletInv
<1>20. CASE Signed
  <2>1. action' \in Actions /\ action'.at = "submit"
    BY <1>1, <1>20 DEF Signed, DashWalletInv, Actions, Steps
  <2> QED
    BY <1>14, <1>20, <2>1 DEF Signed, DashWalletInv
<1>21. CASE UNCHANGED dashWalletVars
  BY <1>21 DEF dashWalletVars, DashWalletInv
<1> QED
  BY <1>6, <1>7, <1>8, <1>9, <1>10, <1>11, <1>12, <1>13, <1>15, <1>16, <1>17, <1>18, <1>19,
     <1>20, <1>21 DEF DashWalletNext

LEMMA DashWalletStaysTyped == DashWalletSpec => []DashWalletTypeOK
<1>1. DashWalletStarts => DashWalletInv
  <2> SUFFICES ASSUME NEW a \in Accounts, NEW known \in BOOLEAN, DashWalletStart(a, known)
               PROVE  DashWalletInv
    BY DEF DashWalletStarts
  <2>1. /\ Idle \in Actions /\ Idle.signer = NoAccount
        /\ Disconnected \in [publicKey : MaybeAccounts, network : Networks]
    BY DEF Idle, Disconnected, Actions, Steps, MaybeAccounts, Networks
  <2> QED
    BY <2>1 DEF DashWalletStart, DashWalletInv, MaybeAccounts
<1>2. DashWalletInv => DashWalletTypeOK
  BY DEF DashWalletInv, DashWalletTypeOK, Actions, MaybeAccounts
<1> QED
  BY <1>1, <1>2, DashWalletMoves, PTL DEF DashWalletSpec

----------------------------------------------------------------------------
(* The calls of the SDK against the entry points of the contracts. *)

CallsSpec == CallsInit /\ [][CallsNext]_callsVars

(***************************************************************************)
(* The calls that fit, each at the entry point it names.                   *)
(***************************************************************************)
LEMMA CreatingFits ==
    /\ Arrives("create_job", JobTerms \o <<"u64", "u32">>)
    /\ Arrives("allowance", <<"Address", "Address">>)
    /\ Arrives("approve", <<"Address", "Address", "i128", "u32">>)
BY DEF Arrives, Takes, CommerceEntryPoints, TokenEntryPoints

LEMMA WorkingFits ==
    /\ Arrives("submit", <<"Address", "u64", "String", "BytesN<32>">>)
    /\ Arrives("complete", CompleteArgs(TRUE))
    /\ \A fn \in {"approve_job", "cancel", "dispute", "claim_refund", "claim_expired",
                   "cancel_uncompleted_milestones", "force_close", "deregister"} :
         Arrives(fn, ById)
    /\ Arrives("approve_milestone", <<"Address", "u64", "u32">>)
    /\ Arrives("open_channel", <<"Address", "Address", "Address", "i128", "BytesN<32>">>)
BY DEF Arrives, Takes, CommerceEntryPoints, IdentityEntryPoints, CompleteArgs, ById

LEMMA ReadingFits ==
    /\ Arrives("set_multi_eval_threshold", <<"Address", "i128">>)
    /\ Arrives("set_treasury", <<"Address", "Address">>)
    /\ Arrives("set_fee_bps", <<"Address", "u32">>)
    /\ \A fn \in {"get_job", "get_milestones", "get_evaluator_progress", "get_agent"} :
         Arrives(fn, <<"u64">>)
    /\ \A fn \in {"jobs_by_provider", "jobs_by_client"} : Arrives(fn, Page)
    /\ \A fn \in {"job_count", "fee_bps", "registered_count"} : Arrives(fn, <<>>)
    /\ Arrives("balance", <<"Address">>)
BY DEF Arrives, Takes, CommerceEntryPoints, IdentityEntryPoints, TokenEntryPoints, Page

LEMMA IdentityFits ==
    /\ Arrives("register", <<"Address", "String">>)
    /\ Arrives("update_uri", <<"Address", "u64", "String">>)
    /\ Arrives("update_owner", <<"Address", "u64", "Address">>)
    /\ Arrives("add_delegate", <<"Address", "u64", "Address", "u64", "u32">>)
    /\ Arrives("revoke_delegate", <<"Address", "u64", "Address">>)
    /\ Arrives("get_delegate", <<"u64", "Address">>)
    /\ Arrives("check_delegate", <<"u64", "Address", "u32">>)
    /\ Arrives("agent_of", <<"Address">>)
BY DEF Arrives, Takes, IdentityEntryPoints

(***************************************************************************)
(* Those that fit none.                                                    *)
(***************************************************************************)
LEMMA MisfitsFitNone ==
    /\ ~Arrives("create_job_multi_eval", <<"Address", "Address", "Vec<Address>", "u32", "Address",
                                           "i128", "String">>)
    /\ ~Arrives("create_job", JobTerms)
    /\ ~Arrives("submit_milestone", <<"Address", "u64", "u32", "String", "BytesN<32>">>)
    /\ ~Arrives("complete", CompleteArgs(FALSE))
    /\ ~Arrives("get_badges", <<"u64">>)
    /\ ~Arrives("batch_create_jobs", <<"Address", "Vec<Map<String>>">>)
    /\ ~Arrives("create_milestone_job", JobTerms \o <<"Vec<Map<String>>">>)
    /\ ~Arrives("close_channel", <<"Address", "u64", StringMap, "BytesN<64>">>)
BY DEF Arrives, Takes, CommerceEntryPoints, IdentityEntryPoints, TokenEntryPoints, JobTerms,
       CompleteArgs, ById, StringMap

CallsInv == CallsTypeOK /\ CallsReachContract

LEMMA CallIsAsItFits ==
    ASSUME CallsInv, envelope' \in {envelope, "none", "prepared"},
           NEW method, NEW sent \in BOOLEAN, NEW fn, NEW args,
           sdkCall' = [method |-> method, sent |-> sent, fn |-> fn, args |-> args],
           IF method \in Misfits THEN ~Arrives(fn, args) ELSE sent = TRUE => Arrives(fn, args)
    PROVE  CallsInv'
BY DEF CallsInv, CallsTypeOK, CallsReachContract

LEMMA CallsStep == CallsInv /\ [CallsNext]_callsVars => CallsInv'
<1> SUFFICES ASSUME CallsInv, [CallsNext]_callsVars PROVE CallsInv'
  OBVIOUS
<1> USE CallIsAsItFits DEF Sends, Calling, Prepare, Misfits
<1>1. CASE createJob
  <2>1. PICK budget \in SomeAmounts :
          Sends("createJob", ValidAmount(budget), "create_job", JobTerms \o <<"u64", "u32">>)
    BY <1>1 DEF createJob
  <2> DEFINE sent == ValidAmount(budget)
  <2>2. sent \in BOOLEAN
    BY DEF ValidAmount
  <2>3. Sends("createJob", sent, "create_job", JobTerms \o <<"u64", "u32">>)
    BY <2>1
  <2> HIDE DEF sent
  <2> QED
    BY <2>2, <2>3, CreatingFits
<1>2. CASE batchCreateJobs
  BY <1>2, CreatingFits, MisfitsFitNone DEF batchCreateJobs
<1>3. CASE createJobMultiEval
  BY <1>3, CreatingFits, MisfitsFitNone DEF createJobMultiEval
<1>4. CASE estimateCreateJobFee
  BY <1>4, CreatingFits, MisfitsFitNone DEF estimateCreateJobFee
<1>5. CASE createMilestoneJob
  BY <1>5, CreatingFits, MisfitsFitNone DEF createMilestoneJob
<1>6. CASE allowanceOf
  BY <1>6, CreatingFits, MisfitsFitNone DEF allowanceOf
<1>7. CASE approve
  BY <1>7, CreatingFits, MisfitsFitNone DEF approve
<1>8. CASE submit
  <2>1. PICK length \in {31, 32} :
          Sends("submit", (length = 32), "submit", <<"Address", "u64", "String", "BytesN<32>">>)
    BY <1>8 DEF submit
  <2> DEFINE sent == (length = 32)
  <2>2. sent \in BOOLEAN
    BY DEF ValidAmount
  <2>3. Sends("submit", sent, "submit", <<"Address", "u64", "String", "BytesN<32>">>)
    BY <2>1
  <2> HIDE DEF sent
  <2> QED
    BY <2>2, <2>3, WorkingFits
<1>9. CASE complete
  BY <1>9, WorkingFits, MisfitsFitNone DEF complete
<1>10. CASE approveJob
  BY <1>10, WorkingFits, MisfitsFitNone DEF approveJob
<1>11. CASE cancel
  BY <1>11, WorkingFits, MisfitsFitNone DEF cancel
<1>12. CASE dispute
  BY <1>12, WorkingFits, MisfitsFitNone DEF dispute
<1>13. CASE claimRefund
  BY <1>13, WorkingFits, MisfitsFitNone DEF claimRefund
<1>14. CASE claimExpired
  BY <1>14, WorkingFits, MisfitsFitNone DEF claimExpired
<1>15. CASE submitMilestone
  BY <1>15, WorkingFits, MisfitsFitNone DEF submitMilestone
<1>16. CASE approveMilestone
  BY <1>16, WorkingFits, MisfitsFitNone DEF approveMilestone
<1>17. CASE cancelUncompletedMilestones
  BY <1>17, WorkingFits, MisfitsFitNone DEF cancelUncompletedMilestones
<1>18. CASE openChannel
  <2>1. PICK deposit \in SomeAmounts :
          Sends("openChannel", ValidAmount(deposit), "open_channel",
                <<"Address", "Address", "Address", "i128", "BytesN<32>">>)
    BY <1>18 DEF openChannel
  <2> DEFINE sent == ValidAmount(deposit)
  <2>2. sent \in BOOLEAN
    BY DEF ValidAmount
  <2>3. Sends("openChannel", sent, "open_channel",
              <<"Address", "Address", "Address", "i128", "BytesN<32>">>)
    BY <2>1
  <2> HIDE DEF sent
  <2> QED
    BY <2>2, <2>3, WorkingFits
<1>19. CASE closeChannel
  BY <1>19, WorkingFits, MisfitsFitNone DEF closeChannel
<1>20. CASE forceClose
  BY <1>20, WorkingFits, MisfitsFitNone DEF forceClose
<1>21. CASE deregister
  BY <1>21, WorkingFits, MisfitsFitNone DEF deregister
<1>22. CASE setMultiEvalThreshold
  BY <1>22, ReadingFits, MisfitsFitNone DEF setMultiEvalThreshold
<1>23. CASE setTreasury
  BY <1>23, ReadingFits, MisfitsFitNone DEF setTreasury
<1>24. CASE setFeeBps
  BY <1>24, ReadingFits, MisfitsFitNone DEF setFeeBps
<1>25. CASE getJob
  BY <1>25, ReadingFits, MisfitsFitNone DEF getJob
<1>26. CASE getMilestones
  BY <1>26, ReadingFits, MisfitsFitNone DEF getMilestones
<1>27. CASE getEvaluatorProgress
  BY <1>27, ReadingFits, MisfitsFitNone DEF getEvaluatorProgress
<1>28. CASE jobsByProvider
  BY <1>28, ReadingFits, MisfitsFitNone DEF jobsByProvider
<1>29. CASE getJobsByClient
  BY <1>29, ReadingFits, MisfitsFitNone DEF getJobsByClient
<1>30. CASE jobCount
  BY <1>30, ReadingFits, MisfitsFitNone DEF jobCount
<1>31. CASE feeBps
  BY <1>31, ReadingFits, MisfitsFitNone DEF feeBps
<1>32. CASE getBalance
  BY <1>32, ReadingFits, MisfitsFitNone DEF getBalance
<1>33. CASE getAgent
  BY <1>33, ReadingFits, MisfitsFitNone DEF getAgent
<1>34. CASE balanceOf
  BY <1>34, ReadingFits, MisfitsFitNone DEF balanceOf
<1>35. CASE registeredCount
  BY <1>35, ReadingFits, MisfitsFitNone DEF registeredCount
<1>36. CASE getBadges
  BY <1>36, ReadingFits, MisfitsFitNone DEF getBadges
<1>37. CASE register
  BY <1>37, IdentityFits DEF register
<1>38. CASE updateUri
  BY <1>38, IdentityFits DEF updateUri
<1>39. CASE updateOwner
  BY <1>39, IdentityFits DEF updateOwner
<1>40. CASE addDelegate
  BY <1>40, IdentityFits DEF addDelegate
<1>41. CASE revokeDelegate
  BY <1>41, IdentityFits DEF revokeDelegate
<1>42. CASE getDelegate
  BY <1>42, IdentityFits DEF getDelegate
<1>43. CASE checkDelegate
  BY <1>43, IdentityFits DEF checkDelegate
<1>44. CASE agentOf
  BY <1>44, IdentityFits DEF agentOf
<1>45. CASE prepareCreateJob
  <2>1. PICK budget \in SomeAmounts :
          Prepare("prepareCreateJob", ValidAmount(budget), "create_job", JobTerms)
    BY <1>45 DEF prepareCreateJob
  <2> DEFINE sent == ValidAmount(budget)
  <2>2. sent \in BOOLEAN
    BY DEF ValidAmount
  <2>3. Prepare("prepareCreateJob", sent, "create_job", JobTerms)
    BY <2>1
  <2> HIDE DEF sent
  <2> QED
    BY <2>2, <2>3, MisfitsFitNone
<1>46. CASE prepareSubmit
  BY <1>46, CreatingFits, WorkingFits, MisfitsFitNone DEF prepareSubmit
<1>47. CASE prepareComplete
  BY <1>47, CreatingFits, WorkingFits, MisfitsFitNone DEF prepareComplete
<1>48. CASE submitSignedXdr \/ EnvelopeIncluded \/ PollEnvelope \/ UNCHANGED callsVars
  BY <1>48 DEF submitSignedXdr, EnvelopeIncluded, PollEnvelope, callsVars, CallsInv,
               CallsTypeOK, CallsReachContract
<1> QED
  BY <1>1, <1>2, <1>3, <1>4, <1>5, <1>6, <1>7, <1>8, <1>9, <1>10, <1>11, <1>12, <1>13, <1>14,
     <1>15, <1>16, <1>17, <1>18, <1>19, <1>20, <1>21, <1>22, <1>23, <1>24, <1>25, <1>26, <1>27,
     <1>28, <1>29, <1>30, <1>31, <1>32, <1>33, <1>34, <1>35, <1>36, <1>37, <1>38, <1>39, <1>40,
     <1>41, <1>42, <1>43, <1>44, <1>45, <1>46, <1>47, <1>48
  DEF CallsNext, CommerceCalls, IdentityMethods, EnvelopeCalls, createJobAndWait,
      createJobWithApproval, approveAndCreateJob, getAgentByOwner, listAgents

LEMMA CallsStayFit == CallsSpec => [](CallsTypeOK /\ CallsReachContract)
<1>1. CallsInit => CallsInv
  BY DEF CallsInit, NoSdkCall, CallsInv, CallsTypeOK, CallsReachContract, Misfits
<1> QED
  BY <1>1, CallsStep, PTL DEF CallsSpec, CallsInv

----------------------------------------------------------------------------
(* The events of the contracts, decoded. *)

DecodingSpec == DecodingInit /\ [][DecodingNext]_decodingVars

Names == Identity \cup Commerce

LEMMA NamesAre ==
    Names = {"Registered", "UriUpdated", "AgentDeregistered", "OwnerTransferred", "BadgeIssued",
             "BadgeRevoked", "JobCreated", "JobSubmitted", "JobCompleted", "JobCancelled",
             "JobDisputed", "JobRefunded", "JobExpired", "BatchJobsCreated"}
BY DEF Names, Identity, Commerce, IdentityFields, CommerceFields

FieldLists ==
    {<<"agent_id">>, <<"new_owner", "agent_id">>, <<"agent_id", "badge_id">>, <<"job_id">>,
     <<"job_id", "budget">>, <<"job_id", "payout", "fee", "timestamp">>,
     <<"job_id", "timestamp">>, <<"batch_id", "job_ids", "budget">>}

FieldNames ==
    {"agent_id", "new_owner", "badge_id", "job_id", "budget", "payout", "fee", "timestamp",
     "batch_id", "job_ids"}

LEMMA FieldsAreListed == ASSUME NEW n \in Names PROVE Fields(n) \in FieldLists
<1>1. CASE n \in Identity
  <2>1. n \in {"Registered", "UriUpdated", "AgentDeregistered", "OwnerTransferred", "BadgeIssued",
             "BadgeRevoked"}
    BY <1>1 DEF Identity, IdentityFields
  <2> QED
    BY <1>1, <2>1 DEF Fields, IdentityFields, decodeRegisteredEvent, decodeUriUpdatedEvent,
       decodeAgentDeregisteredEvent, decodeOwnerTransferredEvent, decodeBadgeIssuedEvent,
       decodeBadgeRevokedEvent, FieldLists
<1>2. CASE n \notin Identity
  <2>1. n \in {"JobCreated", "JobSubmitted", "JobCompleted", "JobCancelled", "JobDisputed",
             "JobRefunded", "JobExpired", "BatchJobsCreated"}
    BY <1>2 DEF Names, Commerce, CommerceFields
  <2> QED
    BY <1>2, <2>1 DEF Fields, CommerceFields, decodeJobCreatedEvent, decodeJobSubmittedEvent,
       decodeJobCompletedEvent, decodeJobCancelledEvent, decodeJobDisputedEvent,
       decodeJobRefundedEvent, decodeJobExpiredEvent, decodeBatchJobsCreatedEvent, FieldLists
<1> QED
  BY <1>1, <1>2

LEMMA FieldsAreLists ==
    ASSUME NEW n \in Names
    PROVE  /\ Fields(n) \in Seq(FieldNames) /\ Len(Fields(n)) \in 1 .. 4
           /\ DOMAIN Fields(n) = 1 .. Len(Fields(n))
<1>1. ASSUME NEW list \in FieldLists PROVE list \in Seq(FieldNames) /\ Len(list) \in 1 .. 4
  <2> USE DEF FieldNames
  <2>1. CASE list = <<"agent_id">>
    BY <2>1
  <2>2. CASE list = <<"job_id">>
    BY <2>2
  <2>3. CASE list = <<"new_owner", "agent_id">>
    BY <2>3
  <2>4. CASE list = <<"agent_id", "badge_id">>
    BY <2>4
  <2>5. CASE list = <<"job_id", "budget">>
    BY <2>5
  <2>6. CASE list = <<"job_id", "timestamp">>
    BY <2>6
  <2>7. CASE list = <<"batch_id", "job_ids", "budget">>
    BY <2>7
  <2>8. CASE list = <<"job_id", "payout", "fee", "timestamp">>
    BY <2>8
  <2> QED
    BY <2>1, <2>2, <2>3, <2>4, <2>5, <2>6, <2>7, <2>8 DEF FieldLists
<1>2. Fields(n) \in Seq(FieldNames) /\ Len(Fields(n)) \in 1 .. 4
  BY <1>1, FieldsAreListed
<1> QED
  BY <1>2, LenProperties

(***************************************************************************)
(* The sequences the topics come in.                                       *)
(***************************************************************************)
LEMMA FieldAdded == ASSUME NEW a, NEW b PROVE <<a>> \o <<b>> = <<a, b>>
<1> DEFINE all == {a, b}
<1>1. /\ <<a>> \in Seq(all) /\ <<b>> \in Seq(all) /\ <<a, b>> \in Seq(all)
      /\ Len(<<a>>) = 1 /\ Len(<<b>>) = 1 /\ Len(<<a, b>>) = 2
  OBVIOUS
<1> HIDE DEF all
<1>2. /\ <<a>> \o <<b>> \in Seq(all) /\ Len(<<a>> \o <<b>>) = 2
      /\ \A i \in 1 .. 2 : (<<a>> \o <<b>>)[i] = <<a, b>>[i]
  BY <1>1, ConcatProperties
<1> QED
  BY <1>1, <1>2, SeqEqual

LEMMA ThirdTopic == ASSUME NEW a, NEW b, NEW c PROVE SubSeq(<<a, b, c>>, 3, 3) = <<c>>
<1>1. /\ SubSeq(<<a, b, c>>, 3, 3) \in Seq({a, b, c}) /\ Len(SubSeq(<<a, b, c>>, 3, 3)) = 1
      /\ \A i \in 1 .. 1 : SubSeq(<<a, b, c>>, 3, 3)[i] = <<c>>[i]
  BY SubSeqProperties
<1>2. <<c>> \in Seq({a, b, c}) /\ Len(<<c>>) = 1
  OBVIOUS
<1> QED
  BY <1>1, <1>2, SeqEqual

(***************************************************************************)
(* The events as the contracts publish them: their names are no types of   *)
(* the SDK, and the header is read as it was published.                    *)
(***************************************************************************)
LEMMA PublishedNames ==
    DOMAIN Published = Names \cup {"Paused"}
BY NamesAre DEF Published

LEMMA WireIsNoType == ASSUME NEW n \in DOMAIN Published PROVE Published[n].wire \notin Names
<1>1. n \in {"Registered", "UriUpdated", "AgentDeregistered", "OwnerTransferred", "BadgeIssued",
             "BadgeRevoked", "JobCreated", "JobSubmitted", "JobCompleted", "JobCancelled",
             "JobDisputed", "JobRefunded", "JobExpired", "BatchJobsCreated", "Paused"}
  BY DEF Published
<1>2. Published[n].wire \in
        {"registered", "uri_updated", "agent_deregistered", "owner_transferred", "badge_issued",
         "badge_revoked", "job_created", "job_submitted", "job_completed", "job_cancelled",
         "job_disputed", "job_refunded", "job_expired", "batch_jobs_created", "paused"}
  BY <1>1 DEF Published
<1> QED
  BY <1>2, NamesAre

LEMMA ContractEventIs ==
    ASSUME NEW e \in ContractEvents
    PROVE  /\ e.topics[1] \notin Names
           /\ parseEventTopicHeader(e)
                = [name |-> e.topics[1], version |-> e.version, actor |-> "actor"]
<1>1. PICK n \in DOMAIN Published :
        e = [name |-> n, version |-> IF n \in Unversioned THEN "v1" ELSE "v2",
             topics |-> EventTopics(n), form |-> "map", body |-> Published[n].fields]
  BY DEF ContractEvents
<1> DEFINE w == Published[n].wire
<1>2. w \notin Names
  BY WireIsNoType
<1> HIDE DEF w
<1>3. CASE n \in Unversioned
  <2>1. EventTopics(n) = <<w, "actor">>
    BY <1>3 DEF EventTopics, w
  <2> QED
    BY <1>1, <1>2, <1>3, <2>1 DEF parseEventTopicHeader
<1>4. CASE n \notin Unversioned
  <2>1. EventTopics(n) = <<w, "v2", "actor">>
    BY <1>4 DEF EventTopics, w
  <2> QED
    BY <1>1, <1>2, <1>4, <2>1 DEF parseEventTopicHeader
<1> QED
  BY <1>3, <1>4

(***************************************************************************)
(* Where a field is looked up, its value is.                               *)
(***************************************************************************)
LEMMA LookedUpIsThere ==
    ASSUME NEW e, NEW list \in Seq(FieldNames), NEW k \in 1 .. Len(list),
           e.form \in {"map", "tuple", "value"}, e.form = "value" => Len(list) = 1,
           \/ e.form = "map"
           \/ e.body = list /\ (e.name = "JobCompleted" => Len(list) < 5)
           \/ /\ e.name = "JobCompleted" /\ list = <<"job_id", "payout", "fee", "timestamp">>
              /\ e.form = "tuple"
              /\ e.body = <<"job_id", "provider", "payout", "fee", "timestamp">>
    PROVE  Lookup(e, list, k) = list[k]
<1>1. Len(list) \in Nat
  BY LenProperties
<1>2. CASE e.form = "map"
  BY <1>2 DEF Lookup
<1>3. CASE e.form = "tuple"
  <2>1. Lookup(e, list, k) = e.body[Position(e, k)]
    BY <1>3 DEF Lookup
  <2>2. CASE e.body = list /\ (e.name = "JobCompleted" => Len(list) < 5)
    BY <1>1, <2>1, <2>2 DEF Position
  <2>3. CASE /\ e.name = "JobCompleted" /\ list = <<"job_id", "payout", "fee", "timestamp">>
             /\ e.body = <<"job_id", "provider", "payout", "fee", "timestamp">>
    BY <2>1, <2>3 DEF Position
  <2> QED
    BY <1>3, <2>2, <2>3
<1>4. CASE e.form = "value"
  <2>1. Lookup(e, list, k) = e.body[1]
    BY <1>4 DEF Lookup
  <2>2. Len(list) = 1
    BY <1>4
  <2>3. e.body = list
    BY <1>4, <2>2
  <2> QED
    BY <2>1, <2>2, <2>3
<1> QED
  BY <1>2, <1>3, <1>4

(***************************************************************************)
(* The events of the first layout.                                         *)
(***************************************************************************)
LEMMA FirstEventIs ==
    ASSUME NEW e \in FirstEvents
    PROVE  \/ \E n \in Names, f \in {"map", "tuple", "value"} :
                /\ e = FirstLayout(n, <<n, "actor">>, f, e.body)
                /\ \/ f = "map" /\ e.body = Published[n].fields
                   \/ f # "map" /\ e.body = Fields(n) /\ (f = "value" => Len(Fields(n)) = 1)
                   \/ /\ f = "tuple" /\ n = "JobCompleted"
                      /\ e.body = <<"job_id", "provider", "payout", "fee", "timestamp">>
           \/ \E f \in {"map", "tuple", "value"} :
                e = FirstLayout("OwnerTransferred",
                                <<"OwnerTransferred", "actor", "new_owner">>, f, <<"agent_id">>)
<1> DEFINE IsNamed(n, f) ==
      /\ e = FirstLayout(n, <<n, "actor">>, f, e.body)
      /\ \/ f = "map" /\ e.body = Published[n].fields
         \/ f # "map" /\ e.body = Fields(n) /\ (f = "value" => Len(Fields(n)) = 1)
         \/ /\ f = "tuple" /\ n = "JobCompleted"
            /\ e.body = <<"job_id", "provider", "payout", "fee", "timestamp">>
<1>1. CASE e \in {FirstLayout(n, <<n, "actor">>, "map", Published[n].fields) : n \in Names}
  <2>1. PICK n \in Names : e = FirstLayout(n, <<n, "actor">>, "map", Published[n].fields)
    BY <1>1
  <2>2. IsNamed(n, "map")
    BY <2>1 DEF FirstLayout
  <2> QED
    BY <2>2
<1>2. CASE e \in {FirstLayout(n, <<n, "actor">>, "tuple", Fields(n)) : n \in Names}
  <2>1. PICK n \in Names : e = FirstLayout(n, <<n, "actor">>, "tuple", Fields(n))
    BY <1>2
  <2>2. IsNamed(n, "tuple")
    BY <2>1 DEF FirstLayout
  <2> QED
    BY <2>2
<1>3. CASE e \in {FirstLayout(n, <<n, "actor">>, "value", Fields(n))
                    : n \in {m \in Names : Len(Fields(m)) = 1}}
  <2>1. PICK n \in Names : /\ Len(Fields(n)) = 1
                           /\ e = FirstLayout(n, <<n, "actor">>, "value", Fields(n))
    BY <1>3
  <2>2. IsNamed(n, "value")
    BY <2>1 DEF FirstLayout
  <2> QED
    BY <2>2
<1>4. CASE e = FirstLayout("JobCompleted", <<"JobCompleted", "actor">>, "tuple",
                           Published.JobCompleted.fields)
  <2>1. Published.JobCompleted.fields = <<"job_id", "provider", "payout", "fee", "timestamp">>
    BY DEF Published
  <2>2. IsNamed("JobCompleted", "tuple")
    BY <1>4, <2>1 DEF FirstLayout
  <2>3. "JobCompleted" \in Names
    BY NamesAre
  <2> QED
    BY <2>2, <2>3
<1>5. CASE e \in {FirstLayout("OwnerTransferred", <<"OwnerTransferred", "actor", "new_owner">>, f,
                              <<"agent_id">>) : f \in {"map", "tuple", "value"}}
  BY <1>5
<1> QED
  BY <1>1, <1>2, <1>3, <1>4, <1>5, Zenon DEF FirstEvents, Names

LEMMA HeaderIsTheEvents ==
    ASSUME NEW e \in Events
    PROVE  /\ parseEventTopicHeader(e)
                = [name |-> e.topics[1], version |-> e.version, actor |-> "actor"]
           /\ e \in FirstEvents => e.topics[1] = e.name
<1>1. CASE e \in ContractEvents /\ e \notin FirstEvents
  BY <1>1, ContractEventIs
<1>2. ASSUME NEW n \in Names, NEW f \in {"map", "tuple", "value"},
             e = FirstLayout(n, <<n, "actor">>, f, e.body)
      PROVE  /\ parseEventTopicHeader(e)
                  = [name |-> e.topics[1], version |-> e.version, actor |-> "actor"]
             /\ e.topics[1] = e.name
  <2>1. e.topics = <<n, "actor">> /\ e.version = "v1" /\ e.name = n
    BY <1>2 DEF FirstLayout
  <2>2. e.topics[1] = n /\ e.topics[2] = "actor" /\ "actor" # "v2"
    BY <2>1
  <2> QED
    BY <2>1, <2>2 DEF parseEventTopicHeader
<1>3. ASSUME NEW f \in {"map", "tuple", "value"},
             e = FirstLayout("OwnerTransferred", <<"OwnerTransferred", "actor", "new_owner">>, f,
                             <<"agent_id">>)
      PROVE  /\ parseEventTopicHeader(e)
                  = [name |-> e.topics[1], version |-> e.version, actor |-> "actor"]
             /\ e.topics[1] = e.name
  BY <1>3 DEF FirstLayout, parseEventTopicHeader
<1>4. CASE e \in FirstEvents
  BY <1>2, <1>3, <1>4, FirstEventIs
<1> QED
  BY <1>1, <1>4 DEF Events

(***************************************************************************)
(* What is decoded are the fields of the event's type, with their values.  *)
(***************************************************************************)
LEMMA DecodedIsEmitted ==
    ASSUME NEW e \in FirstEvents
    PROVE  \/ DecodeBody(e) = DecodeThrows
           \/ DecodeBody(e) = [type |-> e.name, actor |-> "actor", fields |-> Fields(e.name)]
<1>1. ASSUME NEW n \in Names, NEW f \in {"map", "tuple", "value"},
             e = FirstLayout(n, <<n, "actor">>, f, e.body),
             \/ f = "map" /\ e.body = Published[n].fields
             \/ f # "map" /\ e.body = Fields(n) /\ (f = "value" => Len(Fields(n)) = 1)
             \/ /\ f = "tuple" /\ n = "JobCompleted"
                /\ e.body = <<"job_id", "provider", "payout", "fee", "timestamp">>
      PROVE  \/ DecodeBody(e) = DecodeThrows
             \/ DecodeBody(e) = [type |-> e.name, actor |-> "actor", fields |-> Fields(e.name)]
  <2> DEFINE list == Fields(n)
  <2>1. e.name = n /\ e.form = f /\ e.topics = <<n, "actor">>
    BY <1>1 DEF FirstLayout
  <2>2. WantedFields(e) = list
    BY <2>1 DEF WantedFields
  <2>3. SubSeq(e.topics, 3, Len(e.topics)) = <<>> /\ e.topics[1] = n /\ e.topics[2] = "actor"
    BY <2>1
  <2>4. CASE Unreadable(e, list)
    BY <2>2, <2>4 DEF DecodeBody
  <2>5. CASE ~Unreadable(e, list)
    <3>1. list \in Seq(FieldNames) /\ Len(list) \in 1 .. 4 /\ DOMAIN list = 1 .. Len(list)
      BY FieldsAreLists
    <3>2. n = "JobCompleted" => list = <<"job_id", "payout", "fee", "timestamp">>
      BY DEF Fields, Identity, IdentityFields, CommerceFields, decodeJobCompletedEvent
    <3>3. \/ f = "map"
          \/ f # "map" /\ e.body = list /\ (f = "value" => Len(list) = 1)
          \/ /\ f = "tuple" /\ n = "JobCompleted"
             /\ e.body = <<"job_id", "provider", "payout", "fee", "timestamp">>
      BY <1>1
    <3> HIDE DEF list
    <3>4. f = "value" => Len(list) = 1
      BY <3>3
    <3>5. \/ e.form = "map"
          \/ e.body = list /\ (e.name = "JobCompleted" => Len(list) < 5)
          \/ /\ e.name = "JobCompleted" /\ list = <<"job_id", "payout", "fee", "timestamp">>
             /\ e.form = "tuple"
             /\ e.body = <<"job_id", "provider", "payout", "fee", "timestamp">>
      BY <2>1, <3>1, <3>2, <3>3
    <3>6. \A k \in 1 .. Len(list) : Lookup(e, list, k) = list[k]
      BY <2>1, <3>1, <3>4, <3>5, LookedUpIsThere
    <3>7. list \in [1 .. Len(list) -> FieldNames]
      BY <3>1, LenProperties
    <3>8. [k \in DOMAIN list |-> Lookup(e, list, k)] = list
      BY <3>1, <3>6, <3>7
    <3>9. <<>> \o list = list
      BY <3>1, ConcatEmptySeq
    <3>10. DecodeBody(e) = [type |-> n, actor |-> "actor", fields |-> <<>> \o list]
      BY <2>2, <2>3, <2>5, <3>8 DEF DecodeBody
    <3> QED
      BY <2>1, <3>9, <3>10 DEF list
  <2> QED
    BY <2>4, <2>5
<1>2. ASSUME NEW f \in {"map", "tuple", "value"},
             e = FirstLayout("OwnerTransferred", <<"OwnerTransferred", "actor", "new_owner">>, f,
                             <<"agent_id">>)
      PROVE  \/ DecodeBody(e) = DecodeThrows
             \/ DecodeBody(e) = [type |-> e.name, actor |-> "actor", fields |-> Fields(e.name)]
  <2> DEFINE got == [k \in DOMAIN <<"agent_id">> |-> Lookup(e, <<"agent_id">>, k)]
  <2>1. /\ e.name = "OwnerTransferred" /\ e.form = f /\ e.body = <<"agent_id">>
        /\ e.topics = <<"OwnerTransferred", "actor", "new_owner">>
    BY <1>2 DEF FirstLayout
  <2>2. WantedFields(e) = <<"agent_id">>
    BY <2>1 DEF WantedFields
  <2>3. Len(e.topics) = 3 /\ SubSeq(e.topics, 3, 3) = <<"new_owner">>
    BY <2>1, ThirdTopic
  <2>4. got = <<"agent_id">>
    BY <2>1 DEF Lookup, Position
  <2>5. Fields("OwnerTransferred") = <<"new_owner", "agent_id">>
    BY DEF Fields, Identity, IdentityFields, decodeOwnerTransferredEvent
  <2>6. <<"new_owner">> \o got = <<"new_owner", "agent_id">>
    BY <2>4, FieldAdded
  <2>7. e.topics[1] = "OwnerTransferred" /\ e.topics[2] = "actor"
    BY <2>1
  <2> HIDE DEF got
  <2>8. CASE Unreadable(e, <<"agent_id">>)
    BY <2>2, <2>8 DEF DecodeBody
  <2>9. CASE ~Unreadable(e, <<"agent_id">>)
    <3>1. SubSeq(e.topics, 3, Len(e.topics)) = <<"new_owner">>
      BY <2>3
    <3>2. DecodeBody(e)
            = [type |-> e.topics[1], actor |-> e.topics[2], fields |-> <<"new_owner">> \o got]
      BY <2>2, <2>9, <3>1 DEF DecodeBody, got
    <3> QED
      BY <2>1, <2>5, <2>6, <2>7, <3>2
  <2> QED
    BY <2>8, <2>9
<1> QED
  BY <1>1, <1>2, FirstEventIs

(***************************************************************************)
(* What the stream of a job sends on is of its type and the job's.         *)
(***************************************************************************)
LEMMA SentIsTheJobs ==
    ASSUME NEW e \in Events, e.topics[1] \in JobEventTypes, eventJobId(e) # NotAnId
    PROVE  e \in FirstEvents /\ e.topics[1] = e.name /\ eventJobId(e) = "job_id"
<1>1. JobEventTypes \subseteq Names
  BY NamesAre DEF JobEventTypes
<1>2. e \in FirstEvents
  BY <1>1, ContractEventIs DEF Events
<1>3. e.topics[1] = e.name
  BY <1>2, HeaderIsTheEvents
<1>4. CASE e.form = "map"
  BY <1>2, <1>3, <1>4 DEF eventJobId
<1>5. ASSUME NEW n \in Names, NEW f \in {"map", "tuple", "value"}, f # "map",
             e = FirstLayout(n, <<n, "actor">>, f, e.body),
             \/ e.body = Fields(n)
             \/ /\ n = "JobCompleted"
                /\ e.body = <<"job_id", "provider", "payout", "fee", "timestamp">>
      PROVE  eventJobId(e) = "job_id"
  <2>1. e.name = n /\ e.form = f
    BY <1>5 DEF FirstLayout
  <2>2. n \in JobEventTypes
    BY <1>3, <2>1
  <2>3. Fields(n)[1] = "job_id"
    BY <2>2 DEF JobEventTypes, Fields, Identity, IdentityFields, CommerceFields,
       decodeJobSubmittedEvent, decodeJobCompletedEvent, decodeJobCancelledEvent,
       decodeJobDisputedEvent
  <2>4. e.body[1] = "job_id"
    BY <1>5, <2>3
  <2> QED
    BY <1>5, <2>1, <2>4 DEF eventJobId
<1>6. ASSUME NEW f \in {"map", "tuple", "value"},
             e = FirstLayout("OwnerTransferred", <<"OwnerTransferred", "actor", "new_owner">>, f,
                             <<"agent_id">>)
      PROVE  FALSE
  <2>1. e.name = "OwnerTransferred"
    BY <1>6 DEF FirstLayout
  <2> QED
    BY <1>3, <2>1 DEF JobEventTypes
<1>7. CASE e.form # "map"
  <2>1. ASSUME NEW n \in Names, NEW f \in {"map", "tuple", "value"},
               e = FirstLayout(n, <<n, "actor">>, f, e.body)
        PROVE  e.form = f
    BY <2>1 DEF FirstLayout
  <2>2. CASE \E f \in {"map", "tuple", "value"} :
               e = FirstLayout("OwnerTransferred",
                               <<"OwnerTransferred", "actor", "new_owner">>, f, <<"agent_id">>)
    BY <1>6, <2>2
  <2>3. ASSUME NEW n \in Names, NEW f \in {"map", "tuple", "value"},
               e = FirstLayout(n, <<n, "actor">>, f, e.body),
               \/ f = "map" /\ e.body = Published[n].fields
               \/ f # "map" /\ e.body = Fields(n) /\ (f = "value" => Len(Fields(n)) = 1)
               \/ /\ f = "tuple" /\ n = "JobCompleted"
                  /\ e.body = <<"job_id", "provider", "payout", "fee", "timestamp">>
        PROVE  eventJobId(e) = "job_id"
    <3>1. f # "map"
      BY <1>7, <2>1, <2>3
    <3>2. \/ e.body = Fields(n)
          \/ /\ n = "JobCompleted"
             /\ e.body = <<"job_id", "provider", "payout", "fee", "timestamp">>
      BY <2>3, <3>1
    <3> QED
      BY <1>5, <2>3, <3>1, <3>2
  <2> QED
    BY <1>2, <1>3, <2>2, <2>3, FirstEventIs
<1> QED
  BY <1>2, <1>3, <1>4, <1>7

DecodingInv ==
    /\ event \in Events
    /\ \/ header = NoHeader
       \/ header = [name |-> event.topics[1], version |-> event.version, actor |-> "actor"]
    /\ \/ decoded \in {Pending, DecodeThrows}
       \/ /\ event \in FirstEvents
          /\ decoded = [type |-> event.name, actor |-> "actor", fields |-> Fields(event.name)]
    /\ \/ followed.at \notin {"sent", "called"}
       \/ event \in FirstEvents /\ followed.type = event.name /\ followed.id = "job_id"
    /\ followed \in [at : {"server", "skipped", "sent", "called", "dropped"},
                    type : JobEventTypes \cup {""}, id : {"", "job_id"}]

LEMMA DecodingStep == DecodingInv /\ [DecodingNext]_decodingVars => DecodingInv'
<1> SUFFICES ASSUME DecodingInv, [DecodingNext]_decodingVars PROVE DecodingInv'
  OBVIOUS
<1> USE DEF DecodingInv
<1>1. event.topics[1] \in Names => event \in FirstEvents
  BY ContractEventIs DEF Events
<1>2. CASE DecodeIdentityEvent
  BY <1>1, <1>2, DecodedIsEmitted DEF DecodeIdentityEvent, Names
<1>3. CASE DecodeCommerceEvent
  BY <1>1, <1>3, DecodedIsEmitted DEF DecodeCommerceEvent, Names
<1>4. CASE StoreEvent
  <2>1. event' = event /\ decoded' = decoded /\ followed' = followed
    BY <1>4 DEF StoreEvent
  <2>2. header' = [name |-> event.topics[1], version |-> event.version, actor |-> "actor"]
    BY <1>4, HeaderIsTheEvents DEF StoreEvent
  <2> QED
    BY <2>1, <2>2
<1>5. CASE MatchJobEvent
  <2>1. event' = event /\ decoded' = decoded /\ header' = header /\ header # NoHeader
    BY <1>5 DEF MatchJobEvent
  <2>2. CASE followed' = [Unfollowed EXCEPT !.at = "skipped"]
    BY <2>1, <2>2 DEF Unfollowed
  <2>3. header.name = event.topics[1]
    <3>1. header = [name |-> event.topics[1], version |-> event.version, actor |-> "actor"]
      BY <2>1, Zenon
    <3> HIDE DEF DecodingInv
    <3> QED
      BY <3>1
  <2>4. ASSUME header.name \in JobEventTypes, eventJobId(event) # NotAnId,
               followed' = [at |-> "sent", type |-> header.name, id |-> eventJobId(event)]
        PROVE  DecodingInv'
    <3>1. event \in FirstEvents /\ header.name = event.name /\ eventJobId(event) = "job_id"
      BY <2>3, <2>4, SentIsTheJobs
    <3>2. followed' = [at |-> "sent", type |-> header.name, id |-> "job_id"]
      BY <2>4, <3>1
    <3> HIDE DEF DecodingInv
    <3>3. followed'.at = "sent" /\ followed'.type = event.name /\ followed'.id = "job_id"
      BY <3>1, <3>2
    <3>4. PICK t \in JobEventTypes \cup {""} : t = header.name
      BY <2>4
    <3>5. [at |-> "sent", type |-> t, id |-> "job_id"]
            \in [at : {"server", "skipped", "sent", "called", "dropped"},
                 type : JobEventTypes \cup {""}, id : {"", "job_id"}]
      OBVIOUS
    <3> QED
      BY <2>1, <3>1, <3>2, <3>3, <3>4, <3>5, Zenon DEF DecodingInv
  <2> QED
    BY <1>5, <2>2, <2>4 DEF MatchJobEvent
<1>6. CASE SubscribedCallback
  <2>1. followed.at = "sent" /\ event' = event /\ decoded' = decoded /\ header' = header
    BY <1>6 DEF SubscribedCallback
  <2>2. PICK at \in {"called", "dropped"} : followed' = [followed EXCEPT !.at = at]
    BY <1>6 DEF SubscribedCallback
  <2>3. followed' \in [at : {"server", "skipped", "sent", "called", "dropped"},
                      type : JobEventTypes \cup {""}, id : {"", "job_id"}]
        /\ followed'.type = followed.type /\ followed'.id = followed.id
    BY <2>2
  <2> QED
    BY <2>1, <2>3
<1>7. CASE UNCHANGED decodingVars
  BY <1>7 DEF decodingVars
<1> QED
  BY <1>2, <1>3, <1>4, <1>5, <1>6, <1>7 DEF DecodingNext

LEMMA DecodingStaysTrue == DecodingSpec => []DecodedAsEmitted
<1>1. DecodingInit => DecodingInv
  <2> SUFFICES ASSUME DecodingInit PROVE DecodingInv
    OBVIOUS
  <2>1. event \in Events /\ header = NoHeader /\ decoded = Pending /\ followed = Unfollowed
    BY DEF DecodingInit, DecodingStart
  <2>2. Unfollowed \in [at : {"server", "skipped", "sent", "called", "dropped"},
                       type : JobEventTypes \cup {""}, id : {"", "job_id"}]
        /\ Unfollowed.at = "server"
    BY DEF Unfollowed
  <2> QED
    BY <2>1, <2>2 DEF DecodingInv
<1>2. DecodingInv => DecodedAsEmitted
  <2> SUFFICES ASSUME DecodingInv PROVE DecodedAsEmitted
    OBVIOUS
  <2>1. header # NoHeader =>
          header = [name |-> event.topics[1], version |-> event.version, actor |-> "actor"]
    BY Zenon DEF DecodingInv
  <2>2. decoded \notin {Pending, DecodeThrows} =>
          /\ event \in FirstEvents
          /\ decoded = [type |-> event.name, actor |-> "actor", fields |-> Fields(event.name)]
    BY Zenon DEF DecodingInv
  <2>3. followed.at = "called" =>
          event \in FirstEvents /\ followed.type = event.name /\ followed.id = "job_id"
    BY DEF DecodingInv
  <2> QED
    BY <2>1, <2>2, <2>3, Zenon DEF DecodedAsEmitted
<1> QED
  BY <1>1, <1>2, DecodingStep, PTL DEF DecodingSpec

----------------------------------------------------------------------------
(* All of them together. *)

(***************************************************************************)
(* The components share no variables: what all of them do is, seen from    *)
(* one, its own steps and pauses between them.                             *)
(***************************************************************************)
LEMMA EachRunsItsOwn ==
    Spec => /\ WalletSpec /\ DedupSpec /\ X402Spec /\ TxSpec /\ PageSpec /\ ListsSpec
            /\ JobHookSpec /\ StorageSpec /\ SessionSpec /\ JobCallsSpec /\ IdentitySpec
            /\ ChannelHookSpec /\ CallsSpec /\ DecodingSpec
            /\ CommerceHookSpec /\ DashWalletSpec
<1>1. Init => /\ WalletInit /\ DedupInit /\ PaywallInit /\ FetchInit
              /\ ListsInit /\ HookInit /\ ChannelHookInit /\ StorageInit /\ CallsInit
  BY DEF Init, WalletInit, PaywallInit, Adapters, HookInit, StorageInit
<1>23. Init => TxInit
  <2>1. (CHOOSE ms \in PollTimeouts : TRUE) \in PollTimeouts
    BY TxAssumption
  <2> QED
    BY <2>1 DEF Init, TxInit
<1>2. Init => PageStarts
  <2>1. 0 \in Intervals /\ (CHOOSE rt \in Routes : TRUE) \in Routes
    BY PageAssumption
  <2> QED
    BY <2>1 DEF Init, StreamPageInit, StreamPageStart, PageStarts
<1>3. Init => SessionStart /\ JobCallsStart /\ IdentityStart
  <2>1. 0 \in Amounts
    BY ClientsAssumption DEF Amounts
  <2>2. Init => \E allowed \in Amounts, o \in {"none", "old"} : ClientsStart(allowed, o)
    BY <2>1 DEF Init, ClientsInit
  <2>3. ASSUME NEW allowed \in Amounts, NEW o \in {"none", "old"}, ClientsStart(allowed, o)
        PROVE  SessionStart /\ JobCallsStart /\ IdentityStart
    BY <2>3 DEF ClientsStart, SessionStart, JobCallsStart, IdentityStart, NoSession
  <2> QED
    BY <2>2, <2>3
<1>4. [Next]_clientSideVars => [WalletNext]_walletVars
  BY SMTT(30) DEF Next, clientSideVars, clientVars, In, Only, Rest
<1>5. [Next]_clientSideVars => [DedupNext]_dedupVars
  BY SMTT(30) DEF Next, clientSideVars, clientVars, In, Only, Rest
<1>6. [Next]_clientSideVars => [FetchNext]_x402Vars
  BY SMTT(30) DEF Next, clientSideVars, clientVars, In, Only, Rest
<1>7. [Next]_clientSideVars => [TxNext]_txVars
  BY SMTT(30) DEF Next, clientSideVars, clientVars, In, Only, Rest
<1>8. [Next]_clientSideVars => [StreamPageNext]_pageVars
  BY DEF Next, clientSideVars, clientVars, In, Only, Rest
<1>9. [Next]_clientSideVars => [ListsNext]_listVars
  BY DEF Next, clientSideVars, clientVars, In, Only, Rest
<1>10. [Next]_clientSideVars => [HookNext]_hookVars
  BY DEF Next, clientSideVars, clientVars, In, Only, Rest
<1>11. [Next]_clientSideVars => [StorageNext]_storageVars
  BY DEF Next, clientSideVars, clientVars, In, Only, Rest
<1>12. [Next]_clientSideVars => [ChannelSession]_channelVars
  BY DEF Next, clientSideVars, clientVars, In, Only, Rest
<1>13. [Next]_clientSideVars => [JobCalls]_jobVars
  BY SMTT(30) DEF Next, clientSideVars, clientVars, In, Only, Rest
<1>14. [Next]_clientSideVars => [IdentityCalls]_identityVars
  BY SMTT(30) DEF Next, clientSideVars, clientVars, In, Only, Rest
<1>15. [Next]_clientSideVars => [ChannelHookNext]_channelHookVars
  BY DEF Next, clientSideVars, clientVars, In, Only, Rest
<1>16. Init => DecodingInit
  <2>1. "Paused" \in DOMAIN Published
    BY PublishedNames
  <2>3. ContractEvents # {}
    BY <2>1 DEF ContractEvents
  <2>2. (CHOOSE e \in Events : TRUE) \in Events
    BY <2>3, SMTT(30) DEF Events
  <2> QED
    BY <2>2 DEF Init, DecodingInit
<1>17. [Next]_clientSideVars => [CallsNext]_callsVars
  BY DEF Next, clientSideVars, clientVars, In, Only, Rest
<1>18. [Next]_clientSideVars => [DecodingNext]_decodingVars
  BY DEF Next, clientSideVars, clientVars, In, Only, Rest
<1>19. Init => CommerceInit
  BY DEF Init, CommerceInit
<1>20. Init => DashWalletStarts
  <2>1. (CHOOSE a \in Accounts : TRUE) \in Accounts
    BY DashWalletAssumption
  <2> QED
    BY <2>1 DEF Init, DashWalletInit, DashWalletStarts
<1>21. [Next]_clientSideVars => [CommerceNext]_commerceVars
  BY DEF Next, clientSideVars, clientVars, In, Only, Rest
<1>22. [Next]_clientSideVars => [DashWalletNext]_dashWalletVars
  BY DEF Next, clientSideVars, clientVars, In, Only, Rest
<1> QED
  BY <1>1, <1>2, <1>3, <1>4, <1>5, <1>6, <1>7, <1>8, <1>9, <1>10,
     <1>11, <1>12, <1>13, <1>14, <1>15, <1>16, <1>17, <1>18, <1>19, <1>20,
     <1>21, <1>22, <1>23, PTL
     DEF Spec, WalletSpec, DedupSpec, X402Spec, TxSpec, PageSpec, ListsSpec, JobHookSpec,
         StorageSpec, SessionSpec, JobCallsSpec, IdentitySpec, ChannelHookSpec,
         CallsSpec, DecodingSpec, CommerceHookSpec, DashWalletSpec

(***************************************************************************)
(* So each keeps its invariant in the midst of all the others.             *)
(***************************************************************************)
THEOREM ClientsKeepTheirs ==
    Spec => [](AddressIsShownWallets /\ HeldAlone /\ ChargedOnce) /\ TimeoutIsFinal
<1> QED
  BY EachRunsItsOwn, ShownAddressIsWallets, OneHoldsThePayment, CallsAreChargedOnce,
     TimedOutStaysOut, PTL

(***************************************************************************)
(* No page waits for an answer nobody will give (useJob.ts, app.js): a     *)
(* hook that does not poll and shows its spinner has a fetch that will end *)
(* it, as has a list that shows its skeleton; a page without a stream has  *)
(* a retry running, where there can be a stream, and its polling interval  *)
(* back; and one that is seen and online polls, unless it was told not to. *)
(***************************************************************************)
THEOREM PagesAreNeverStuck == Spec => []NeverStuck
<1>1. LoadingEnds /\ NeverDeaf /\ SkeletonsEnd => NeverStuck
  BY DEF NeverStuck
<1> QED
  BY <1>1, EachRunsItsOwn, SpinnersAreAnswered, PageIsNeverDeaf, ListsEndTheirSkeletons, PTL

(***************************************************************************)
(* What the SDK and the hooks told their caller keeps holding              *)
(* (commerce.ts, channels.ts, identity.ts, storage.ts, usePaymentChannel): *)
(* a session's newer voucher supersedes the older ones, the nonce the hook *)
(* goes on from is not below that of a voucher it handed out (until it is  *)
(* reset, or reloaded where the browser did not store its state), jobs and *)
(* owners are as was said, and an upload is where it was confirmed to be.  *)
(***************************************************************************)
THEOREM AnswersKeepHolding == Spec => []AnswersHold
<1>1. VouchersSupersede /\ NonceIsKept /\ ToldIsSo /\ UploadIsBacked => AnswersHold
  BY DEF AnswersHold
<1> QED
  BY <1>1, EachRunsItsOwn, VouchersKeepSuperseding, NoncesAreKept, WhatIsToldIsSo,
     UploadsAreBacked, PTL

(***************************************************************************)
(* The SDK and the contracts agree on the calls (commerce.ts, identity.ts  *)
(* and the two lib.rs): a call that passes the SDK's own checks names an   *)
(* entry point and has its arguments, as many and in their order, whatever *)
(* its values; those of Misfits alone do not, and none of them does.       *)
(***************************************************************************)
THEOREM CallsFitTheContracts == Spec => []CallsReachContract
<1> QED
  BY EachRunsItsOwn, CallsStayFit, PTL

(***************************************************************************)
(* An event keeps its fields, in either of the two layouts the contracts   *)
(* have had (lib.rs 283-420, the earlier one of identity.ts 320-404): the  *)
(* poller (poller.ts) stores it under who acted and under its version,     *)
(* whichever layout it is of. What the SDK decodes (identity.ts,           *)
(* commerce.ts), or calls a subscriber of a job with, is an event of the   *)
(* earlier layout of that contract and that job, each field with the value *)
(* it was emitted with; an event of the layout published now, or of        *)
(* another contract, is refused.                                           *)
(***************************************************************************)
THEOREM EventsAreDecodedAsEmitted == Spec => []DecodedAsEmitted
<1> QED
  BY EachRunsItsOwn, DecodingStaysTrue, PTL

(***************************************************************************)
(* Each component of the client side stays in its types, in the midst of   *)
(* all the others: with the SDK's calls (marcFetch.ts, marcPaywall.ts,     *)
(* baseClient.ts, the clients and storage.ts), the hooks of the React      *)
(* package and the dashboard's app.js, for every value of the constants.   *)
(***************************************************************************)
THEOREM ClientSideStaysTyped == Spec => []TypeOK
<1>1. Init => focus \in Focuses
  BY SMTT(30) DEF Init
<1>2. focus \in Focuses /\ [Next]_clientSideVars => (focus \in Focuses)'
  BY DEF Next, clientSideVars, Only
<1>3. Spec => [](focus \in Focuses)
  BY <1>1, <1>2, PTL DEF Spec
<1>4. /\ focus \in Focuses
      /\ PaywallTypeOK /\ FetchTypeOK /\ TxTypeOK /\ StorageTypeOK /\ ClientsTypeOK
      /\ CallsTypeOK /\ DedupTypeOK /\ ListsTypeOK
      /\ WalletTypeOK /\ HookTypeOK /\ CommerceHookTypeOK /\ ChannelHookTypeOK
      /\ DashWalletTypeOK /\ StreamPageTypeOK
      => TypeOK
  BY DEF TypeOK
<1> QED
  BY <1>3, <1>4, EachRunsItsOwn, X402StaysTyped, TxStaysTyped, StorageStaysTyped,
     ClientsStayTyped, CallsStayFit, DedupStaysTyped, ListsStayTyped, WalletStaysTyped,
     HookStaysTyped, CommerceHookStaysTyped, ChannelHookStaysTyped, DashWalletStaysTyped,
     StreamPageStaysTyped, PTL

=============================================================================
