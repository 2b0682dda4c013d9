----------------------------- MODULE ChannelHook -----------------------------
(***************************************************************************)
(* usePaymentChannel (packages/react/src/hooks/usePaymentChannel.ts): the  *)
(* payer's side of a payment channel in a component, with its state in the *)
(* browser's storage so that a reloaded page goes on where it was.  The    *)
(* client and the ledger are external.                                     *)
(*                                                                         *)
(* createVoucher reads the values of the last render, so that a handler    *)
(* which calls it twice reads the same ones twice, and hands out a nonce   *)
(* twice.  What the browser does not store nobody is told of.              *)
(***************************************************************************)
EXTENDS Naturals

CONSTANTS
    MaxDeposit, MaxChannels,
    MaxNonce,       \* vouchers of a channel
    MaxReloads      \* reloads of the page

ASSUME ChannelHookAssumption == {MaxDeposit, MaxChannels, MaxNonce, MaxReloads} \subseteq Nat

NoChannel == 0
Channels == 1..MaxChannels
Unset == [channelId |-> NoChannel, deposit |-> 0, spent |-> 0, nonce |-> 0]

VARIABLES
    shownChannel,   \* channelId, deposit, spent and nonce of the component
    rendered,       \* the same, at the last render: what createVoucher's closure holds
    storedChannels, \* localStorage: the record of each channel, or Unset
    opening,        \* deposits of the openChannel calls in flight
    closing,        \* a closeChannel or forceClose is in flight
    channelsMade,   \* external: channels on the ledger
    handedOut,      \* vouchers handed out
    unsaved,        \* channels whose latest state the browser did not store
    forgotten,      \* channels that were reset, or reloaded without their latest state
    reloads

channelHookVars == <<shownChannel, rendered, storedChannels, opening, closing, channelsMade,
                     handedOut, unsaved, forgotten, reloads>>

ChannelHookInit ==
    /\ shownChannel = Unset /\ rendered = Unset
    /\ storedChannels = [ch \in Channels |-> Unset]
    /\ opening = {} /\ closing = FALSE /\ channelsMade = 0
    /\ handedOut = {} /\ unsaved = {} /\ forgotten = {} /\ reloads = 0

\* saveChannelState: an error of localStorage is ignored.
Save(state) ==
    \/ /\ storedChannels' = [storedChannels EXCEPT ![state.channelId] = state]
       /\ unsaved' = unsaved \ {state.channelId}
    \/ UNCHANGED storedChannels /\ unsaved' = unsaved \cup {state.channelId}

BeginOpenChannel ==
    /\ opening = {} /\ channelsMade < MaxChannels
    /\ \E deposit \in 1..MaxDeposit : opening' = {deposit}
    /\ UNCHANGED <<shownChannel, rendered, storedChannels, closing, channelsMade, handedOut,
                   unsaved, forgotten, reloads>>

\* The client answers openChannel: the component turns to the new channel.
ChannelOpened ==
    /\ \E deposit \in opening :
         LET state == [channelId |-> channelsMade + 1, deposit |-> deposit,
                       spent |-> 0, nonce |-> 0]
         IN  shownChannel' = state /\ Save(state)
    /\ channelsMade' = channelsMade + 1 /\ opening' = {}
    /\ UNCHANGED <<rendered, closing, handedOut, forgotten, reloads>>

ChannelRefused ==
    /\ opening # {} /\ opening' = {}
    /\ UNCHANGED <<shownChannel, rendered, storedChannels, closing, channelsMade, handedOut,
                   unsaved, forgotten, reloads>>

\* createVoucher.  With isIncremental the amount is added to what was spent,
\* without it is taken as the new total, which may be less than before.
HookCreatesVoucher ==
    /\ rendered.channelId # NoChannel /\ rendered.nonce < MaxNonce
    /\ \E delta \in 1..MaxDeposit, isIncremental \in BOOLEAN :
         LET nextSpent == IF isIncremental THEN rendered.spent + delta ELSE delta
             state == [rendered EXCEPT !.spent = nextSpent, !.nonce = @ + 1]
         IN  /\ rendered.deposit > 0 => nextSpent <= rendered.deposit
             /\ nextSpent <= MaxDeposit
             /\ handedOut' = handedOut \cup {[channelId |-> state.channelId,
                                            amount |-> nextSpent, nonce |-> state.nonce]}
             /\ shownChannel' = [shownChannel EXCEPT !.spent = nextSpent,
                                                     !.nonce = state.nonce]
             /\ Save(state)
    /\ UNCHANGED <<rendered, opening, closing, channelsMade, forgotten, reloads>>

\* A render.  When it is the first of a channel, the effect puts the stored record in
\* the place of what the component has.
Render ==
    /\ rendered # shownChannel
    /\ LET ch == shownChannel.channelId
           first == ch \in Channels /\ ch # rendered.channelId
       IN  shownChannel' = IF first /\ storedChannels[ch] # Unset THEN storedChannels[ch]
                           ELSE shownChannel
    /\ rendered' = shownChannel'
    /\ UNCHANGED <<storedChannels, opening, closing, channelsMade, handedOut, unsaved, forgotten,
                   reloads>>

\* closeChannel and forceClose: the component goes on showing the channel as
\* open when they have succeeded.
BeginCloseChannel ==
    /\ ~closing /\ rendered.channelId # NoChannel
    /\ closing' = TRUE
    /\ UNCHANGED <<shownChannel, rendered, storedChannels, opening, channelsMade, handedOut,
                   unsaved, forgotten, reloads>>

CloseAnswered ==
    /\ closing /\ closing' = FALSE
    /\ UNCHANGED <<shownChannel, rendered, storedChannels, opening, channelsMade, handedOut,
                   unsaved, forgotten, reloads>>

\* reset removes the record of the channel, if the browser lets it, and forgets it.
ResetChannel ==
    /\ rendered = shownChannel
    /\ shownChannel' = Unset /\ rendered' = Unset
    /\ IF rendered.channelId = NoChannel THEN UNCHANGED <<storedChannels, forgotten>>
       ELSE /\ \/ storedChannels' = [storedChannels EXCEPT ![rendered.channelId] = Unset]
               \/ UNCHANGED storedChannels
            /\ forgotten' = forgotten \cup {rendered.channelId}
    /\ UNCHANGED <<opening, closing, channelsMade, handedOut, unsaved, reloads>>

\* The page is loaded again with the id of a channel: the component starts from
\* its props, and the effect puts the stored record in their place.
Reload ==
    /\ reloads < MaxReloads /\ reloads' = reloads + 1
    /\ \E ch \in 1..channelsMade, initialDeposit \in {0, MaxDeposit} :
         /\ shownChannel' = IF storedChannels[ch] # Unset THEN storedChannels[ch]
                            ELSE [Unset EXCEPT !.channelId = ch, !.deposit = initialDeposit]
         /\ forgotten' = IF ch \in unsaved THEN forgotten \cup {ch} ELSE forgotten
    /\ rendered' = shownChannel' /\ opening' = {} /\ closing' = FALSE
    /\ UNCHANGED <<storedChannels, channelsMade, handedOut, unsaved>>

ChannelHookNext ==
    \/ BeginOpenChannel \/ ChannelOpened \/ ChannelRefused \/ HookCreatesVoucher \/ Render
    \/ BeginCloseChannel \/ CloseAnswered \/ ResetChannel \/ Reload

ChannelHookTypeOK ==
    LET States == [channelId : 0..MaxChannels, deposit : 0..MaxDeposit,
                   spent : 0..MaxDeposit, nonce : 0..MaxNonce]
    IN  /\ {shownChannel, rendered} \subseteq States
        /\ storedChannels \in [Channels -> States]
        /\ opening \subseteq 1..MaxDeposit /\ closing \in BOOLEAN
        /\ channelsMade \in 0..MaxChannels
        /\ unsaved \subseteq Channels /\ forgotten \subseteq Channels
        /\ handedOut \subseteq [channelId : Channels, amount : 1..MaxDeposit,
                               nonce : 1..MaxNonce]

-----------------------------------------------------------------------------
\* A component never goes back behind a voucher it handed out, or the provider, who
\* keeps the highest nonce, would refuse the next one: the nonce it counts on from is at
\* least that of every voucher of the channel, through handlers that ran on an old
\* render, other channels opened meanwhile, and reloads.  Once rendered, the next voucher
\* is above them all.  Not so before: two vouchers of one render share their nonce.  And
\* not after a reset, or a reload of a page whose last state the browser did not store.
NonceIsKept ==
    \A v \in handedOut :
        v.channelId = shownChannel.channelId /\ v.channelId \notin forgotten =>
            v.nonce <= shownChannel.nonce
=============================================================================
