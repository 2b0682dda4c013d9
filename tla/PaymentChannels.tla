-------------------------- MODULE PaymentChannels --------------------------
(***************************************************************************)
(* One-way payment channels: the payer escrows a deposit with the          *)
(* agentic-commerce contract and pays off chain by signing vouchers; either *)
(* participant may present one, which opens or updates a challenge window, *)
(* and either may settle the channel once the window is over.              *)
(*                                                                         *)
(* channels is DataKey::Channel (an entry is removed when the channel is   *)
(* settled); opened counts the ids handed out, NextChannelId - 1.          *)
(* sessions is the payer's side: the amount and nonce a session returned   *)
(* by the SDK's openChannel keeps in memory.  vouchers is what has been    *)
(* signed so far: the signature check is membership in it.  settled is     *)
(* what the token contract recorded as paid out of each settled channel.   *)
(***************************************************************************)
EXTENDS CommerceBase

CONSTANTS
    Payers, Payees,     \* who opens channels, and for whom; may overlap
    Deposits,           \* deposits asked for
    Payments,           \* payments made through an SDK session
    ForeignVouchers,    \* [amount, nonce] signed without an SDK session
    VoucherAmounts,     \* amounts of the vouchers presented, forged ones too
    VoucherNonces,      \* their nonces
    CHANNEL_DISPUTE_WINDOW_SECS,
    MaxChannels         \* bound: how many channels are ever opened

ASSUME ChannelAssumption ==
    /\ Payers \cup Payees \subseteq Addr
    /\ Deposits \subseteq Nat
    /\ Payments \subseteq Nat \ {0}
    /\ \A v \in ForeignVouchers : v.amount \in Nat /\ v.nonce \in Nat
    /\ VoucherAmounts \subseteq Nat /\ VoucherNonces \subseteq Nat
    /\ CHANNEL_DISPUTE_WINDOW_SECS \in Nat \ {0}

VARIABLES channels, opened, sessions, vouchers, settled

channelVars == <<channels, opened, sessions, vouchers, settled>>

MIN_CHANNEL_DEPOSIT == 1

ChannelInit ==
    /\ channels = << >>
    /\ opened = 0
    /\ sessions = << >>
    /\ vouchers = {}
    /\ settled = << >>

Voucher(id, amount, nonce) ==
    [channel_id |-> id, amount |-> amount, nonce |-> nonce]

Participant(caller, ch) == caller \in {ch.payer, ch.provider}

\* Before any voucher is presented the window runs from the opening.
ChallengeUntil(ch) ==
    IF ch.closing_at = 0 THEN ch.opened_at + CHANNEL_DISPUTE_WINDOW_SECS
                         ELSE ch.closing_at

WindowOpen(ch) == ch.closing_at = 0 \/ now < ch.closing_at

\* The contract's open_channel and, in the payer's SDK, the session it returns.
open_channel(payer, provider, token, deposit) ==
    /\ require_not_paused
    /\ require_channels_not_paused
    /\ initialized
    /\ deposit >= MIN_CHANNEL_DEPOSIT
    /\ payer # provider
    /\ opened < MaxChannels
    /\ opened' = opened + 1
    /\ held' = [held EXCEPT ![token] = @ + deposit]
    /\ channels' = [id \in DOMAIN channels \cup {opened + 1} |->
                      IF id \in DOMAIN channels THEN channels[id]
                      ELSE [ payer |-> payer, provider |-> provider,
                             token |-> token, deposit |-> deposit,
                             amount |-> 0, nonce |-> 0,
                             opened_at |-> now, closing_at |-> 0 ]]
    /\ sessions' = [id \in DOMAIN sessions \cup {opened + 1} |->
                      IF id \in DOMAIN sessions THEN sessions[id]
                      ELSE [deposit |-> deposit, amount |-> 0, nonce |-> 0]]
    /\ UNCHANGED <<vouchers, settled>>

\* Mutant: the session does not count its nonce up.
VoucherSameNonce(id, payment) ==
    LET amount == sessions[id].amount + payment
    IN  /\ amount <= sessions[id].deposit
        /\ sessions' = [sessions EXCEPT ![id].amount = amount]
        /\ vouchers' = vouchers \cup {Voucher(id, amount, sessions[id].nonce + 1)}
        /\ UNCHANGED <<held, channels, opened, settled>>

\* Off chain, in the payer's SDK session: a voucher for all payments so far.
createVoucher(id, payment) ==
    LET amount == sessions[id].amount + payment
        nonce  == sessions[id].nonce + 1
    IN  /\ amount <= sessions[id].deposit
        /\ sessions' = [sessions EXCEPT ![id].amount = amount,
                                        ![id].nonce = nonce]
        /\ vouchers' = vouchers \cup {Voucher(id, amount, nonce)}
        /\ UNCHANGED <<held, channels, opened, settled>>

\* Off chain, by createChannelVoucher alone: whatever the payer puts its key to.
createChannelVoucher(id, v) ==
    /\ vouchers' = vouchers \cup {Voucher(id, v.amount, v.nonce)}
    /\ UNCHANGED <<held, channels, opened, sessions, settled>>

\* Mutants: the signature, or the deposit, is not checked.
VerifyUnsigned(id, voucher) ==
    voucher.channel_id = id /\ voucher.amount <= channels[id].deposit
VerifyOverdrawn(id, voucher) ==
    voucher.channel_id = id /\ voucher \in vouchers

verify_voucher(id, voucher) ==
    /\ voucher.channel_id = id
    /\ voucher.amount <= channels[id].deposit
    /\ voucher \in vouchers

\* A voucher replaces the one on record when it is newer and not smaller.
Newer(voucher, ch) ==
    voucher.amount >= ch.amount /\ voucher.nonce > ch.nonce

\* Mutant: every voucher starts the window anew.
CloseRestartsWindow(caller, id, voucher) ==
    /\ require_not_paused
    /\ require_channels_not_paused
    /\ Participant(caller, channels[id])
    /\ WindowOpen(channels[id])
    /\ verify_voucher(id, voucher)
    /\ Newer(voucher, channels[id])
    /\ channels' = [channels EXCEPT
                      ![id].amount = voucher.amount,
                      ![id].nonce = voucher.nonce,
                      ![id].closing_at = now + CHANNEL_DISPUTE_WINDOW_SECS]
    /\ UNCHANGED <<held, opened, sessions, vouchers, settled>>

close_channel(caller, id, voucher) ==
    /\ require_not_paused
    /\ require_channels_not_paused
    /\ Participant(caller, channels[id])
    /\ WindowOpen(channels[id])
    /\ verify_voucher(id, voucher)
    /\ Newer(voucher, channels[id])
    /\ channels' = [channels EXCEPT
                      ![id].amount = voucher.amount,
                      ![id].nonce = voucher.nonce,
                      ![id].closing_at =
                         IF @ = 0 THEN now + CHANNEL_DISPUTE_WINDOW_SECS ELSE @]
    /\ UNCHANGED <<held, opened, sessions, vouchers, settled>>

\* Mutant: a settled channel stays in storage.
SettleAndKeep(caller, id) ==
    /\ require_not_paused
    /\ require_channels_not_paused
    /\ Participant(caller, channels[id])
    /\ now >= ChallengeUntil(channels[id])
    /\ Withdraw(channels[id].token, channels[id].deposit)
    /\ settled' = [c \in DOMAIN settled \cup {id} |->
                     IF c \in DOMAIN settled THEN settled[c]
                     ELSE [provider |-> channels[id].amount,
                           payer |-> channels[id].deposit - channels[id].amount]]
    /\ UNCHANGED <<channels, opened, sessions, vouchers>>

\* Mutant: the payer is not let in.
ForceCloseByProvider(caller, id) ==
    /\ require_not_paused
    /\ require_channels_not_paused
    /\ caller = channels[id].provider
    /\ now >= ChallengeUntil(channels[id])
    /\ Withdraw(channels[id].token, channels[id].deposit)
    /\ channels' = [c \in DOMAIN channels \ {id} |-> channels[c]]
    /\ settled' = [c \in DOMAIN settled \cup {id} |->
                     IF c \in DOMAIN settled THEN settled[c]
                     ELSE [provider |-> channels[id].amount,
                           payer |-> channels[id].deposit - channels[id].amount]]
    /\ UNCHANGED <<opened, sessions, vouchers>>

force_close(caller, id) ==
    /\ require_not_paused
    /\ require_channels_not_paused
    /\ Participant(caller, channels[id])
    /\ now >= ChallengeUntil(channels[id])
    /\ Withdraw(channels[id].token, channels[id].deposit)
    /\ channels' = [c \in DOMAIN channels \ {id} |-> channels[c]]
    /\ settled' = [c \in DOMAIN settled \cup {id} |->
                     IF c \in DOMAIN settled THEN settled[c]
                     ELSE [provider |-> channels[id].amount,
                           payer |-> channels[id].deposit - channels[id].amount]]
    /\ UNCHANGED <<opened, sessions, vouchers>>

SignVoucher(id) ==
    \/ \E payment \in Payments : createVoucher(id, payment)
    \/ \E v \in ForeignVouchers : createChannelVoucher(id, v)

ChannelStep(caller, id) ==
    \/ \E c \in 1..MaxChannels, a \in VoucherAmounts, n \in VoucherNonces :
          close_channel(caller, id, Voucher(c, a, n))
    \/ force_close(caller, id)

ChannelNext ==
    /\ \/ \E payer \in Payers, provider \in Payees, token \in Tokens,
             deposit \in Deposits : open_channel(payer, provider, token, deposit)
       \/ \E id \in DOMAIN sessions : SignVoucher(id)
       \/ \E caller \in Addr, id \in DOMAIN channels : ChannelStep(caller, id)
    /\ UNCHANGED <<config, now>>

=============================================================================
