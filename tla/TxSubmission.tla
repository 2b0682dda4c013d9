----------------------------- MODULE TxSubmission -----------------------------
(***************************************************************************)
(* How the SDK gets a contract call onto the ledger: BaseClient.invoke and *)
(* simulate (sdk/src/baseClient.ts) over the RpcFailoverPool and the       *)
(* AccountSequenceManager.  One client signs for one account; the RPC      *)
(* endpoints and the ledger are external.                                  *)
(*                                                                         *)
(* Sequence numbers are written out, since what the client computes and    *)
(* what the ledger accepts is the matter here: the ledger takes the        *)
(* transaction that is one above the account's number and no other.  Time  *)
(* is written out too, in ticks: a transaction may be included up to a     *)
(* fixed time after it was built, and the poll for it, which starts later, *)
(* lasts as long as the client was configured to poll.                     *)
(***************************************************************************)
EXTENDS Naturals, FiniteSets, Sequences, SequencesExt

CONSTANTS
    Invokes,        \* calls that change state
    Reads,          \* calls that are only simulated
    Endpoints,      \* the RPC endpoints, as a sequence
    maxSeqRetries,  \* invoke's constant, 3 in the source
    maxConsecutiveFailures, \* the pool's option, 3 by default
    timeBound,      \* setTimeout(30) of the builder
    PollTimeouts,   \* pollTimeoutMs a client may be configured with, twice the bound by default
    MaxNow,         \* ticks of the clock
    MaxRpcFailures, \* endpoint failures in a behaviour
    MaxExternal     \* transactions another wallet of the account submits

ASSUME TxAssumption ==
    /\ Invokes \cap Reads = {}
    /\ Endpoints \in Seq(ToSet(Endpoints)) /\ Len(Endpoints) > 0
    /\ {maxSeqRetries, maxConsecutiveFailures, MaxRpcFailures, MaxExternal, MaxNow} \subseteq Nat
    /\ timeBound \in Nat /\ PollTimeouts \subseteq Nat /\ PollTimeouts # {}

VARIABLES
    ledgerSeq,  \* external: the account's sequence number
    now,        \* external: the time
    pending,    \* external: transactions submitted and not yet included, [c, seq, until]
    included,   \* external: transactions in a closed ledger, [c, seq, ok]
    external,   \* external: transactions of another wallet so far
    sequences,  \* AccountSequenceManager's cached number, NoSeq when there is none
    failures,   \* RpcFailoverPool: consecutiveFailures of each endpoint
    healthy,    \* RpcFailoverPool: endpoints in rotation
    rpcFailures,\* endpoint failures so far
    pollTimeout,\* the client's pollTimeoutMs
    namesBadSeq,\* whether the text of a refused submission names txBAD_SEQ
    inv         \* the calls in progress

NoSeq == 0    \* next never hands out 0
Eps == ToSet(Endpoints)
Results == {"none", "ok", "error", "TransactionTimeoutError"}

\* attempt: the loop variable.  seq: what the sequence manager handed out.
\* until: the time bound of the transaction built last.  sent: the sequence number of
\* the transaction submitted last, since: when the poll for it started.  badSeq: a
\* submission was refused for its sequence number.
CallState == [ pc : {"idle", "allocate", "prepare", "send", "poll", "simulate", "done"},
               attempt : 0..(maxSeqRetries + 2), seq : Nat, until : Nat,
               sent : Nat, since : Nat, badSeq : BOOLEAN, result : Results ]

ledgerVars == <<ledgerSeq, now, pending, included, external>>
configVars == <<pollTimeout, namesBadSeq>>
poolVars == <<failures, healthy, rpcFailures>>
txVars == <<ledgerVars, sequences, poolVars, configVars, inv>>

TxStart(names, ms) ==
    /\ ledgerSeq = 0 /\ now = 0 /\ pending = {} /\ included = {} /\ external = 0
    /\ sequences = NoSeq
    /\ failures = [e \in Eps |-> 0] /\ healthy = Eps /\ rpcFailures = 0
    /\ namesBadSeq = names /\ pollTimeout = ms
    /\ inv = [c \in Invokes \cup Reads |-> [pc |-> "idle", attempt |-> 0, seq |-> 0, until |-> 0,
                sent |-> 0, since |-> 0, badSeq |-> FALSE, result |-> "none"]]

TxInit == \E names \in BOOLEAN, ms \in PollTimeouts : TxStart(names, ms)

-----------------------------------------------------------------------------
(* RpcFailoverPool *)

\* call: the healthy endpoints in their order, or all when none is healthy.
InRotation == {i \in DOMAIN Endpoints : healthy = {} \/ Endpoints[i] \in healthy}
Ahead(i) == {j \in InRotation : j < i}

\* The first k endpoints of the order fail and the next one, if any, answers.
PoolAfter(k) ==
    LET failed == {Endpoints[i] : i \in {j \in InRotation : Cardinality(Ahead(j)) < k}}
        answered == {Endpoints[i] : i \in {j \in InRotation : Cardinality(Ahead(j)) = k}}
    IN  /\ rpcFailures + k <= MaxRpcFailures
        /\ rpcFailures' = rpcFailures + k
        /\ failures' = [e \in Eps |-> IF e \in answered THEN 0
                          ELSE IF e \in failed /\ failures[e] < maxConsecutiveFailures
                          THEN failures[e] + 1 ELSE failures[e]]
        /\ healthy' = (healthy \cup answered)
                        \ {e \in failed : failures[e] + 1 >= maxConsecutiveFailures}

RpcAnswers == \E k \in 0..(Cardinality(InRotation) - 1) : PoolAfter(k)
RpcThrows == PoolAfter(Cardinality(InRotation))

\* probeUnhealthy: the timer re-tests the endpoints out of rotation.
ProbeUnhealthy ==
    /\ healthy # Eps
    /\ \E up \in SUBSET (Eps \ healthy) :
         /\ up # {}
         /\ healthy' = healthy \cup up
         /\ failures' = [e \in Eps |-> IF e \in up THEN 0 ELSE failures[e]]
    /\ UNCHANGED <<rpcFailures, ledgerVars, sequences, configVars, inv>>

-----------------------------------------------------------------------------
(* AccountSequenceManager *)

\* next: under the account's lock.  A cached number is counted up; without one
\* the account's last used number is fetched and one added.
NextSequence(seq) ==
    IF sequences = NoSeq
    THEN RpcAnswers /\ seq = ledgerSeq + 1
    ELSE UNCHANGED poolVars /\ seq = sequences + 1

-----------------------------------------------------------------------------
(* invoke *)

Throws(c) == inv' = [inv EXCEPT ![c].pc = "done", ![c].result = "error"]

\* The loop goes round once more with a fresh number, or the error is thrown.
\* Either way the cached number is dropped first (resync).
ResyncAndRetry(c) ==
    /\ sequences' = NoSeq
    /\ IF inv[c].attempt = maxSeqRetries THEN Throws(c)
       ELSE inv' = [inv EXCEPT ![c].pc = "allocate", ![c].attempt = @ + 1]

Begin(c) ==
    /\ inv[c].pc = "idle"
    /\ inv' = [inv EXCEPT ![c].pc = IF c \in Reads THEN "simulate" ELSE "allocate"]
    /\ UNCHANGED <<ledgerVars, sequences, poolVars, configVars>>

\* The number is allocated and the transaction built, with its time bound.
AllocateSequence(c) ==
    /\ inv[c].pc = "allocate"
    /\ \/ \E seq \in 1..(ledgerSeq + 1 + 2 * Cardinality(Invokes) * (maxSeqRetries + 1)) :
            /\ NextSequence(seq)
            /\ sequences' = seq
            /\ inv' = [inv EXCEPT ![c].pc = "prepare", ![c].seq = seq,
                                  ![c].until = now + timeBound]
       \/ /\ sequences = NoSeq /\ RpcThrows /\ Throws(c)
          /\ UNCHANGED sequences
    /\ UNCHANGED <<ledgerVars, configVars>>

\* prepareTransaction simulates the call, the signer signs it.  When either
\* fails the error leaves invoke, and the number handed out is not given back.
PrepareAndSign(c) ==
    /\ inv[c].pc = "prepare"
    /\ \/ RpcAnswers /\ inv' = [inv EXCEPT ![c].pc = "send"]
       \/ (RpcThrows \/ UNCHANGED poolVars) /\ Throws(c)
    /\ UNCHANGED <<ledgerVars, sequences, configVars>>

\* new Account(publicKey, sequence) takes the number as the last used one, and
\* TransactionBuilder.build counts it up once more.
TxSeq(c) == inv[c].seq + 1

\* The ledger may include a transaction with the next number until its bound.
LedgerTakes(c) == TxSeq(c) = ledgerSeq + 1 /\ now <= inv[c].until
Submitted(c) == pending \cup {[c |-> c, seq |-> TxSeq(c), until |-> inv[c].until]}

\* sendTransaction is answered: the ledger keeps the transaction as pending,
\* or asks to try again later, which invoke takes for success as well.
SendAccepted(c) ==
    /\ inv[c].pc = "send" /\ RpcAnswers
    /\ (LedgerTakes(c) /\ pending' = Submitted(c)) \/ UNCHANGED pending
    /\ inv' = [inv EXCEPT ![c].pc = "poll", ![c].sent = TxSeq(c),
                          ![c].since = now]
    /\ UNCHANGED <<ledgerSeq, now, included, external, sequences, configVars>>

\* sendTransaction answers ERROR for a sequence number that does not follow the
\* account's.  Only an error text that names txBAD_SEQ is retried.
SendRefused(c) ==
    /\ inv[c].pc = "send" /\ RpcAnswers
    /\ TxSeq(c) # ledgerSeq + 1
    /\ IF namesBadSeq /\ inv[c].attempt < maxSeqRetries
       THEN /\ sequences' = NoSeq
            /\ inv' = [inv EXCEPT ![c].pc = "allocate", ![c].attempt = @ + 1,
                                  ![c].badSeq = TRUE]
       ELSE /\ inv' = [inv EXCEPT ![c].pc = "done", ![c].result = "error",
                                  ![c].badSeq = TRUE]
            /\ UNCHANGED sequences
    /\ UNCHANGED <<ledgerVars, configVars>>

\* It answers ERROR for another reason (a fee, a signature, a bound that has passed):
\* thrown at once, and the number is not given back.
SendRejected(c) ==
    /\ inv[c].pc = "send" /\ RpcAnswers
    /\ TxSeq(c) = ledgerSeq + 1 \/ now > inv[c].until
    /\ Throws(c)
    /\ UNCHANGED <<ledgerVars, sequences, configVars>>

\* No endpoint answers the submission; one of them may have taken it.
SendFails(c) ==
    /\ inv[c].pc = "send" /\ RpcThrows
    /\ (LedgerTakes(c) /\ pending' = Submitted(c)) \/ UNCHANGED pending
    /\ ResyncAndRetry(c)
    /\ UNCHANGED <<ledgerSeq, now, included, external, configVars>>

\* The transaction submitted last, as the ledger has it; it may have had forerunners
\* whose submission was not answered.
Found(c, ok) == [c |-> c, seq |-> inv[c].sent, ok |-> ok]
NotFound(c) == Found(c, TRUE) \notin included /\ Found(c, FALSE) \notin included

\* getTransaction finds the transaction executed or failed.
PollFinds(c) ==
    /\ inv[c].pc = "poll" /\ RpcAnswers
    /\ \/ /\ Found(c, TRUE) \in included
          /\ inv' = [inv EXCEPT ![c].pc = "done", ![c].result = "ok"]
       \/ Found(c, FALSE) \in included /\ Throws(c)
    /\ UNCHANGED <<ledgerVars, sequences, configVars>>

\* No endpoint answers getTransaction: thrown, whatever becomes of the transaction.
PollFails(c) ==
    /\ inv[c].pc = "poll" /\ RpcThrows /\ Throws(c)
    /\ UNCHANGED <<ledgerVars, sequences, configVars>>

\* Mutant: startTime is taken once, when the client is made.
PollElapsedSinceStart(c) == now >= pollTimeout

PollElapsed(c) == now - inv[c].since >= pollTimeout

\* getTransaction answers NOT_FOUND: asked again a second later, or given up.
PollNotFound(c) ==
    /\ inv[c].pc = "poll" /\ NotFound(c) /\ RpcAnswers
    /\ IF PollElapsed(c)
       THEN inv' = [inv EXCEPT ![c].pc = "done", ![c].result = "TransactionTimeoutError"]
       ELSE UNCHANGED inv
    /\ UNCHANGED <<ledgerVars, sequences, configVars>>

-----------------------------------------------------------------------------
(* simulate: three tries; a contract error is not retried *)
Simulate(c) ==
    /\ inv[c].pc = "simulate"
    /\ \/ /\ RpcAnswers
          /\ \E result \in {"ok", "error"} :
               inv' = [inv EXCEPT ![c].pc = "done", ![c].result = result]
       \/ /\ RpcThrows \/ RpcAnswers
          /\ IF inv[c].attempt = 2 THEN Throws(c)
             ELSE inv' = [inv EXCEPT ![c].attempt = @ + 1]
    /\ UNCHANGED <<ledgerVars, sequences, configVars>>

-----------------------------------------------------------------------------
(* The ledger *)

\* A ledger closes with the transaction that follows the account's number.  The
\* contract may refuse the call; the number is used up all the same.
Include ==
    /\ \E tx \in pending :
         /\ tx.seq = ledgerSeq + 1 /\ now <= tx.until
         /\ pending' = pending \ {tx}
         /\ \E ok \in BOOLEAN :
              included' = included \cup {[c |-> tx.c, seq |-> tx.seq, ok |-> ok]}
    /\ ledgerSeq' = ledgerSeq + 1
    /\ UNCHANGED <<now, external, sequences, poolVars, configVars, inv>>

\* A pending transaction is dropped by the network.
Drop ==
    /\ \E tx \in pending : pending' = pending \ {tx}
    /\ UNCHANGED <<ledgerSeq, now, included, external, sequences, poolVars, configVars, inv>>

\* Another wallet of the same account has a transaction included.
OtherWallet ==
    /\ external < MaxExternal
    /\ external' = external + 1
    /\ ledgerSeq' = ledgerSeq + 1
    /\ UNCHANGED <<now, pending, included, sequences, poolVars, configVars, inv>>

TimePasses ==
    /\ now < MaxNow /\ now' = now + 1
    /\ UNCHANGED <<ledgerSeq, pending, included, external, sequences, poolVars, configVars, inv>>

TxNext ==
    \/ \E c \in Invokes \cup Reads : Begin(c)
    \/ \E c \in Invokes : \/ AllocateSequence(c) \/ PrepareAndSign(c) \/ SendAccepted(c)
                          \/ SendRefused(c) \/ SendRejected(c) \/ SendFails(c)
                          \/ PollFinds(c) \/ PollFails(c) \/ PollNotFound(c)
    \/ \E c \in Reads : Simulate(c)
    \/ ProbeUnhealthy \/ Include \/ Drop \/ OtherWallet \/ TimePasses

TxTypeOK ==
    /\ ledgerSeq \in Nat /\ now \in 0..MaxNow /\ external \in 0..MaxExternal
    /\ pending \subseteq [c : Invokes, seq : Nat, until : Nat]
    /\ included \subseteq [c : Invokes, seq : Nat, ok : BOOLEAN]
    /\ sequences \in Nat
    /\ failures \in [Eps -> 0..maxConsecutiveFailures]
    /\ healthy \subseteq Eps /\ rpcFailures \in 0..MaxRpcFailures
    /\ namesBadSeq \in BOOLEAN /\ pollTimeout \in PollTimeouts
    /\ inv \in [Invokes \cup Reads -> CallState]

-----------------------------------------------------------------------------
executed(c) == {tx \in included : tx.c = c /\ tx.ok}

\* A call that invoke gave up on as timed out is never executed after, however many
\* transactions it submitted: when a client polls for longer than a transaction is
\* valid, as it does by default, the bounds of all of them have passed.  A client
\* configured with a shorter pollTimeoutMs has no such promise.
TimeoutIsFinal ==
    [][pollTimeout > timeBound =>
         \A c \in Invokes :
            inv[c].result = "TransactionTimeoutError" => executed(c)' = executed(c)]_txVars

\* While no other wallet uses the account no submission is refused for its sequence
\* number: the manager hands out each number once and in order.
NoBadSequence == external = 0 => \A c \in Invokes : ~inv[c].badSeq
=============================================================================
