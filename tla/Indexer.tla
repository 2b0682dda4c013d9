------------------------------- MODULE Indexer -------------------------------
(***************************************************************************)
(* The event indexer: SorobanEventPoller (indexer/src/poller.ts) over a    *)
(* store.  The chain and the RPC are external.  Two stores: the EventStore *)
(* of db.ts, which ignores the watermark the poller hands it, and          *)
(* "adapter", an external store that keeps the contract the poller relies  *)
(* on (rows, watermark and ledger hash in one transaction).                *)
(*                                                                         *)
(* Each contract emits one event in each ledger.  A ledger's hash is the   *)
(* number of the reorganisation that wrote it; an event carries the hash   *)
(* of its ledger.  A poll stops at each of its awaits; looking for a       *)
(* reorganisation is one step.  Every start begins a chain of polls with a *)
(* timer between them, and a stop ends neither a poll under way nor a      *)
(* chain whose timer is no longer the one the poller remembers.            *)
(***************************************************************************)
EXTENDS Integers, FiniteSets

CONSTANTS
    Contracts, batchSize, maxReorgDepth,
    MaxLedger,      \* ledgers of the chain
    MaxReorgs, MaxRpcErrors, MaxStops

ASSUME IndexerAssumption ==
    /\ batchSize \in Nat \ {0}
    /\ MaxLedger \in Nat \ {0}
    /\ {maxReorgDepth, MaxReorgs, MaxRpcErrors, MaxStops} \subseteq Nat

startLedger == 1
NoHash == -1
Null == 0
Ledgers == 1..MaxLedger
Events == Contracts \X Ledgers \X (0..MaxReorgs)

VARIABLES
    store,          \* "EventStore" or "adapter"
    tip, chain,     \* external: the last ledger, and the hash of each ledger
    reorgs, rpcErrors, stops,   \* what has gone wrong so far
    last, hashes,   \* stored: the watermark, and the hash of each ledger
    rows, twice,    \* stored: the events, and those stored more than once
    running, pollTimer, \* the poller's fields: the timer is the chain that set it last
    poll,           \* of each chain, where it is and what its poll holds
    clean           \* no event may be missing or double, as far as the code can help it

storedVars == <<last, hashes, rows, twice>>
chainVars == <<tip, chain, reorgs>>
pollVars == <<running, pollTimer, poll>>
indexerVars == <<store, chainVars, rpcErrors, stops, storedVars, pollVars, clean>>

\* The polling chains: each start after a stop begins one more.
Chains == 1..(MaxStops + 1)
UnderWay == {"detecting", "latest", "events"}
Idle(at) == [at |-> at, from |-> 0, latest |-> 0, left |-> {}, got |-> {}]

IndexerStart(kind) ==
    /\ store = kind /\ tip = 1 /\ chain = [l \in Ledgers |-> 0]
    /\ reorgs = 0 /\ rpcErrors = 0 /\ stops = 0
    /\ last = Null /\ hashes = [l \in Ledgers |-> NoHash]
    /\ rows = {} /\ twice = {}
    /\ running = FALSE /\ pollTimer = 0 /\ poll = [p \in Chains |-> Idle("ended")]
    /\ clean = TRUE

IndexerInit == \E kind \in {"EventStore", "adapter"} : IndexerStart(kind)

-----------------------------------------------------------------------------
(* start, stop *)

\* A poll begins.  Nothing keeps one of another chain from being under way.
Begin(p) ==
    /\ poll' = [poll EXCEPT ![p] = Idle("detecting")]
    /\ clean' = (clean /\ \A q \in Chains \ {p} : poll[q].at \notin UnderWay)

Start ==
    /\ ~running /\ running' = TRUE /\ Begin(stops + 1)
    /\ UNCHANGED <<store, chainVars, rpcErrors, stops, storedVars, pollTimer>>

\* The timer of a chain fires: the next poll, or the end of the chain.
TimerFires(p) ==
    /\ poll[p].at = "waiting"
    /\ IF running THEN Begin(p) ELSE poll' = [poll EXCEPT ![p] = Idle("ended")] /\ clean' = clean
    /\ UNCHANGED <<store, chainVars, rpcErrors, stops, storedVars, running, pollTimer>>

\* A poll is over: the timer for the next one, unless stop was called meanwhile.
Over(p) ==
    /\ poll' = [poll EXCEPT ![p] = Idle(IF running THEN "waiting" ELSE "ended")]
    /\ pollTimer' = IF running THEN p ELSE pollTimer
    /\ running' = running

\* Only the timer remembered is cleared; a poll under way goes on and inserts.
Stop ==
    /\ running /\ stops < MaxStops /\ stops' = stops + 1
    /\ running' = FALSE /\ pollTimer' = 0
    /\ poll' = [p \in Chains |-> IF p = pollTimer /\ poll[p].at = "waiting" THEN Idle("ended")
                                  ELSE poll[p]]
    /\ UNCHANGED <<store, chainVars, rpcErrors, storedVars, clean>>

\* The process ends, and with it what any poll holds.
Crash ==
    /\ stops < MaxStops /\ stops' = stops + 1
    /\ running' = FALSE /\ pollTimer' = 0 /\ poll' = [p \in Chains |-> Idle("ended")]
    /\ UNCHANGED <<store, chainVars, rpcErrors, storedVars, clean>>

-----------------------------------------------------------------------------
(* detectAndRecoverReorg *)

Matches(l) == hashes[l] = chain[l]
HashStored == last # Null /\ hashes[last] # NoHash

\* Mutant: The fork is noticed and nothing is taken back.
RewoundToLast(unread) == last

\* The ledger to go back to: the first one below the watermark whose header can be
\* read and is right, as long as hashes are stored without a gap; else the watermark.
RewoundTo(unread) ==
    LET right == {l \in Ledgers \ unread : Matches(l)}
        walk == {l \in right \cap (startLedger..(last - 1)) :
                    /\ last - l <= maxReorgDepth
                    /\ \A m \in l..last : hashes[m] # NoHash /\ (m \in right => m = l)}
    IN  IF walk = {} THEN last ELSE CHOOSE l \in walk : TRUE

Continue(p, from) == poll' = [poll EXCEPT ![p].at = "latest", ![p].from = from]

\* Nothing to compare: no watermark, no hash stored, or none to be had.  The
\* EventStore has no getIndexedLedgerHash; poll catches that and goes on.
DetectNothing(p) ==
    /\ poll[p].at = "detecting"
    /\ HashStored => rpcErrors < MaxRpcErrors
    /\ rpcErrors' = IF HashStored THEN rpcErrors + 1 ELSE rpcErrors
    /\ Continue(p, IF last = Null THEN startLedger ELSE last + 1)
    /\ clean' = (clean /\ rpcErrors' = rpcErrors)
    /\ UNCHANGED <<store, chainVars, stops, storedVars, running, pollTimer>>

\* The watermark's hash is compared with the ledger's header; after a mismatch
\* the events above the common ancestor are purged and the watermark put back.  A
\* header that cannot be read on the way counts as a mismatch, and the walk goes on.
DetectReorg(p) ==
    /\ poll[p].at = "detecting" /\ HashStored
    /\ IF Matches(last)
       THEN Continue(p, last + 1) /\ UNCHANGED <<storedVars, rpcErrors, clean>>
       ELSE \E unread \in {S \in SUBSET (startLedger..(last - 1)) :
                              rpcErrors + Cardinality(S) <= MaxRpcErrors} :
              LET ancestor == RewoundTo(unread)
              IN  /\ rows' = {e \in rows : e[2] <= ancestor}
                  /\ twice' = {e \in twice : e[2] <= ancestor}
                  /\ hashes' = [l \in Ledgers |-> IF l > ancestor THEN NoHash ELSE hashes[l]]
                  /\ last' = ancestor
                  /\ Continue(p, ancestor + 1)
                  /\ rpcErrors' = rpcErrors + Cardinality(unread)
                  /\ clean' = (clean /\ (unread # {} => ancestor # last))
    /\ UNCHANGED <<store, chainVars, stops, running, pollTimer>>

-----------------------------------------------------------------------------
(* poll *)

\* getLatestLedger: nothing new ends the poll, and so does an error.
GetLatestLedger(p) ==
    /\ poll[p].at = "latest"
    /\ IF poll[p].from > tip THEN Over(p)
       ELSE /\ poll' = [poll EXCEPT ![p].at = "events", ![p].latest = tip, ![p].left = Contracts]
            /\ UNCHANGED <<running, pollTimer>>
    /\ UNCHANGED <<store, chainVars, rpcErrors, stops, storedVars, clean>>

RpcError(p) ==
    /\ poll[p].at = "latest" /\ rpcErrors < MaxRpcErrors
    /\ rpcErrors' = rpcErrors + 1 /\ Over(p)
    /\ UNCHANGED <<store, chainVars, stops, storedVars, clean>>

\* getEvents: the first batchSize events from the ledger on, up to the chain's
\* tip, which may have moved past latest.  What is cut off is not asked again.
GetEvents(p) ==
    /\ poll[p].at = "events"
    /\ \E c \in poll[p].left :
         LET full == poll[p].from + batchSize - 1
             upTo == IF full < tip THEN full ELSE tip
         IN  /\ poll' = [poll EXCEPT ![p].left = @ \ {c},
                           ![p].got = @ \cup {<<c, l, chain[l]>> : l \in poll[p].from..upTo}]
             /\ clean' = (clean /\ upTo = poll[p].latest)
    /\ UNCHANGED <<store, chainVars, rpcErrors, stops, storedVars, running, pollTimer>>

\* A contract that cannot be asked is skipped, and the watermark passes over it.
GetEventsFails(p) ==
    /\ poll[p].at = "events" /\ rpcErrors < MaxRpcErrors
    /\ rpcErrors' = rpcErrors + 1
    /\ \E c \in poll[p].left : poll' = [poll EXCEPT ![p].left = @ \ {c}]
    /\ clean' = FALSE
    /\ UNCHANGED <<store, chainVars, stops, storedVars, running, pollTimer>>

Insert(events) == rows' = rows \cup events /\ twice' = twice \cup (rows \cap events)

\* The header of the latest ledger, insertEventsBatch.
\* The adapter stores rows, watermark and hash at once; the EventStore takes the
\* rows alone.
InsertBatch(p) ==
    /\ poll[p].at = "events" /\ poll[p].left = {}
    /\ Insert(poll[p].got)
    /\ IF store = "adapter"
       THEN \E hash \in {chain[poll[p].latest], NoHash} :
              /\ last' = poll[p].latest
              /\ hashes' = [hashes EXCEPT ![poll[p].latest] = hash]
       ELSE UNCHANGED <<last, hashes>>
    /\ Over(p)
    /\ UNCHANGED <<store, chainVars, rpcErrors, stops, clean>>

-----------------------------------------------------------------------------
(* The chain *)

LedgerCloses ==
    /\ tip < MaxLedger /\ tip' = tip + 1
    /\ chain' = [chain EXCEPT ![tip'] = reorgs]
    /\ UNCHANGED <<store, reorgs, rpcErrors, stops, storedVars, pollVars, clean>>

\* The ledgers from k on are written anew.  The code can follow when it happens
\* between two polls and the hashes around k are stored.
Reorganise ==
    /\ reorgs < MaxReorgs /\ reorgs' = reorgs + 1
    /\ \E k \in 2..tip :
         /\ chain' = [l \in Ledgers |-> IF l \in k..tip THEN reorgs' ELSE chain[l]]
         /\ clean' = (clean /\ (\A p \in Chains : poll[p].at \notin {"latest", "events"}) /\
                        (k <= last => /\ \A l \in (k - 1)..last : hashes[l] # NoHash
                                      /\ last - k < maxReorgDepth))
    /\ UNCHANGED <<store, tip, rpcErrors, stops, storedVars, pollVars>>

PollStep(p) ==
    \/ TimerFires(p) \/ DetectNothing(p) \/ DetectReorg(p) \/ GetLatestLedger(p) \/ RpcError(p)
    \/ GetEvents(p) \/ GetEventsFails(p) \/ InsertBatch(p)

IndexerNext ==
    \/ \E p \in Chains : PollStep(p)
    \/ Start \/ Stop \/ Crash \/ LedgerCloses \/ Reorganise

IndexerTypeOK ==
    /\ store \in {"EventStore", "adapter"} /\ tip \in Ledgers
    /\ chain \in [Ledgers -> 0..MaxReorgs] /\ last \in 0..MaxLedger
    /\ hashes \in [Ledgers -> {NoHash} \cup (0..MaxReorgs)]
    /\ rows \subseteq Events /\ twice \subseteq rows
    /\ \A p \in Chains : /\ poll[p].at \in {"ended", "waiting"} \cup UnderWay
                          /\ poll[p].got \subseteq Events
    /\ pollTimer \in Chains \cup {0} /\ {running, clean} \subseteq BOOLEAN

-----------------------------------------------------------------------------
\* Once a poll has looked for a reorganisation, the index up to its watermark is
\* the chain's events, each once: none lost, none of an abandoned fork, none
\* double, through crashes in mid-poll, stops that leave a poll running, and
\* reorganisations between polls.  It holds of a store that keeps the poller's
\* contract, and until one of the things the poller does not guard against has
\* happened (clean): a read that failed or was cut off at batchSize, a ledger closed
\* between getLatestLedger and getEvents, a reorganisation inside a poll or across
\* ledgers without a hash, and a start while the poll of an earlier chain is under
\* way, after which the two insert the same events twice.
IndexIsExact ==
    store = "adapter" /\ clean /\ (\E p \in Chains : poll[p].at \in {"latest", "events"}) =>
        /\ twice = {}
        /\ rows = {<<c, l, chain[l]>> : c \in Contracts, l \in startLedger..last}
=============================================================================
