------------------------------ MODULE PaymentDedup ------------------------------
(***************************************************************************)
(* PaymentDedupCache of sdk/src/marcPaywallCore.ts: the cache exported for *)
(* paywall adapters that must not answer one payment twice.  A transaction *)
(* hash is reserved, then settled or released; entries expire.  The calls  *)
(* are synchronous, the request that made the reservation goes on between  *)
(* them.  No adapter of the repository uses it.                            *)
(***************************************************************************)
EXTENDS Integers

CONSTANTS
    Hashes,         \* transaction hashes
    Bearers,        \* requests that present them
    dedupTtl,       \* ttlMs, in ticks
    MaxDedupClock   \* bound: ticks of the clock

ASSUME DedupAssumption == dedupTtl \in Nat \ {0} /\ MaxDedupClock \in Nat

VARIABLES
    dedup,      \* entries: for each hash its entry, or Missing
    dedupClock, \* now()
    bearer,     \* what each request was told: [hash, kind, entry]
    heldUntil   \* the expiry each request was given with its reservation, 0 without one

dedupVars == <<dedup, dedupClock, bearer, heldUntil>>

Missing == [status |-> "none", expiresAt |-> 0]
Unasked == [hash |-> "none", kind |-> "none"]

DedupInit ==
    /\ dedup = [h \in Hashes |-> Missing]
    /\ dedupClock = 0
    /\ bearer = [b \in Bearers |-> Unasked]
    /\ heldUntil = [b \in Bearers |-> 0]

-----------------------------------------------------------------------------
\* getLiveEntry, and the entries it leaves in the map: an expired one is deleted.
LiveEntry(h) == IF dedup[h].expiresAt <= dedupClock THEN Missing ELSE dedup[h]

Keep(h, entry) == dedup' = [dedup EXCEPT ![h] = entry]
Entry(status) == [status |-> status, expiresAt |-> dedupClock + dedupTtl]

\* Mutant: Only a settled payment is refused, one in flight is handed out again.
ReserveInFlight(b, h) ==
    /\ bearer[b].kind = "none"
    /\ LiveEntry(h).status # "SETTLED"
    /\ Keep(h, Entry("PROCESSING"))
    /\ bearer' = [bearer EXCEPT ![b] = [hash |-> h, kind |-> "acquired"]]
    /\ heldUntil' = [heldUntil EXCEPT ![b] = dedupClock + dedupTtl]
    /\ UNCHANGED dedupClock

\* reserve: acquired, in-flight or settled.
Reserve(b, h) ==
    LET live == LiveEntry(h)
        free == live = Missing
    IN  /\ bearer[b].kind = "none"
        /\ Keep(h, IF free THEN Entry("PROCESSING") ELSE live)
        /\ bearer' = [bearer EXCEPT ![b] =
                        [hash |-> h, kind |-> CASE free -> "acquired"
                                                [] live.status = "SETTLED" -> "settled"
                                                [] OTHER -> "in-flight"]]
        /\ heldUntil' = [heldUntil EXCEPT ![b] = IF free THEN dedupClock + dedupTtl ELSE 0]
        /\ UNCHANGED dedupClock

\* The request with the reservation was paid: settle, of whatever entry is live by now.
SettlePayment(b) ==
    LET h == bearer[b].hash
        live == LiveEntry(h)
    IN  /\ bearer[b].kind = "acquired"
        /\ Keep(h, IF live = Missing THEN Missing ELSE Entry("SETTLED"))
        /\ bearer' = [bearer EXCEPT ![b].kind = IF live = Missing THEN "late" ELSE "served"]
        /\ UNCHANGED <<dedupClock, heldUntil>>

\* Verification failed: release, unless it is settled.  The entry is found by its hash:
\* a request whose own reservation expired releases the one of the next request.
Overdue(b) == heldUntil[b] <= dedupClock
ReleasePayment(b) ==
    LET h == bearer[b].hash
        live == LiveEntry(h)
    IN  /\ bearer[b].kind = "acquired"
        /\ Keep(h, IF live.status = "PROCESSING" THEN Missing ELSE live)
        /\ bearer' = [bearer EXCEPT ![b].kind = IF Overdue(b) THEN "late" ELSE "refused"]
        /\ UNCHANGED <<dedupClock, heldUntil>>

\* get only reads, yet it drops what has expired.
GetEntry(h) == Keep(h, LiveEntry(h)) /\ UNCHANGED <<dedupClock, bearer, heldUntil>>

\* prune and clear, whenever the server likes.
Prune ==
    /\ dedup' = [h \in Hashes |-> LiveEntry(h)]
    /\ UNCHANGED <<dedupClock, bearer, heldUntil>>
ClearDedup ==
    /\ dedup' = [h \in Hashes |-> Missing]
    /\ heldUntil' = [b \in Bearers |-> 0]
    /\ UNCHANGED <<dedupClock, bearer>>

DedupTick ==
    /\ dedupClock < MaxDedupClock
    /\ dedupClock' = dedupClock + 1
    /\ UNCHANGED <<dedup, bearer, heldUntil>>

DedupNext ==
    \/ \E b \in Bearers, h \in Hashes : Reserve(b, h)
    \/ \E b \in Bearers : SettlePayment(b) \/ ReleasePayment(b)
    \/ \E h \in Hashes : GetEntry(h)
    \/ Prune \/ ClearDedup \/ DedupTick

DedupTypeOK ==
    /\ DOMAIN dedup = Hashes
    /\ \A h \in Hashes : dedup[h].status \in {"none", "PROCESSING", "SETTLED"}
    /\ \A b \in Bearers : bearer[b].kind \in {"none", "acquired", "in-flight", "settled",
                                              "served", "late", "refused"}

-----------------------------------------------------------------------------
\* One request at a time acquires a payment, and the others wait until it is settled or
\* released (marcPaywallCore.ts:104-111), for as long as its reservation runs, nobody
\* clears the cache, and no request that overran its own reservation releases this one.
HeldAlone ==
    \A b, c \in Bearers :
        /\ b # c /\ bearer[b].hash = bearer[c].hash
        /\ bearer[b].kind = "acquired" /\ ~Overdue(b)
        /\ \A d \in Bearers : bearer[d].hash = bearer[b].hash => bearer[d].kind # "late"
        => ~(bearer[c].kind = "acquired" /\ ~Overdue(c))
=============================================================================
