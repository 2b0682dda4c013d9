----------------------------- MODULE DashboardAuth -----------------------------
(***************************************************************************)
(* How the dashboard knows who is calling (dashboard/server.ts, lib/       *)
(* auth.ts, lib/authChallenges.ts, lib/rateLimiter.ts): challenges with a  *)
(* limit on how many are asked for, sessions, the middleware of the        *)
(* mutating routes, and the audit trail.                                   *)
(*                                                                         *)
(* A challenge is the number of the request that asked for it: its hash,   *)
(* which signing does not change.  All requests come from one address.     *)
(* Time is in minutes; an expired session is one whose time has come.      *)
(***************************************************************************)
EXTENDS Naturals, Sequences, SequencesExt

CONSTANTS
    Accounts,
    limit, windowMs,        \* the challenge limiter
    ttlMs,                  \* how long a challenge can be answered
    JWT_EXPIRY,
    MAX_AUDIT_ENTRIES,
    AuditFileSize,          \* entries that fit into one audit file
    MaxChallenges, MaxClock  \* bounds: requests for challenges, minutes

ASSUME AuthAssumption ==
    /\ {limit, windowMs, ttlMs, JWT_EXPIRY, MAX_AUDIT_ENTRIES, AuditFileSize} \subseteq Nat \ {0}
    /\ MaxChallenges \in Nat /\ MaxClock \in Nat \ {0}

AUDIT_LOG_MAX_FILES == 3

VARIABLES
    clock,
    bucket,         \* the limiter's timestamps, oldest first
    asked,          \* requests for a challenge: [account, state, expires]
    sessions,       \* the tokens handed out: [account, exp]
    trail,          \* auditTrail
    files           \* audit.jsonl, audit.jsonl.1, audit.jsonl.2

authVars == <<clock, bucket, asked, sessions, trail, files>>

AuthInit ==
    /\ clock = 1 /\ bucket = <<>> /\ asked = <<>> /\ sessions = {}
    /\ trail = <<>> /\ files = [i \in 1 .. AUDIT_LOG_MAX_FILES |-> <<>>]

-----------------------------------------------------------------------------
(* Challenges *)

\* The timestamps that still count: what has expired, up to the first of the window
\* (clock - windowMs, clock], is spliced off.
InWindow(stamps) ==
    LET expired == Min({n \in 0 .. Len(stamps) :
                           n < Len(stamps) => stamps[n + 1] + windowMs > clock})
    IN  SubSeq(stamps, expired + 1, Len(stamps))

\* GET /api/auth/challenge: the limiter, then the account is looked up.
AskChallenge(account) ==
    /\ Len(asked) < MaxChallenges
    /\ LET fresh == InWindow(bucket)
           allowed == Len(fresh) < limit
       IN  /\ bucket' = IF allowed THEN Append(fresh, clock) ELSE fresh
           /\ asked' = Append(asked, [account |-> account, expires |-> 0,
                                      state |-> IF allowed THEN "lookup" ELSE "429"])
    /\ UNCHANGED <<clock, sessions, trail, files>>

AccountFound(c) ==
    /\ asked[c].state = "lookup"
    /\ asked' = [asked EXCEPT ![c].state = "issued", ![c].expires = clock + ttlMs]
    /\ UNCHANGED <<clock, bucket, sessions, trail, files>>

\* No endpoint knows the account, or none answers.
AccountUnknown(c) ==
    /\ asked[c].state = "lookup" /\ asked' = [asked EXCEPT ![c].state = "400"]
    /\ UNCHANGED <<clock, bucket, sessions, trail, files>>

\* IssuedChallengeStore.has
has(c) == asked[c].state = "issued" /\ asked[c].expires > clock

\* POST /api/auth/token with challenge c, signed by `signer`: verifyChallengeTx wants the
\* signature of the account the challenge names.  The handler has no await, so a
\* challenge is checked and consumed at once.
Token(c, signer) ==
    /\ has(c) /\ signer = asked[c].account
    /\ asked' = [asked EXCEPT ![c].state = "consumed"]
    /\ sessions' = sessions \cup {[account |-> signer, exp |-> clock + JWT_EXPIRY]}
    /\ UNCHANGED <<clock, bucket, trail, files>>

\* A challenge that is found expired is forgotten on the spot.
TokenRefused(c) ==
    /\ asked[c].state = "issued" /\ ~has(c)
    /\ asked' = [asked EXCEPT ![c].state = "forgotten"]
    /\ UNCHANGED <<clock, bucket, sessions, trail, files>>

\* The timers of the store and of the limiter.
Prune ==
    /\ bucket' = InWindow(bucket)
    /\ asked' = [c \in DOMAIN asked |->
                   IF asked[c].state = "issued" /\ ~has(c)
                   THEN [asked[c] EXCEPT !.state = "forgotten"] ELSE asked[c]]
    /\ UNCHANGED <<clock, sessions, trail, files>>

Tick ==
    /\ clock < MaxClock /\ clock' = clock + 1
    /\ UNCHANGED <<bucket, asked, sessions, trail, files>>

-----------------------------------------------------------------------------
(* Sessions *)

verifySession(token) == token \in sessions /\ token.exp > clock

\* POST /api/auth/refresh: a new token, the old one stays good.
Refresh(token) ==
    /\ verifySession(token)
    /\ sessions' = sessions \cup {[token EXCEPT !.exp = clock + JWT_EXPIRY]}
    /\ UNCHANGED <<clock, bucket, asked, trail, files>>

\* POST /api/auth/logout: invalidateSession does nothing.
Logout == UNCHANGED authVars

\* appendAuditEntry: a full file is rotated first, and the oldest is lost.
appendAuditEntry(entry) ==
    IF Len(files[1]) >= AuditFileSize
    THEN [i \in DOMAIN files |-> IF i = 1 THEN <<entry>> ELSE files[i - 1]]
    ELSE [files EXCEPT ![1] = Append(@, entry)]

\* What the middleware of a mutating route answers to a request that carries
\* `token` and names `wallet` (optionalAuthMiddleware, requireDashboardWallet).
Verdict(token, wallet) ==
    IF ~verifySession(token) THEN 401
    ELSE IF wallet # "none" /\ wallet # token.account THEN 403 ELSE 200

\* A request for an audited route: auditAdminAction notes the answer when the
\* response is finished, refused requests too, which name whom they wanted to be.
AuditedRequest(token, wallet) ==
    /\ trail' = LET entry == [wallet |-> IF Verdict(token, wallet) = 401 THEN wallet
                                         ELSE token.account,
                              code |-> Verdict(token, wallet)]
                    longer == Append(trail, entry)
                IN  IF Len(longer) > MAX_AUDIT_ENTRIES THEN Tail(longer) ELSE longer
    /\ files' = appendAuditEntry(Last(trail'))
    /\ UNCHANGED <<clock, bucket, asked, sessions>>

\* A restart reads the trail back from the files, oldest file first
\* (readAuditLog); challenges and limits are forgotten.  JWT_SECRET is set.
Restart ==
    /\ LET kept == files[3] \o files[2] \o files[1]
       IN  trail' = SubSeq(kept, IF Len(kept) > MAX_AUDIT_ENTRIES
                                 THEN Len(kept) - MAX_AUDIT_ENTRIES + 1 ELSE 1, Len(kept))
    /\ bucket' = <<>>
    /\ asked' = [c \in DOMAIN asked |-> IF asked[c].state \in {"lookup", "issued"}
                                        THEN [asked[c] EXCEPT !.state = "forgotten"] ELSE asked[c]]
    /\ UNCHANGED <<clock, sessions, files>>

AuthNext ==
    \/ \E account \in Accounts : AskChallenge(account)
    \/ \E c \in DOMAIN asked :
         \/ AccountFound(c) \/ AccountUnknown(c) \/ TokenRefused(c)
         \/ \E signer \in Accounts : Token(c, signer)
    \/ Prune \/ Tick \/ Logout \/ Restart
    \/ \E token \in sessions :
         \/ Refresh(token)
         \/ \E wallet \in Accounts \cup {"none"} : AuditedRequest(token, wallet)

\* The challenges let through in a window stay within the limit, whatever was pruned;
\* types for the rest.
AuthTypeOK ==
    /\ clock \in 1 .. MaxClock /\ Len(bucket) <= limit
    /\ \A c \in DOMAIN asked :
         /\ asked[c].account \in Accounts /\ asked[c].expires \in 0 .. MaxClock + ttlMs
         /\ asked[c].state \in {"lookup", "429", "issued", "400", "consumed", "forgotten"}
    /\ sessions \subseteq [account : Accounts, exp : 1 .. MaxClock + JWT_EXPIRY]
    /\ Len(trail) <= MAX_AUDIT_ENTRIES /\ \A i \in DOMAIN files : Len(files[i]) <= AuditFileSize
=============================================================================
