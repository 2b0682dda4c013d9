---------------------------- MODULE EventDecoding ----------------------------
(***************************************************************************)
(* What becomes of a contract's event off the chain: the header the        *)
(* indexer's poller stores it under (parseEventTopicHeader), the decoders  *)
(* of sdk/src/events.ts, and the stream of one job's events, from          *)
(* matchesJobEvent (dashboard/lib/jobEvents.ts) to the callback of         *)
(* subscribeJob.                                                           *)
(*                                                                         *)
(* Two layouts are known (docs/EVENTS.md).  What the contracts publish now *)
(* has as topics the struct's name in snake case, the version where the    *)
(* struct has it, and who acted, and as body a map of the other fields.    *)
(* The first layout, which the decoders and their tests are written for,   *)
(* has the struct's own name and who acted, and a tuple, one value or a    *)
(* map as body.                                                            *)
(*                                                                         *)
(* A value is the name of the field it was emitted as, so a decoder that   *)
(* takes a value from the wrong place is seen to.                          *)
(***************************************************************************)
EXTENDS Naturals, Sequences, FiniteSets, SequencesExt

VARIABLES
    event,      \* external: the event, [name, version, topics, form, body]
    header,     \* as the poller reads it: NoHeader, or [name, version, actor]
    decoded,    \* Pending, DecodeThrows, or [type, actor, fields]
    followed    \* by the stream of a job: [at, type, id]

decodingVars == <<event, header, decoded, followed>>

NoHeader == [name |-> "", version |-> "", actor |-> ""]
Pending == [type |-> "", actor |-> "", fields |-> <<>>]
DecodeThrows == [type |-> "throws", actor |-> "", fields |-> <<>>]

\* The fields each decoder returns, in the order of its tuple form.
decodeRegisteredEvent == <<"agent_id">>
decodeUriUpdatedEvent == <<"agent_id">>
decodeAgentDeregisteredEvent == <<"agent_id">>
decodeOwnerTransferredEvent == <<"new_owner", "agent_id">>
decodeBadgeIssuedEvent == <<"agent_id", "badge_id">>
decodeBadgeRevokedEvent == <<"agent_id", "badge_id">>
decodeJobCreatedEvent == <<"job_id", "budget">>
decodeJobSubmittedEvent == <<"job_id">>
decodeJobCompletedEvent == <<"job_id", "payout", "fee", "timestamp">>
decodeJobCancelledEvent == <<"job_id">>
decodeJobDisputedEvent == <<"job_id", "timestamp">>
decodeJobRefundedEvent == <<"job_id">>
decodeJobExpiredEvent == <<"job_id", "payout", "fee", "timestamp">>
decodeBatchJobsCreatedEvent == <<"batch_id", "job_ids", "budget">>

\* IdentityEvents and CommerceEvents, each with its decoder.
IdentityFields ==
    [ Registered |-> decodeRegisteredEvent, UriUpdated |-> decodeUriUpdatedEvent,
      AgentDeregistered |-> decodeAgentDeregisteredEvent,
      OwnerTransferred |-> decodeOwnerTransferredEvent,
      BadgeIssued |-> decodeBadgeIssuedEvent, BadgeRevoked |-> decodeBadgeRevokedEvent ]

CommerceFields ==
    [ JobCreated |-> decodeJobCreatedEvent, JobSubmitted |-> decodeJobSubmittedEvent,
      JobCompleted |-> decodeJobCompletedEvent, JobCancelled |-> decodeJobCancelledEvent,
      JobDisputed |-> decodeJobDisputedEvent, JobRefunded |-> decodeJobRefundedEvent,
      JobExpired |-> decodeJobExpiredEvent, BatchJobsCreated |-> decodeBatchJobsCreatedEvent ]

Identity == DOMAIN IdentityFields
Commerce == DOMAIN CommerceFields
Fields(name) == IF name \in Identity THEN IdentityFields[name] ELSE CommerceFields[name]

-----------------------------------------------------------------------------
(* The two layouts *)

\* The structs marked contractevent: the name in the first topic, and the fields
\* that are no topics.
Published ==
    [ Registered |-> [wire |-> "registered", fields |-> <<"agent_id">>],
      UriUpdated |-> [wire |-> "uri_updated", fields |-> <<"agent_id">>],
      AgentDeregistered |-> [wire |-> "agent_deregistered", fields |-> <<"agent_id">>],
      OwnerTransferred |->
        [wire |-> "owner_transferred", fields |-> <<"new_owner", "agent_id">>],
      BadgeIssued |->
        [wire |-> "badge_issued", fields |-> <<"agent_id", "tag", "score", "expires_at">>],
      BadgeRevoked |-> [wire |-> "badge_revoked", fields |-> <<"agent_id", "tag">>],
      JobCreated |-> [wire |-> "job_created", fields |-> <<"job_id", "budget">>],
      JobSubmitted |-> [wire |-> "job_submitted", fields |-> <<"deliverable_hash", "job_id">>],
      JobCompleted |-> [wire |-> "job_completed",
                        fields |-> <<"job_id", "provider", "payout", "fee", "timestamp">>],
      JobCancelled |-> [wire |-> "job_cancelled", fields |-> <<"job_id">>],
      JobDisputed |-> [wire |-> "job_disputed", fields |-> <<"job_id", "timestamp">>],
      JobRefunded |-> [wire |-> "job_refunded", fields |-> <<"job_id">>],
      JobExpired |->
        [wire |-> "job_expired", fields |-> <<"job_id", "payout", "fee", "timestamp">>],
      BatchJobsCreated |-> [wire |-> "batch_jobs_created", fields |-> <<"job_ids">>],
      Paused |-> [wire |-> "paused", fields |-> <<"timestamp">>] ]

\* The structs without a version among their topics.
Unversioned == {"JobDisputed", "Paused"}

\* The second topic is a number in the one, and an address in the other.
EventTopics(name) ==
    IF name \in Unversioned THEN <<Published[name].wire, "actor">>
    ELSE <<Published[name].wire, "v2", "actor">>

ContractEvents ==
    {[name |-> n, version |-> IF n \in Unversioned THEN "v1" ELSE "v2",
      topics |-> EventTopics(n), form |-> "map", body |-> Published[n].fields]
        : n \in DOMAIN Published}

FirstLayout(name, topics, form, body) ==
    [name |-> name, version |-> "v1", topics |-> topics, form |-> form, body |-> body]

\* A map holds the struct's fields; a tuple the decoder's, except that a
\* JobCompleted may have the provider behind the job id (issue #27), and an
\* OwnerTransferred the new owner as a third topic; one value is a tuple of one.
FirstEvents ==
    {FirstLayout(n, <<n, "actor">>, "map", Published[n].fields) : n \in Identity \cup Commerce}
    \cup {FirstLayout(n, <<n, "actor">>, "tuple", Fields(n)) : n \in Identity \cup Commerce}
    \cup {FirstLayout(n, <<n, "actor">>, "value", Fields(n))
            : n \in {m \in Identity \cup Commerce : Len(Fields(m)) = 1}}
    \cup {FirstLayout("JobCompleted", <<"JobCompleted", "actor">>, "tuple",
                      Published.JobCompleted.fields)}
    \cup {FirstLayout("OwnerTransferred", <<"OwnerTransferred", "actor", "new_owner">>, f,
                      <<"agent_id">>) : f \in {"map", "tuple", "value"}}

Events == ContractEvents \cup FirstEvents

-----------------------------------------------------------------------------
(* The header *)

\* Mutant: The actor is taken to follow a version, as in the second layout.
ActorThird(e) ==
    IF Len(e.topics) < 3 THEN NoHeader
    ELSE [name |-> e.topics[1], version |-> e.topics[2], actor |-> e.topics[3]]

\* A number as second topic is the version, and who acted is behind it.
parseEventTopicHeader(e) ==
    IF e.topics[2] = "v2"
    THEN [name |-> e.topics[1], version |-> "v2", actor |-> e.topics[3]]
    ELSE [name |-> e.topics[1], version |-> "v1", actor |-> e.topics[2]]

\* toInsertParams: what the event is stored under.
StoreEvent ==
    /\ header = NoHeader
    /\ header' = parseEventTopicHeader(event)
    /\ UNCHANGED <<event, decoded, followed>>

-----------------------------------------------------------------------------
(* Decoding *)

\* Where a decoder looks for its k-th field in a tuple: in a JobCompleted of
\* five values everything behind the job id is one further on.
Position(e, k) ==
    IF e.name = "JobCompleted" /\ Len(e.body) >= 5 /\ k > 1 THEN k + 1 ELSE k

\* By name in a map, by position in a tuple; a body that is neither is the
\* value itself, which only the decoders of one field take.
Lookup(e, fields, k) ==
    CASE e.form = "map" -> fields[k]
      [] e.form = "tuple" -> e.body[Position(e, k)]
      [] OTHER -> e.body[1]

\* A field a map does not have does not convert; one value is not several.
\* (The ids of a batch are an empty list then, but its number fails.)
Unreadable(e, fields) ==
    \/ e.form = "map" /\ ~(ToSet(fields) \subseteq ToSet(e.body))
    \/ e.form = "value" /\ Len(fields) > 1

\* decodeOwnerTransferredEvent takes the new owner from a third topic if there
\* is one, and then only the agent from the body.
WantedFields(e) ==
    IF e.name = "OwnerTransferred" /\ Len(e.topics) >= 3 THEN <<"agent_id">> ELSE Fields(e.name)

DecodeBody(e) ==
    LET fields == WantedFields(e)
        got == [k \in DOMAIN fields |-> Lookup(e, fields, k)]
    IN  IF Unreadable(e, fields) THEN DecodeThrows
        ELSE [type |-> e.topics[1], actor |-> e.topics[2],
              fields |-> SubSeq(e.topics, 3, Len(e.topics)) \o got]

\* decodeIdentityEvent, decodeCommerceEvent: the decoder is chosen by the first
\* topic; an unknown one is refused.
DecodeIdentityEvent ==
    /\ decoded = Pending
    /\ decoded' = IF event.topics[1] \in Identity THEN DecodeBody(event) ELSE DecodeThrows
    /\ UNCHANGED <<event, header, followed>>

DecodeCommerceEvent ==
    /\ decoded = Pending
    /\ decoded' = IF event.topics[1] \in Commerce THEN DecodeBody(event) ELSE DecodeThrows
    /\ UNCHANGED <<event, header, followed>>

-----------------------------------------------------------------------------
(* The stream of a job *)

JobEventTypes == {"JobSubmitted", "JobCompleted", "JobCancelled", "JobDisputed"}
Unfollowed == [at |-> "server", type |-> "", id |-> ""]
NotAnId == ""

\* eventJobId: the first of a tuple, the job id of a map, or the value itself.
eventJobId(e) ==
    CASE e.form = "map" -> IF "job_id" \in ToSet(e.body) THEN "job_id" ELSE NotAnId
      [] OTHER -> e.body[1]

\* matchesJobEvent, of a stored event: it is the contract's, is stored under one
\* of the types (getJobEventType), and its id is the job's.
MatchJobEvent ==
    /\ followed = Unfollowed /\ header # NoHeader
    /\ \E ours, sameId \in BOOLEAN :
         followed' = IF /\ ours /\ header.name \in JobEventTypes
                        /\ sameId /\ eventJobId(event) # NotAnId
                     THEN [at |-> "sent", type |-> header.name, id |-> eventJobId(event)]
                     ELSE [Unfollowed EXCEPT !.at = "skipped"]
    /\ UNCHANGED <<event, header, decoded>>

\* subscribeJob listens to each of the types; what does not parse is dropped.
SubscribedCallback ==
    /\ followed.at = "sent" /\ followed.type \in JobEventTypes
    /\ \E at \in {"called", "dropped"} : followed' = [followed EXCEPT !.at = at]
    /\ UNCHANGED <<event, header, decoded>>

DecodingStart(e) ==
    event = e /\ header = NoHeader /\ decoded = Pending /\ followed = Unfollowed
DecodingInit == \E e \in Events : DecodingStart(e)
DecodingNext ==
    \/ StoreEvent \/ DecodeIdentityEvent \/ DecodeCommerceEvent
    \/ MatchJobEvent \/ SubscribedCallback

-----------------------------------------------------------------------------
\* The two layouts are told apart and none is taken for the other: whatever event
\* the contracts publish, with a version in its header or without, the poller
\* stores it under the one who acted and its version; and what the SDK decodes, or
\* a subscriber of a job is called with, is an event of the first layout, with
\* each field's own value.  The hazard is a position shifted by a version of the
\* layout: a version taken for who acted, a payout for a fee.  It also says, of an
\* event as the contracts now publish it, that the decoders refuse it and no
\* subscriber hears of it: their names are not the ones in its first topic.
DecodedAsEmitted ==
    /\ header # NoHeader =>
         header = [name |-> event.topics[1], version |-> event.version, actor |-> "actor"]
    /\ decoded \notin {Pending, DecodeThrows} =>
         /\ event \in FirstEvents
         /\ decoded = [type |-> event.name, actor |-> "actor", fields |-> Fields(event.name)]
    /\ followed.at = "called" =>
         event \in FirstEvents /\ followed.type = event.name /\ followed.id = "job_id"
=============================================================================
